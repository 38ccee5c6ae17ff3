CONSTANTS
  LangAlphabet <- MCLangAlphabet
  LangMaxLen = 5
SPECIFICATION Spec
INVARIANTS
  LanguageScanMatchesReference
CHECK_DEADLOCK FALSE
