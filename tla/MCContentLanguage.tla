------------------------- MODULE MCContentLanguage -------------------------
EXTENDS ContentLanguageScan

\* Atoms, a quoted string, a comment, the list separator and another
\* special character (which the code appends as-is).
MCLangAlphabet == {Tk("atom", "en"), Tk("atom", "US"), Tk("qstring", "x y"),
                   Tk("comment", "c"), Comma, Tk("special", ";")}
=============================================================================
