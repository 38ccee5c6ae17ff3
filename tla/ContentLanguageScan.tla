------------------------ MODULE ContentLanguageScan ------------------------
(***************************************************************************)
(* The token loop of parse_content_language() as a state machine: the     *)
(* RFC822 tokenizer hands over one token per step, and the loop state is   *)
(* compared with the reference reading of the tokens seen so far.          *)
(***************************************************************************)
EXTENDS Naturals, ContentLanguage

CONSTANTS
  LangAlphabet,   \* RFC822 tokens a Content-Language value may contain
  LangMaxLen      \* bound on the number of tokens of one value

VARIABLES
  toks,   \* the tokens consumed so far
  st      \* [tags, open]: the tags written so far and the "quoted" flag

vars == <<toks, st>>

Init ==
  /\ toks = <<>>
  /\ st = [tags |-> <<>>, open |-> FALSE]

\* One iteration of the for loop over the tokens (lines 109-140).
ScanToken(t) ==
  /\ Len(toks) < LangMaxLen
  /\ toks' = Append(toks, t)
  /\ st' = LangStep(st, t)

Next == \E t \in LangAlphabet : ScanToken(t)

Spec == Init /\ [][Next]_vars

\* Whatever tokens a malformed header holds, after each of them the tags
\* written are the comma-separated, comment-free groups of the tokens read,
\* and the closing quote is pending exactly when the last group is open.
LanguageScanMatchesReference ==
  /\ st.tags = LanguageTagsRef(toks)
  /\ st.open = (LET rest == SelectSeq(toks, LAMBDA t : t.k # "comment")
                IN rest # <<>> /\ rest[Len(rest)] # Comma)

=============================================================================
