-------------------------- MODULE ContentLanguage --------------------------
(***************************************************************************)
(* parse_content_language() of src/lib-imap/imap-bodystructure.c, which   *)
(* turns the RFC822 tokens of a Content-Language value into a list of     *)
(* quoted language tags and must accept any token sequence, and a         *)
(* reference reading of the same header to compare it with.                *)
(***************************************************************************)
EXTENDS Sequences, SequencesExt

\* A token: k is its class, v its text.  RFC822 tokens have the classes
\* "atom", "qstring" (IS_TOKEN_STRING), "comment" ('(') and "special".
Tk(k, v) == [k |-> k, v |-> v]
Comma == Tk("special", ",")

\* Concatenated text of RFC822 tokens (rfc822_tokens_get_value()).
TokText(ts) == FoldLeft(LAMBDA acc, t : acc \o t.v, "", ts)

\* The loop with the ',' case that does not clear the "quoted" flag.
LangStepCommaKeepsOpen(st, t) ==
  IF t.k = "comment" THEN st
  ELSE IF t = Comma THEN st
  ELSE IF st.open THEN [st EXCEPT !.tags[Len(st.tags)] = @ \o t.v]
  ELSE [tags |-> Append(st.tags, t.v), open |-> TRUE]

\* One iteration of the token loop.  st.tags are the tags written so far,
\* st.open is the "quoted" flag: the last tag's closing quote is pending.
LangStep(st, t) ==
  IF t.k = "comment" THEN st
  ELSE IF t = Comma THEN [st EXCEPT !.open = FALSE]
  ELSE IF st.open THEN [st EXCEPT !.tags[Len(st.tags)] = @ \o t.v]
  ELSE [tags |-> Append(st.tags, t.v), open |-> TRUE]
\* The tags of a whole value; the closing quote is written after the loop.
LanguageTags(ts) == FoldLeft(LangStep, [tags |-> <<>>, open |-> FALSE], ts).tags
\* Reference reading of Content-Language: the value is split at the commas,
\* comments are dropped, and every non-empty group is one tag.
RECURSIVE CommaGroups(_)
CommaGroups(ts) ==
  IF Comma \notin ToSet(ts) THEN <<ts>>
  ELSE LET i == CHOOSE i \in DOMAIN ts : ts[i] = Comma /\ Comma \notin ToSet(SubSeq(ts, 1, i - 1))
       IN <<SubSeq(ts, 1, i - 1)>> \o CommaGroups(SubSeq(ts, i + 1, Len(ts)))
LanguageTagsRef(ts) ==
  LET gs == [i \in DOMAIN CommaGroups(ts) |->
               SelectSeq(CommaGroups(ts)[i], LAMBDA t : t.k # "comment")]
      tags == SelectSeq(gs, LAMBDA g : g # <<>>)
  IN [i \in DOMAIN tags |-> TokText(tags[i])]


=============================================================================
