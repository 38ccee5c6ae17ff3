--------------------------- MODULE BodyStructure ---------------------------
(***************************************************************************)
(* The IMAP BODYSTRUCTURE codec of src/lib-imap/imap-bodystructure.c.      *)
(*                                                                         *)
(* A FETCH calls imap_part_get_bodystructure(): the header walk hands      *)
(* every header of every MIME part, in document order, to parse_header(),  *)
(* which fills the part's MessagePartBodyData; then                        *)
(* part_write_bodystructure() renders the tree as BODY (extended = FALSE)  *)
(* or BODYSTRUCTURE (extended = TRUE).  imap_body_parse_from_bodystructure *)
(* reduces a cached BODYSTRUCTURE string to BODY.                          *)
(*                                                                         *)
(* Text is modelled at the lexical level: a rendered string is a sequence  *)
(* of tokens "(", ")", " ", NIL, quoted strings and atoms, so that         *)
(* parenthesisation and field separation are exact while the characters of *)
(* a word are not.  Header names are modelled case-folded (strcasecmp).    *)
(***************************************************************************)
EXTENDS Naturals, Sequences, SequencesExt, ContentLanguage

CONSTANTS
  Parts,          \* MIME part ids; Root is the message itself
  Root,
  Trees,          \* candidate child lists: functions [Parts -> Seq(Parts)]
  HeaderBlocks,   \* [Parts -> SUBSET Seq(Header)]: candidate header blocks
  Octets, Lines,  \* [Parts -> atom text]: body_size.virtual_size / .lines
  UpperToLower,   \* strcasecmp(): the case folding of words not in lower case
  MaxPasses,      \* bound on the number of imap_part_get_bodystructure calls
  NULL            \* the C NULL pointer

Lower(w) == IF w \in DOMAIN UpperToLower THEN UpperToLower[w] ELSE w

(***************************************************************************)
(* Lexical tokens of rendered text, and RFC822 tokens of header values.    *)
(***************************************************************************)
LP == Tk("(", "")
RP == Tk(")", "")
SP == Tk(" ", "")
NIL == Tk("nil", "")
Q(w) == Tk("q", w)              \* a double-quoted string
Atom(w) == Tk("a", w)
Token == [k : {"(", ")", " ", "nil", "q", "a"}, v : STRING]

\* An RFC822 token: atom, quoted-string, comment or a special character.
RfcToken == [k : {"atom", "qstring", "comment", "special"}, v : STRING]
Slash == Tk("special", "/")

ContentHeaders == {"Content-Type", "Content-Transfer-Encoding", "Content-ID",
                   "Content-Description", "Content-Disposition",
                   "Content-Language", "Content-MD5"}
\* Names longer than 8 characters starting with "Content-" (line 159);
\* "Content-" itself is exactly 8 characters long.
ContentPrefixed == ContentHeaders \cup {"Content-Other"}
HeaderNames == ContentPrefixed \cup {"Content-", "Subject", "From", "Received"}

\* main: the value tokens before ';', params: the name=value pairs after it,
\* raw: the unparsed value, as message_content_parse_header() splits them.
Header == [name : HeaderNames, main : Seq(RfcToken),
           params : Seq(STRING \X STRING), raw : STRING]

Fields == {"content_type", "content_subtype", "content_type_params",
           "content_transfer_encoding", "content_id", "content_description",
           "content_disposition", "content_disposition_params",
           "content_md5", "content_language", "envelope"}
NoData == [f \in Fields |-> NULL]      \* p_new() zero-fills the struct

VARIABLES
  kids,      \* the MIME tree chosen by the message parser
  hdrs,      \* the header block of every part
  ctx,       \* part->context: MessagePartBodyData or NULL
  pending,   \* <<part, header>> pairs the current header walk has yet to visit
  mode,      \* "idle" or the extended flag of the call in progress
  passes,    \* number of imap_part_get_bodystructure calls made
  out,       \* [BOOLEAN -> text]: the last BODY / BODYSTRUCTURE returned
  reduced    \* <<>>, or <<the last result of imap_body_parse_from_bodystructure>>

vars == <<kids, hdrs, ctx, pending, mode, passes, out, reduced>>

-----------------------------------------------------------------------------
(***************************************************************************)
(* The MIME tree, as the external message parser builds it.                *)
(***************************************************************************)
\* The walk without the descent into the children (lines 235-238).
PreOrderTop(ps) == ps

RECURSIVE PreOrder(_)
PreOrder(ps) == IF ps = <<>> THEN <<>>
                ELSE <<Head(ps)>> \o PreOrder(kids[Head(ps)]) \o PreOrder(Tail(ps))

\* The parts of the tree: the root and every part some part has as a child.
Nodes == {Root} \cup UNION {ToSet(kids[q]) : q \in Parts}
Parent(p) == IF \E q \in Parts : p \in ToSet(kids[q])
             THEN CHOOSE q \in Parts : p \in ToSet(kids[q]) ELSE Root

\* rfc822_tokens_get_value_quoted(); no tokens give "".
ValueQuoted(ts) == Q(TokText(ts))

\* parse_content_type(): the value is split at the first '/'.
SlashIdx(ts) == IF Slash \in ToSet(ts)
                THEN CHOOSE i \in DOMAIN ts : ts[i] = Slash /\ Slash \notin ToSet(SubSeq(ts, 1, i - 1))
                ELSE Len(ts) + 1
TypeOf(ts) == ValueQuoted(SubSeq(ts, 1, SlashIdx(ts) - 1))
\* The subtype taken as NULL when the value has no '/'.
SubtypeOfNull(ts) == IF SlashIdx(ts) > Len(ts) THEN NULL
                     ELSE ValueQuoted(SubSeq(ts, SlashIdx(ts) + 1, Len(ts)))
SubtypeOf(ts) == ValueQuoted(SubSeq(ts, SlashIdx(ts) + 1, Len(ts)))

\* The part's flags, from its first Content-Type header (RFC 2045 default
\* text/plain): "multipart", "text", "rfc822" or "other".
Kind(p) ==
  LET cts == SelectSeq(hdrs[p], LAMBDA h : h.name = "Content-Type")
      t == Lower(TypeOf(Head(cts).main).v)
      s == Lower(SubtypeOf(Head(cts).main).v)
  IN IF cts = <<>> THEN "text"
     ELSE CASE t = "multipart" -> "multipart"
            [] t = "text" -> "text"
            [] t = "message" /\ s = "rfc822" -> "rfc822"
            [] OTHER -> "other"

ParentRfc822(p) == p # Root /\ Kind(Parent(p)) = "rfc822"

\* A tree the message parser can produce: a message/rfc822 part has exactly
\* one child, a part that is neither it nor a multipart has none.
ShapeOK(p) == CASE Kind(p) = "rfc822" -> Len(kids[p]) = 1
                [] Kind(p) = "multipart" -> TRUE
                [] OTHER -> kids[p] = <<>>

\* The header callbacks of one walk, in document order (part_parse_headers).
Walk == LET order == PreOrder(<<Root>>)
        IN FlattenSeq([i \in DOMAIN order |->
                         [j \in DOMAIN hdrs[order[i]] |-> <<order[i], hdrs[order[i]][j]>>]])

-----------------------------------------------------------------------------
(***************************************************************************)
(* Header parsing: the callbacks of message_content_parse_header().        *)
(***************************************************************************)
JoinSP(seqs) == FoldLeft(LAMBDA acc, s : IF acc = <<>> THEN s ELSE acc \o <<SP>> \o s,
                         <<>>, seqs)

\* parse_save_params_list(): "name" "value" pairs, space separated, in a
\* string that is new for every header; no parameters leave it empty.
ParamsText(h) == JoinSP([i \in DOMAIN h.params |->
                           <<Q(h.params[i][1]), SP, Q(h.params[i][2])>>])

\* parse_content_type(): the type and the subtype, split at the first '/'.
ParseContentType(d, ts) == [d EXCEPT !.content_type = <<TypeOf(ts)>>, !.content_subtype = <<SubtypeOf(ts)>>]

\* parse_content_transfer_encoding(): the quoted value of the header.
ParseContentTransferEncoding(d, ts) == [d EXCEPT !.content_transfer_encoding = <<ValueQuoted(ts)>>]

\* parse_content_disposition(): the quoted value is the disposition.
ParseContentDisposition(d, ts) == [d EXCEPT !.content_disposition = <<ValueQuoted(ts)>>]

LanguageText(ts) == LET tags == LanguageTags(ts)
                    IN JoinSP([i \in DOMAIN tags |-> <<Q(tags[i])>>])

\* imap_envelope_parse_header(): allocates the envelope on the first call
\* and keeps the first Subject and From (an address list).
EnvelopeParse(env, h) ==
  LET e == IF env = NULL THEN [subject |-> NULL, from |-> NULL] ELSE env
  IN CASE h.name = "Subject" /\ e.subject = NULL -> [e EXCEPT !.subject = <<Q(h.raw)>>]
       [] h.name = "From" /\ e.from = NULL -> [e EXCEPT !.from = <<LP, LP, Q(h.raw), RP, RP>>]
       [] OTHER -> e

\* The chain with Content-Language set once, like the other fields.
DispatchLanguageOnce(d, h, parentRfc822) ==
  IF h.name = "Content-Type" /\ d.content_type = NULL THEN
    [ParseContentType(d, h.main) EXCEPT !.content_type_params = ParamsText(h)]
  ELSE IF h.name = "Content-Transfer-Encoding" /\ d.content_transfer_encoding = NULL THEN
    ParseContentTransferEncoding(d, h.main)
  ELSE IF h.name = "Content-ID" /\ d.content_id = NULL THEN
    [d EXCEPT !.content_id = <<Q(h.raw)>>]
  ELSE IF h.name = "Content-Description" /\ d.content_description = NULL THEN
    [d EXCEPT !.content_description = <<Q(h.raw)>>]
  ELSE IF h.name = "Content-Disposition" /\ d.content_disposition_params = NULL THEN
    [ParseContentDisposition(d, h.main) EXCEPT !.content_disposition_params = ParamsText(h)]
  ELSE IF h.name = "Content-Language" /\ d.content_language = NULL THEN
    IF h.main = <<>> THEN d ELSE [d EXCEPT !.content_language = LanguageText(h.main)]
  ELSE IF h.name = "Content-MD5" /\ d.content_md5 = NULL THEN
    [d EXCEPT !.content_md5 = <<Q(h.raw)>>]
  ELSE IF parentRfc822 THEN [d EXCEPT !.envelope = EnvelopeParse(d.envelope, h)]
  ELSE d

\* The if/else-if chain of parse_header() over an allocated part data d.
Dispatch(d, h, parentRfc822) ==
  IF h.name = "Content-Type" /\ d.content_type = NULL THEN
    [ParseContentType(d, h.main) EXCEPT !.content_type_params = ParamsText(h)]
  ELSE IF h.name = "Content-Transfer-Encoding" /\ d.content_transfer_encoding = NULL THEN
    ParseContentTransferEncoding(d, h.main)
  ELSE IF h.name = "Content-ID" /\ d.content_id = NULL THEN
    [d EXCEPT !.content_id = <<Q(h.raw)>>]
  ELSE IF h.name = "Content-Description" /\ d.content_description = NULL THEN
    [d EXCEPT !.content_description = <<Q(h.raw)>>]
  ELSE IF h.name = "Content-Disposition" /\ d.content_disposition_params = NULL THEN
    [ParseContentDisposition(d, h.main) EXCEPT !.content_disposition_params = ParamsText(h)]
  ELSE IF h.name = "Content-Language" THEN
    IF h.main = <<>> THEN d ELSE [d EXCEPT !.content_language = LanguageText(h.main)]
  ELSE IF h.name = "Content-MD5" /\ d.content_md5 = NULL THEN
    [d EXCEPT !.content_md5 = <<Q(h.raw)>>]
  ELSE IF parentRfc822 THEN [d EXCEPT !.envelope = EnvelopeParse(d.envelope, h)]
  ELSE d

-----------------------------------------------------------------------------
(***************************************************************************)
(* Rendering: part_write_bodystructure() and the writers it calls.         *)
(***************************************************************************)
NVL(x, dflt) == IF x = NULL THEN dflt ELSE x
\* "(" text ")" for a field that is set, NIL otherwise.
ListOrNil(x) == IF x = NULL THEN <<NIL>> ELSE <<LP>> \o x \o <<RP>>

EmptyBodyStructure ==
  <<LP, Q("text"), SP, Q("plain"), SP, LP, Q("charset"), SP, Q("us-ascii"), RP,
    SP, NIL, SP, NIL, SP, Q("7bit"), SP, Atom("0"), SP, Atom("0"), RP>>

\* imap_envelope_write_part_data(): the fields in order, NIL when unset.
EnvelopeText(e) == NVL(e.subject, <<NIL>>) \o <<SP>> \o NVL(e.from, <<NIL>>)

\* The trailing BODYSTRUCTURE fields of part_write_body_multipart(): the
\* disposition parameters go inside the disposition list.
MultipartExtension(d) ==
  <<SP>> \o ListOrNil(d.content_type_params) \o <<SP>>
  \o (IF d.content_disposition = NULL THEN <<NIL>>
      ELSE <<LP>> \o d.content_disposition
           \o (IF d.content_disposition_params = NULL THEN <<>>
               ELSE <<SP, LP>> \o d.content_disposition_params \o <<RP>>)
           \o <<RP>>)
  \o <<SP>> \o ListOrNil(d.content_language)

\* The trailing BODYSTRUCTURE fields of part_write_body(): the disposition
\* parameters follow the closed disposition list.
BodyExtension(d) ==
  <<SP>> \o NVL(d.content_md5, <<NIL>>) \o <<SP>>
  \o (IF d.content_disposition = NULL THEN <<NIL>>
      ELSE <<LP>> \o d.content_disposition \o <<RP>>
           \o (IF d.content_disposition_params = NULL THEN <<>>
               ELSE <<SP, LP>> \o d.content_disposition_params \o <<RP>>))
  \o <<SP>> \o ListOrNil(d.content_language)

RECURSIVE WriteBodyStructure(_, _), WriteMultipart(_, _), WriteBody(_, _)

\* The multipart writer with the BODYSTRUCTURE fields before the subtype.
WriteMultipartExtFirst(p, ext) ==
  LET d == ctx[p]
      children == IF kids[p] # <<>> THEN WriteBodyStructure(kids[p], ext)
                  ELSE EmptyBodyStructure
  IN children \o (IF ext THEN MultipartExtension(d) ELSE <<>>)
     \o <<SP>> \o d.content_subtype

\* part_write_bodystructure(): the siblings in order, each non-root part in
\* parentheses.
WriteBodyStructure(ps, ext) ==
  IF ps = <<>> THEN <<>>
  ELSE LET p == Head(ps)
           body == IF Kind(p) = "multipart" THEN WriteMultipart(p, ext)
                   ELSE WriteBody(p, ext)
       IN (IF p = Root THEN body ELSE <<LP>> \o body \o <<RP>>)
          \o WriteBodyStructure(Tail(ps), ext)

\* part_write_body_multipart(); i_assert(data != NULL) is an error of TLC.
WriteMultipart(p, ext) ==
  LET d == ctx[p]
      children == IF kids[p] # <<>> THEN WriteBodyStructure(kids[p], ext)
                  ELSE EmptyBodyStructure
  IN children \o <<SP>> \o d.content_subtype
     \o (IF ext THEN MultipartExtension(d) ELSE <<>>)

\* part_write_body(): a part without content headers uses an empty data.
WriteBody(p, ext) ==
  LET d == NVL(ctx[p], NoData)
      child == Head(kids[p])
      trailer ==
        CASE Kind(p) = "text" -> <<SP, Atom(Lines[p])>>
          [] Kind(p) = "rfc822" ->
               <<SP>> \o (IF ctx[child] # NULL /\ ctx[child].envelope # NULL
                          THEN <<LP>> \o EnvelopeText(ctx[child].envelope) \o <<RP>>
                          ELSE <<NIL>>)
               \o <<SP>> \o WriteBodyStructure(kids[p], ext) \o <<SP, Atom(Lines[p])>>
          [] OTHER -> <<>>
  IN NVL(d.content_type, <<Q("text")>>) \o <<SP>> \o NVL(d.content_subtype, <<Q("plain")>>)
     \o <<SP>> \o ListOrNil(d.content_type_params)
     \o <<SP>> \o NVL(d.content_id, <<NIL>>) \o <<SP>> \o NVL(d.content_description, <<NIL>>)
     \o <<SP>> \o NVL(d.content_transfer_encoding, <<Q("8bit")>>)
     \o <<SP, Atom(Octets[p])>> \o trailer
     \o (IF ext THEN BodyExtension(d) ELSE <<>>)

\* part_get_bodystructure()
Render(ext) == WriteBodyStructure(<<Root>>, ext)

-----------------------------------------------------------------------------
(***************************************************************************)
(* Reduction: imap_body_parse_from_bodystructure().                        *)
(***************************************************************************)
\* An ImapArg; items is the argument list of an IMAP_ARG_LIST.
Arg(k, v, items) == [k |-> k, v |-> v, items |-> items]

\* imap_parser_read_args() with IMAP_PARSE_FLAG_NO_UNESCAPE: the arguments
\* up to the closing ')' of the current list, and the tokens after it.
RECURSIVE ReadArgs(_)
ReadArgs(ts) ==
  IF ts = <<>> \/ Head(ts) = RP THEN [args |-> <<>>, rest |-> ts]
  ELSE IF Head(ts) = SP THEN ReadArgs(Tail(ts))
  ELSE IF Head(ts) = LP THEN
    LET inner == ReadArgs(Tail(ts))
        more == ReadArgs(Tail(inner.rest))
    IN [args |-> <<Arg("list", "", inner.args)>> \o more.args, rest |-> more.rest]
  ELSE LET t == Head(ts)
           more == ReadArgs(Tail(ts))
           a == CASE t = NIL -> Arg("nil", "", <<>>)
                  [] t.k = "q" -> Arg("string", t.v, <<>>)
                  [] t.k = "a" -> Arg("atom", t.v, <<>>)
       IN [args |-> <<a>> \o more.args, rest |-> more.rest]

\* args[i].type == kind; positions past the end are IMAP_ARG_EOL.
IsArg(args, i, kind) == i <= Len(args) /\ args[i].k = kind

RECURSIVE WriteList(_), ArgText(_)
\* imap_write_list(): no type checking, the list is written out.
WriteList(items) == <<LP>> \o JoinSP([i \in DOMAIN items |-> ArgText(items[i])]) \o <<RP>>
ArgText(a) == CASE a.k = "nil" -> <<NIL>>
                [] a.k = "atom" -> <<Atom(a.v)>>
                [] a.k = "string" -> <<Q(a.v)>>
                [] a.k = "list" -> WriteList(a.items)

\* The content type parameter list: pairs of strings, or NIL.
ParamsArg(a) ==
  CASE a.k = "list" ->
         IF Len(a.items) % 2 = 0 /\ \A i \in DOMAIN a.items : a.items[i].k = "string"
         THEN <<SP, LP>> \o JoinSP([i \in 1 .. Len(a.items) \div 2 |->
                                     <<Q(a.items[2 * i - 1].v), SP, Q(a.items[2 * i].v)>>])
              \o <<RP>>
         ELSE NULL
    [] a.k = "nil" -> <<SP, NIL>>
    [] OTHER -> NULL

\* The basic fields with a string written without its quotes.
BasicFieldUnquoted(a) ==
  CASE a.k \in {"nil", "atom"} -> <<SP>> \o ArgText(a)
    [] a.k = "string" -> <<SP, Atom(a.v)>>
    [] OTHER -> NULL

\* "content id" "content description" "transfer encoding" size
BasicField(a) == IF a.k \in {"nil", "atom", "string"} THEN <<SP>> \o ArgText(a) ELSE NULL

RECURSIVE ParseBodyStructureArgs(_)
\* imap_parse_bodystructure_args(): the BODY text of one argument list, or
\* NULL when it does not have the BODYSTRUCTURE shape.
ParseBodyStructureArgs(args) ==
  LET n == IF \E i \in DOMAIN args : args[i].k # "list"
           THEN CHOOSE i \in DOMAIN args : args[i].k # "list" /\ \A j \in 1 .. i - 1 : args[j].k = "list"
           ELSE Len(args) + 1
      lists == [i \in 1 .. n - 1 |-> ParseBodyStructureArgs(args[i].items)]
  IN IF n > 1 THEN
       \* multipart: the child lists, then the subtype; the rest is skipped
       IF NULL \in ToSet(lists) \/ ~IsArg(args, n, "string") THEN NULL
       ELSE FlattenSeq([i \in DOMAIN lists |-> <<LP>> \o lists[i] \o <<RP>>])
            \o <<SP, Q(args[n].v)>>
     ELSE IF ~IsArg(args, 1, "string") \/ ~IsArg(args, 2, "string") THEN NULL
     ELSE
       LET text == Lower(args[1].v) = "text"
           rfc822 == Lower(args[1].v) = "message" /\ Lower(args[2].v) = "rfc822"
           params == IF Len(args) >= 3 THEN ParamsArg(args[3]) ELSE NULL
           basic == [i \in 1 .. 4 |-> IF 3 + i <= Len(args) THEN BasicField(args[3 + i]) ELSE NULL]
           trailer ==
             IF text THEN IF IsArg(args, 8, "atom") THEN <<SP, Atom(args[8].v)>> ELSE NULL
             ELSE IF rfc822 THEN
               IF IsArg(args, 8, "list") /\ IsArg(args, 9, "list") /\ IsArg(args, 10, "atom")
               THEN LET body == ParseBodyStructureArgs(args[9].items)
                    IN IF body = NULL THEN NULL
                       ELSE <<SP>> \o WriteList(args[8].items) \o <<SP>> \o body
                            \o <<SP, Atom(args[10].v)>>
               ELSE NULL
             ELSE <<>>
       IN IF params = NULL \/ NULL \in ToSet(basic) \/ trailer = NULL THEN NULL
          ELSE <<Q(args[1].v), SP, Q(args[2].v)>> \o params \o FlattenSeq(basic) \o trailer

ImapBodyParseFromBodyStructure(text) == ParseBodyStructureArgs(ReadArgs(text).args)

-----------------------------------------------------------------------------
(***************************************************************************)
(* The operations.                                                         *)
(***************************************************************************)
Init ==
  /\ kids \in Trees
  /\ hdrs \in [Parts -> UNION {HeaderBlocks[p] : p \in Parts}]
  /\ \A p \in Parts : IF p \in Nodes THEN ShapeOK(p) /\ hdrs[p] \in HeaderBlocks[p]
                                   ELSE hdrs[p] = <<>>
  /\ ctx = [p \in Parts |-> NULL]
  /\ pending = <<>>
  /\ mode = "idle"
  /\ passes = 0
  /\ out = [e \in BOOLEAN |-> NULL]
  /\ reduced = <<>>

\* imap_part_get_bodystructure() is called for BODY or BODYSTRUCTURE; the
\* parts keep the data of earlier calls (part_parse_headers on *part).
GetBodyStructureStart(ext) ==
  /\ mode = "idle"
  /\ passes < MaxPasses
  /\ pending' = Walk
  /\ mode' = IF ext THEN "BODYSTRUCTURE" ELSE "BODY"
  /\ passes' = passes + 1
  /\ UNCHANGED <<kids, hdrs, ctx, out, reduced>>

\* parse_header() for the next header of the walk.
ParseHeader ==
  /\ pending # <<>>
  /\ LET p == Head(pending)[1]
         h == Head(pending)[2]
     IN \/ /\ ~ParentRfc822(p)
           /\ h.name \notin ContentPrefixed
           /\ UNCHANGED ctx
        \/ /\ ParentRfc822(p) \/ h.name \in ContentPrefixed
           /\ ctx' = [ctx EXCEPT ![p] = Dispatch(NVL(@, NoData), h, ParentRfc822(p))]
  /\ pending' = Tail(pending)
  /\ UNCHANGED <<kids, hdrs, mode, passes, out, reduced>>

\* part_get_bodystructure() once the walk is over.
GetBodyStructureReturn ==
  /\ mode # "idle"
  /\ pending = <<>>
  /\ out' = [out EXCEPT ![mode = "BODYSTRUCTURE"] = Render(mode = "BODYSTRUCTURE")]
  /\ mode' = "idle"
  /\ UNCHANGED <<kids, hdrs, ctx, pending, passes, reduced>>

\* imap_body_parse_from_bodystructure() on the cached BODYSTRUCTURE.
BodyParseFromBodyStructure ==
  /\ mode = "idle"
  /\ out[TRUE] # NULL
  /\ reduced' = <<ImapBodyParseFromBodyStructure(out[TRUE])>>
  /\ UNCHANGED <<kids, hdrs, ctx, pending, mode, passes, out>>

Next ==
  \/ \E ext \in BOOLEAN : GetBodyStructureStart(ext)
  \/ ParseHeader
  \/ GetBodyStructureReturn
  \/ BodyParseFromBodyStructure

Spec == Init /\ [][Next]_vars

-----------------------------------------------------------------------------
(***************************************************************************)
(* Properties.                                                             *)
(***************************************************************************)
Data == [Fields \ {"envelope"} -> Seq(Token) \cup {NULL}]

TypeOK ==
  /\ kids \in [Parts -> Seq(Parts)]
  /\ hdrs \in [Parts -> Seq(Header)]
  /\ \A p \in Parts : ctx[p] = NULL \/ [f \in Fields \ {"envelope"} |-> ctx[p][f]] \in Data
  /\ pending \in Seq(Parts \X Header)
  /\ mode \in {"idle", "BODY", "BODYSTRUCTURE"}
  /\ passes \in 0 .. MaxPasses
  /\ \A e \in BOOLEAN : out[e] = NULL \/ out[e] \in Seq(Token)
  /\ reduced \in Seq(Seq(Token) \cup {NULL}) /\ Len(reduced) <= 1

\* Reference reading of the header rules: of the headers a part keeps
\* (all of them under a message/rfc822 part, else the Content-* ones), the
\* first occurrence of each field wins, and the last non-empty
\* Content-Language does.
Kept(p) == SelectSeq(hdrs[p], LAMBDA h : ParentRfc822(p) \/ h.name \in ContentPrefixed)
FirstOf(p, name) == LET hs == SelectSeq(Kept(p), LAMBDA h : h.name = name)
                    IN IF hs = <<>> THEN NULL ELSE Head(hs)
Quoted(h) == IF h = NULL THEN NULL ELSE <<Q(h.raw)>>
LastLanguage(p) == LET hs == SelectSeq(Kept(p), LAMBDA h : h.name = "Content-Language" /\ h.main # <<>>)
                   IN IF hs = <<>> THEN NULL ELSE LanguageText(hs[Len(hs)].main)
ExpectedData(p) ==
  LET ct == FirstOf(p, "Content-Type")
      cte == FirstOf(p, "Content-Transfer-Encoding")
      dsp == FirstOf(p, "Content-Disposition")
  IN [content_type |-> IF ct = NULL THEN NULL ELSE <<TypeOf(ct.main)>>,
      content_subtype |-> IF ct = NULL THEN NULL ELSE <<SubtypeOf(ct.main)>>,
      content_type_params |-> IF ct = NULL THEN NULL ELSE ParamsText(ct),
      content_transfer_encoding |-> IF cte = NULL THEN NULL ELSE <<ValueQuoted(cte.main)>>,
      content_id |-> Quoted(FirstOf(p, "Content-ID")),
      content_description |-> Quoted(FirstOf(p, "Content-Description")),
      content_disposition |-> IF dsp = NULL THEN NULL ELSE <<ValueQuoted(dsp.main)>>,
      content_disposition_params |-> IF dsp = NULL THEN NULL ELSE ParamsText(dsp),
      content_md5 |-> Quoted(FirstOf(p, "Content-MD5")),
      content_language |-> LastLanguage(p)]

\* After every completed header walk, however many calls have re-walked
\* the same parts, a part has data iff it had a kept header, and its data
\* is the reference reading of its headers (parse_header's set-once guards
\* and the Content-Language overwrite).
MetadataFollowsHeaders ==
  (mode = "idle" /\ passes > 0) =>
    \A p \in Nodes :
      IF Kept(p) = <<>> THEN ctx[p] = NULL
      ELSE ctx[p] # NULL /\ [f \in Fields \ {"envelope"} |-> ctx[p][f]] = ExpectedData(p)

\* BODY derived from a cached BODYSTRUCTURE by
\* imap_body_parse_from_bodystructure() is the text that
\* imap_part_get_bodystructure() renders for BODY of the same message.
BodyFromBodyStructure ==
  (reduced # <<>> /\ out[FALSE] # NULL) => reduced[1] = out[FALSE]

\* imap_body_parse_from_bodystructure() accepts every BODYSTRUCTURE that
\* part_write_bodystructure() writes.
ReducerAcceptsBodyStructure ==
  reduced # <<>> => reduced[1] # NULL

\* RFC 3501 has no empty parenthesised list in BODYSTRUCTURE: parameter,
\* language and address lists are NIL when they have no element.
NoEmptyList ==
  \A e \in BOOLEAN : out[e] # NULL =>
    \A i \in 1 .. Len(out[e]) - 1 : ~(out[e][i] = LP /\ out[e][i + 1] = RP)

\* An argument list is a field-wise prefix of another: each field is equal,
\* or a list that is again a prefix of the other's list.
RECURSIVE FieldPrefix(_, _)
FieldPrefix(a, b) ==
  /\ Len(a) <= Len(b)
  /\ \A i \in 1 .. Len(a) :
       IF a[i].k = "list" THEN b[i].k = "list" /\ FieldPrefix(a[i].items, b[i].items)
       ELSE a[i] = b[i]

\* BODY of a message is, at every part, a field-wise prefix of its
\* BODYSTRUCTURE: extended = TRUE only appends trailing fields (spec 8),
\* in both part_write_body and part_write_body_multipart, down the tree.
BodyPrefixOfBodyStructure ==
  (out[FALSE] # NULL /\ out[TRUE] # NULL) =>
    FieldPrefix(ReadArgs(out[FALSE]).args, ReadArgs(out[TRUE]).args)

\* When the writer runs, i_assert(data != NULL) of
\* part_write_body_multipart holds: the header walk has given every
\* multipart part, at any depth, its data.
WriterAssertionsHold ==
  (mode # "idle" /\ pending = <<>>) =>
    \A p \in Nodes : Kind(p) = "multipart" => ctx[p] # NULL

\* The embedded message of a message/rfc822 part whose headers are all
\* ones the if/else chain of parse_header() claims by name (Content-Type ...
\* Content-MD5) has no envelope after any number of
\* imap_part_get_bodystructure() calls, so the part renders its envelope as
\* NIL (spec 8): none of those headers is handed to
\* imap_envelope_parse_header().
NoEnvelopeWithoutEnvelopeHeaders ==
  (mode = "idle" /\ passes > 0) =>
    \A p \in Nodes :
      (ParentRfc822(p) /\ \A i \in DOMAIN hdrs[p] : hdrs[p][i].name \in ContentHeaders)
        => (ctx[p] = NULL \/ ctx[p].envelope = NULL)

\* A disposition field is NIL or ("name" parameters) (RFC 3501 body-fld-dsp).
DspOK(a) == a.k = "nil" \/ (a.k = "list" /\ Len(a.items) = 2 /\ a.items[1].k = "string"
                           /\ a.items[2].k \in {"nil", "list"})
RECURSIVE ExtendedShapeOK(_)
ExtendedShapeOK(args) ==
  LET n == IF \E i \in DOMAIN args : args[i].k # "list"
           THEN CHOOSE i \in DOMAIN args : args[i].k # "list" /\ \A j \in 1 .. i - 1 : args[j].k = "list"
           ELSE Len(args) + 1
      base == CASE n > 1 -> n
                [] Lower(args[1].v) = "text" -> 8
                [] Lower(args[1].v) = "message" /\ Lower(args[2].v) = "rfc822" -> 10
                [] OTHER -> 7
  IN /\ \A i \in 1 .. n - 1 : ExtendedShapeOK(args[i].items)
     /\ Len(args) \in {base, base + 3}
     /\ Len(args) = base + 3 => DspOK(args[base + 2])
     /\ base = 10 => ExtendedShapeOK(args[9].items)

\* Every body of a BODYSTRUCTURE ends in its basic fields, or in them and
\* the extension fields md5, disposition and language of its type, with the
\* disposition parameters inside the disposition (RFC 3501 body-ext-1part,
\* body-ext-mpart; the empty-multipart placeholder has no extension).
ExtendedFieldsWellFormed ==
  out[TRUE] # NULL => ExtendedShapeOK(ReadArgs(out[TRUE]).args)

=============================================================================
