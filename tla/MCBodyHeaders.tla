--------------------------- MODULE MCBodyHeaders ---------------------------
(***************************************************************************)
(* Header classification: a single-part message and a message/rfc822      *)
(* message with its embedded message, every header block of up to two      *)
(* headers over a vocabulary with two values for each set-once field.      *)
(***************************************************************************)
EXTENDS BodyStructure

Hd(name, main, params, raw) == [name |-> name, main |-> main, params |-> params, raw |-> raw]
CT(t, s, ps) == Hd("Content-Type", <<Tk("atom", t), Slash, Tk("atom", s)>>, ps, "")
One(name, w) == Hd(name, <<Tk("atom", w)>>, <<>>, w)

Vocabulary ==
  { CT("text", "plain", <<>>), CT("image", "png", <<<<"name", "a">>>>),
    CT("message", "rfc822", <<>>), Hd("Content-Type", <<Tk("atom", "text")>>, <<>>, ""),
    One("Content-Transfer-Encoding", "base64"), One("Content-Transfer-Encoding", "7bit"),
    One("Content-ID", "a"), One("Content-ID", "b"),
    Hd("Content-Disposition", <<Tk("atom", "inline")>>, <<<<"name", "a">>>>, ""),
    One("Content-Disposition", "attachment"),
    Hd("Content-Language", <<Tk("atom", "en"), Comma, Tk("comment", "c"), Tk("atom", "fr")>>, <<>>, ""),
    Hd("Content-Language", <<Tk("comment", "c")>>, <<>>, ""),
    One("Content-Other", "a"), One("Content-", "a"), One("Subject", "a"),
    One("From", "a") }

MCParts == {1, 2}
MCTrees == { [p \in MCParts |-> <<>>], (1 :> <<2>>) @@ (2 :> <<>>) }
MCHeaderBlocks == [p \in MCParts |-> BoundedSeq(Vocabulary, 2)]
MCOctets == [p \in MCParts |-> "10"]
MCLines == [p \in MCParts |-> "1"]
MCUpperToLower == "TEXT" :> "text"
=============================================================================
