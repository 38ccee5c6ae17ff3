--------------------------- MODULE MCBodyRfc822 ---------------------------
(***************************************************************************)
(* A message/rfc822 message whose embedded message is a single part or a  *)
(* multipart with one child.                                               *)
(***************************************************************************)
EXTENDS BodyStructure

Hd(name, main, params, raw) == [name |-> name, main |-> main, params |-> params, raw |-> raw]
CT(t, s, ps) == Hd("Content-Type", <<Tk("atom", t), Slash, Tk("atom", s)>>, ps, "")
One(name, w) == Hd(name, <<Tk("atom", w)>>, <<>>, w)

MCParts == {1, 2, 3}
MCTrees == { (1 :> <<2>>) @@ [p \in MCParts |-> <<>>],
             (1 :> <<2>>) @@ (2 :> <<3>>) @@ (3 :> <<>>) }
Outer == { <<CT("message", "rfc822", <<>>)>> }
\* Embedded messages that carry a Subject, hence an envelope.
MCEnvelopeBlocks ==
  1 :> Outer @@ 2 :> { <<One("Subject", "s")>>,
               <<One("Subject", "s"), CT("text", "plain", <<<<"charset", "us-ascii">>>>)>>,
               <<One("From", "f"), CT("multipart", "mixed", <<<<"boundary", "b">>>>)>> }
     @@ 3 :> { <<>>, <<CT("text", "plain", <<>>)>> }
\* Embedded messages without envelope headers.
MCNoEnvelopeBlocks ==
  1 :> Outer @@ [p \in MCParts |-> { <<>>, <<CT("text", "plain", <<<<"charset", "us-ascii">>>>)>> }]
MCOctets == 1 :> "10" @@ 2 :> "20" @@ 3 :> "30"
MCLines == 1 :> "1" @@ 2 :> "2" @@ 3 :> "3"
MCUpperToLower == "TEXT" :> "text"
=============================================================================
