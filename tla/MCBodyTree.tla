---------------------------- MODULE MCBodyTree ----------------------------
(***************************************************************************)
(* Rendering and reduction over MIME trees of up to three parts: a single  *)
(* part, an empty multipart, a multipart with one or two children and a    *)
(* multipart nested in a multipart; each part takes one of a set of header *)
(* blocks.  message/rfc822 trees are the subject of MCBodyRfc822.          *)
(***************************************************************************)
EXTENDS BodyStructure

Hd(name, main, params, raw) == [name |-> name, main |-> main, params |-> params, raw |-> raw]
CT(t, s, ps) == Hd("Content-Type", <<Tk("atom", t), Slash, Tk("atom", s)>>, ps, "")
One(name, w) == Hd(name, <<Tk("atom", w)>>, <<>>, w)

MCParts == {1, 2, 3}
MCTrees ==
  { [p \in MCParts |-> <<>>],
    (1 :> <<2, 3>>) @@ [p \in MCParts |-> <<>>],
    (1 :> <<2>>) @@ (2 :> <<3>>) @@ (3 :> <<>>),
    (1 :> <<2>>) @@ [p \in MCParts |-> <<>>] }
Blocks ==
  { <<>>,
    <<One("Received", "r"), CT("multipart", "mixed", <<>>)>>,
    <<CT("multipart", "alternative", <<<<"boundary", "b">>>>),
      Hd("Content-Language", <<Tk("atom", "en")>>, <<>>, "")>>,
    <<CT("TEXT", "plain", <<<<"charset", "us-ascii">>>>)>>,
    <<Hd("Content-Type", <<Tk("atom", "text")>>, <<>>, "")>>,
    <<CT("image", "png", <<<<"name", "a">>, <<"x", "y">>>>), One("Content-Transfer-Encoding", "base64")>>,
    <<Hd("Content-Disposition", <<Tk("atom", "inline")>>, <<<<"name", "a">>>>, ""), One("Content-ID", "a")>>,
    <<One("Content-Description", "d"), One("Content-MD5", "m")>> }
MCHeaderBlocks == [p \in MCParts |-> Blocks]
MCOctets == 1 :> "10" @@ 2 :> "20" @@ 3 :> "30"
MCLines == 1 :> "1" @@ 2 :> "2" @@ 3 :> "3"
MCUpperToLower == "TEXT" :> "text"
=============================================================================
