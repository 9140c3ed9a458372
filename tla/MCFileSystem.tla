---------------------------- MODULE MCFileSystem ----------------------------
(***************************************************************************)
(* An instance of FileSystem: ann has a file in her root and makes folders;  *)
(* bob has a file with a name a link may get, and links ann's; carl may      *)
(* register.                                                                 *)
(***************************************************************************)
EXTENDS FileSystem

CONSTANTS ann, bob, carl, x, y, z, root

MCFirstRows == <<Element("dir", ann, NoId), Element("file", ann, 1),
                 Element("dir", bob, NoId), Element("file", bob, 3)>>
MCFirstNames == <<RootName, <<x, 0>>, RootName, <<x, 1>>>>
MCTyped == [u \in Users |-> CASE u = ann  -> {<<y, 0>>, <<z, 0>>}
                              [] u = bob  -> {<<x, 0>>}
                              [] u = carl -> {}]
MCMakes == [u \in Users |-> CASE u = ann  -> {"dir"}
                              [] u = bob  -> {"file"}
                              [] u = carl -> {}]
MCPars == [u \in Users |-> IF u = bob THEN 1 ELSE 0]
MCMost == [k \in Kinds |-> 1]
=============================================================================
