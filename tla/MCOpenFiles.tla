----------------------------- MODULE MCOpenFiles -----------------------------
(***************************************************************************)
(* Instances of OpenFiles: two files of ann's that bob has links to, so that a  *)
(* notice of one reaches him in the other, and a file bob may create and ann  *)
(* may then get a link to.                                                    *)
(***************************************************************************)
EXTENDS OpenFiles

CONSTANTS ann, bob, doc, plan, memo

MCOwner == [f \in {doc, plan, memo} |-> IF f = memo THEN bob ELSE ann]
MCFirstRows == [f \in {doc, plan, memo} |-> IF f = memo THEN {} ELSE {ann, bob}]
=============================================================================
