--------------------------- MODULE MCFindPosition ---------------------------
(***************************************************************************)
(* Every call of findPosition with neighbours of at most MaxLen            *)
(* identifiers, made by each of the users.                                  *)
(***************************************************************************)
EXTENDS FindPosition, FiniteSets

CONSTANTS MaxLen, MCUsers

SmallIdent == [digit : Digit, user : MCUsers]
SmallPosition ==
  UNION { { p \in [1 .. n -> SmallIdent] : p[n].digit > 0 } : n \in 1 .. MaxLen }

MCCalls ==
  { c \in MCUsers \X (SmallPosition \cup {<< >>}) \X (SmallPosition \cup {<< >>}) :
      c[2] # << >> /\ c[3] # << >> => PosLess(c[2], c[3]) }
=============================================================================
