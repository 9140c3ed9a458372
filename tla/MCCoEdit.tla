------------------------------ MODULE MCCoEdit ------------------------------
(***************************************************************************)
(* Instances of CoEdit. The documents they start from are typed by user 1   *)
(* with localInsert, in the order of the characters' counters.              *)
(***************************************************************************)
EXTENDS CoEdit

\* User 1 typed three characters, each in front of the last, and deleted the
\* first two: what is left begins with the digit 0.
FrontSymbol ==
  LET a == LocalInsert(<< >>, 1, <<1, 0>>).doc
      b == LocalInsert(a, 1, <<1, 1>>).doc
      c == LocalInsert(b, 1, <<1, 2>>).doc
  IN  LocalDelete(LocalDelete(c, 3), 2)

\* The first character user 1 ever typed in the document ends it.
ThreeSymbols ==
  LET a == LocalInsert(<< >>, 1, <<1, 0>>).doc
      b == LocalInsert(a, 1, <<1, 1>>).doc
  IN  LocalInsert(b, 1, <<1, 2>>).doc
=============================================================================
