------------------------------ MODULE MCFraming ------------------------------
(***************************************************************************)
(* Framing with headers of two binary digits. The messages have every size   *)
(* such a header can state, and bytes that would pass for another header.    *)
(***************************************************************************)
EXTENDS Framing

MCMessages == {<<0>>, <<1>>, <<1, 0>>, <<0, 1, 1>>}
=============================================================================
