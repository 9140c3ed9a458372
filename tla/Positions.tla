------------------------------ MODULE Positions ------------------------------
(***************************************************************************)
(* The positions that order the symbols of a shared document: a position   *)
(* is a non-empty sequence of identifiers, an identifier a digit and the    *)
(* id of the user that generated it (File.cpp, Identifier.cpp, Symbol.cpp). *)
(***************************************************************************)
EXTENDS Integers, Sequences

CONSTANTS
  MaxDigit,   \* std::numeric_limits<int>::max()
  Step        \* CRDT_STEP

ASSUME DigitAssumption == MaxDigit \in Nat /\ MaxDigit > 1
ASSUME StepAssumption  == Step \in Nat /\ Step > 0

\* A generated digit lies strictly below the one that stands for "no symbol
\* on the right", so no stored identifier has the digit MaxDigit.
Digit == 0 .. (MaxDigit - 1)
Ident == [digit : Digit, user : Nat]

\* Identifier::operator<
IdLess(a, b) == a.digit < b.digit \/ (a.digit = b.digit /\ a.user < b.user)

\* p and q have the same first n identifiers.
Agree(p, q, n) == \A i \in 1 .. n : p[i] = q[i]

\* std::vector<Identifier>::operator<, the order Symbol::operator< uses:
\* the first difference decides, a proper prefix comes first.
PosLess(p, q) ==
  \/ \E i \in 1 .. Len(p) :
        i <= Len(q) /\ Agree(p, q, i - 1) /\ IdLess(p[i], q[i])
  \/ Len(p) < Len(q) /\ Agree(p, q, Len(p))

\* A position a document can hold: its last digit was generated, hence not 0.
Position == { p \in Seq(Ident) : p # << >> /\ p[Len(p)].digit > 0 }

\* The arguments localInsert passes for the neighbours of the new symbol:
\* << >> stands for "none on this side".
Neighbours(l, r) ==
  /\ l = << >> \/ l \in Position
  /\ r = << >> \/ r \in Position
  /\ l # << >> /\ r # << >> => PosLess(l, r)

\* p lies strictly between the neighbours l and r.
Between(l, p, r) == PosLess(l, p) /\ (r = << >> \/ PosLess(p, r))

\* Slip of generateDigit: halving that rounds to the lower digit.
GenerateDigit_RoundsDown(d1, d2) ==
  IF d2 - d1 > Step THEN d1 + Step ELSE (d1 + d2 - 1) \div 2

GenerateDigit(d1, d2) ==
  IF d2 - d1 > Step THEN d1 + Step ELSE (d1 + d2) \div 2

\* The head of a neighbour, or the bound that stands for a missing one.
LowHead(v1, u)  == IF v1 # << >> THEN v1[1] ELSE [digit |-> 0, user |-> u]
HighHead(v2, u) == IF v2 # << >> THEN v2[1] ELSE [digit |-> MaxDigit, user |-> u]

\* if(!v.empty()) v.erase(v.begin())
Erase(v) == IF v # << >> THEN Tail(v) ELSE << >>

(***************************************************************************)
(* findPosition as the recursive function the source writes, of the user    *)
(* and the two vectors. The result tells whether it threw "vector _pos is   *)
(* not sorted!" and which position it built; when the two heads are in the  *)
(* wrong order the code falls off its if-chain and returns what it has.     *)
(***************************************************************************)
CallArgs == Nat \X Seq(Ident) \X Seq(Ident)

FindPosition[c \in CallArgs] ==
  LET u == c[1]
      v1 == c[2]
      v2 == c[3]
      lo == LowHead(v1, u)
      hi == HighHead(v2, u)
      gap == hi.digit - lo.digit
      deeper(w) == LET r == FindPosition[<<u, Erase(v1), w>>]
                   IN  [r EXCEPT !.position = <<lo>> \o @]
  IN  CASE gap > 1 ->
             [thrown |-> FALSE,
              position |-> <<[digit |-> GenerateDigit(lo.digit, hi.digit), user |-> u]>>]
        [] gap = 1 \/ (gap = 0 /\ lo.user < hi.user) -> deeper(<< >>)
        [] gap = 0 /\ lo.user = hi.user -> deeper(Erase(v2))
        [] gap = 0 /\ lo.user > hi.user -> [thrown |-> TRUE, position |-> << >>]
        [] gap < 0 -> [thrown |-> FALSE, position |-> << >>]
=============================================================================
