---------------------------- MODULE FindPosition ----------------------------
(***************************************************************************)
(* File::findPosition as the loop its tail recursion is: one step per      *)
(* call, on the copies v1 and v2 of the neighbours' positions that the      *)
(* call chain erases from the front. The machine lets the outcome be proved *)
(* for every pair of neighbours and every CRDT_STEP by an invariant of the  *)
(* steps, where the recursive function of Positions can only be evaluated.  *)
(***************************************************************************)
EXTENDS Positions

CONSTANTS
  Calls   \* the calls considered: triples <<user, left, right>>

ASSUME CallsAssumption ==
  \A c \in Calls : c[1] \in Nat /\ Neighbours(c[2], c[3])

VARIABLES
  user, left, right,   \* the arguments of the first call
  v1, v2, position,    \* the vectors the recursion works on
  outcome              \* "running", "found", "thrown" or "fell_through"

args == <<user, left, right>>
vars == <<user, left, right, v1, v2, position, outcome>>

Init ==
  /\ \E c \in Calls : user = c[1] /\ left = c[2] /\ right = c[3]
  /\ v1 = left /\ v2 = right
  /\ position = << >>
  /\ outcome = "running"

lo == LowHead(v1, user)
hi == HighHead(v2, user)

\* Slip: a gap of two is left to the branches that go deeper.
Found_OffByOne ==
  /\ outcome = "running"
  /\ hi.digit - lo.digit > 2
  /\ position' = Append(position,
                   [digit |-> GenerateDigit(lo.digit, hi.digit), user |-> user])
  /\ outcome' = "found"
  /\ UNCHANGED <<args, v1, v2>>

\* digit2 - digit1 > 1: there is room, the last identifier is the user's own.
Found ==
  /\ outcome = "running"
  /\ hi.digit - lo.digit > 1
  /\ position' = Append(position,
                   [digit |-> GenerateDigit(lo.digit, hi.digit), user |-> user])
  /\ outcome' = "found"
  /\ UNCHANGED <<args, v1, v2>>

\* Slip: v2 is erased, not cleared.
DeeperLeft_KeepsRight ==
  /\ outcome = "running"
  /\ \/ hi.digit - lo.digit = 1
     \/ hi.digit = lo.digit /\ lo.user < hi.user
  /\ position' = Append(position, lo)
  /\ v1' = Erase(v1)
  /\ v2' = Erase(v2)
  /\ UNCHANGED <<args, outcome>>

\* Go one level deeper under the left head: the right neighbour no longer
\* bounds what follows.
DeeperLeft ==
  /\ outcome = "running"
  /\ \/ hi.digit - lo.digit = 1
     \/ hi.digit = lo.digit /\ lo.user < hi.user
  /\ position' = Append(position, lo)
  /\ v1' = Erase(v1)
  /\ v2' = << >>
  /\ UNCHANGED <<args, outcome>>

\* The heads are the same identifier: go one level deeper in both.
DeeperBoth ==
  /\ outcome = "running"
  /\ hi.digit = lo.digit /\ lo.user = hi.user
  /\ position' = Append(position, lo)
  /\ v1' = Erase(v1)
  /\ v2' = Erase(v2)
  /\ UNCHANGED <<args, outcome>>

\* Slip: any two heads with equal digits are refused.
Throw_EqualDigits ==
  /\ outcome = "running"
  /\ hi.digit = lo.digit
  /\ outcome' = "thrown"
  /\ UNCHANGED <<args, v1, v2, position>>

\* throw FileLocalInsertException{"vector _pos is not sorted!"}
Throw ==
  /\ outcome = "running"
  /\ hi.digit = lo.digit /\ lo.user > hi.user
  /\ outcome' = "thrown"
  /\ UNCHANGED <<args, v1, v2, position>>

Next == Found \/ DeeperLeft \/ DeeperBoth \/ Throw

Spec == Init /\ [][Next]_vars
FairSpec == Spec /\ WF_vars(Next)
-----------------------------------------------------------------------------
\* The types of the machine's state; every digit below MaxDigit.
TypeOK ==
  /\ user \in Nat
  /\ left \in Seq(Ident) /\ right \in Seq(Ident)
  /\ v1 \in Seq(Ident) /\ v2 \in Seq(Ident)
  /\ position \in Seq(Ident)
  /\ outcome \in {"running", "found", "thrown"}

\* While the call chain runs, v1 is what position has not yet consumed of the
\* left neighbour, and position repeats what it has.
TracksLeft ==
  /\ \A i \in 1 .. Len(position) : i <= Len(left) => position[i] = left[i]
  /\ IF Len(left) > Len(position)
     THEN /\ Len(v1) = Len(left) - Len(position)
          /\ \A i \in 1 .. Len(v1) : v1[i] = left[Len(position) + i]
     ELSE v1 = << >>

\* position is below r at an identifier both have: whatever is appended to it
\* stays below r.
SettledBelow(r) ==
  \E i \in 1 .. Len(position) :
     i <= Len(r) /\ Agree(position, r, i - 1) /\ IdLess(position[i], r[i])

\* v2 is what position has not yet consumed of the right neighbour; once v2
\* is empty, the right neighbour cannot be reached any more.
TracksRight ==
  IF v2 = << >>
  THEN right = << >> \/ SettledBelow(right)
  ELSE /\ Len(right) = Len(position) + Len(v2)
       /\ Agree(position, right, Len(position))
       /\ \A i \in 1 .. Len(v2) : v2[i] = right[Len(position) + i]

\* The strengthening the proofs use: what findPosition's erasures and clears
\* maintain between two levels, and the order of the heads that makes its
\* if-chain exhaustive (the case digit2 < digit1, for which File.cpp has no
\* branch, never arises).
LevelInv ==
  outcome = "running" => TracksLeft /\ TracksRight /\ hi.digit >= lo.digit

\* A position findPosition returns is one a document may hold, belongs to the
\* inserting user and lies strictly between the two neighbours it was asked
\* for: the new symbol sorts where the user typed it, at every replica.
GeneratedBetween ==
  outcome = "found" =>
    /\ position \in Position
    /\ position[Len(position)].user = user
    /\ Between(left, position, right)

\* "vector _pos is not sorted!" is thrown for sorted neighbours too, but only
\* once the left neighbour is used up and the right one goes on with the
\* digit 0 of a user with a smaller id.
ThrowsOnlyPastLeft ==
  outcome = "thrown" =>
    v1 = << >> /\ v2 # << >> /\ v2[1].digit = 0 /\ v2[1].user < user

\* The machine computes what the recursive function of the source computes.
AgreesWithFunction ==
  LET r == FindPosition[<<user, left, right>>]
  IN  /\ outcome = "found"  => ~r.thrown /\ r.position = position
      /\ outcome = "thrown" => r.thrown

\* The recursion always ends.
Terminates == <>(outcome # "running")
=============================================================================
