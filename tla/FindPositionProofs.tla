------------------------- MODULE FindPositionProofs -------------------------
(***************************************************************************)
(* For every pair of neighbours, every user and every value of MaxDigit and *)
(* Step: what findPosition returns lies strictly between the neighbours,    *)
(* and it throws only in the one situation ThrowsOnlyPastLeft describes.    *)
(* The invariant LevelInv carries the argument from level to level. The     *)
(* machine computes the recursive function of Positions.                    *)
(***************************************************************************)
EXTENDS FindPosition, DocumentProofs

\* What the assumptions on a call say of its arguments, on every state.
ArgsInv == user \in Nat /\ Neighbours(left, right)

IInv == TypeOK /\ ArgsInv /\ LevelInv /\ GeneratedBetween /\ ThrowsOnlyPastLeft

\* The two heads a level compares are identifiers, the high one possibly with
\* the digit that stands for "none".
LEMMA Heads ==
  ASSUME TypeOK
  PROVE  /\ lo \in Ident
         /\ hi.digit \in 0 .. MaxDigit /\ hi.user \in Nat
         /\ lo.digit \in 0 .. (MaxDigit - 1) /\ lo.user \in Nat
         /\ v1 # << >> => lo = v1[1]
         /\ v1 = << >> => lo.digit = 0 /\ lo.user = user
         /\ v2 # << >> => hi = v2[1] /\ hi \in Ident
         /\ v2 = << >> => hi.digit = MaxDigit /\ hi.user = user
<1>1. v1 # << >> => v1[1] \in Ident
  BY DEF TypeOK
<1>2. v2 # << >> => v2[1] \in Ident
  BY DEF TypeOK
<1>3. [digit |-> 0, user |-> user] \in Ident
  BY DigitAssumption DEF TypeOK, Ident, Digit
<1>4. lo \in Ident
  BY <1>1, <1>3 DEF lo, LowHead
<1>5. lo.digit \in 0 .. (MaxDigit - 1) /\ lo.user \in Nat
  BY <1>4 DEF Ident, Digit
<1>6. CASE v2 # << >>
  <2>1. hi = v2[1] /\ hi \in Ident
    BY <1>2, <1>6 DEF hi, HighHead
  <2>2. hi.digit \in 0 .. (MaxDigit - 1) /\ hi.user \in Nat
    BY <2>1 DEF Ident, Digit
  <2>3. QED
    BY <1>4, <1>5, <1>6, <2>1, <2>2, DigitAssumption DEF lo, LowHead
<1>7. CASE v2 = << >>
  <2>1. hi.digit = MaxDigit /\ hi.user = user
    BY <1>7 DEF hi, HighHead
  <2>2. QED
    BY <1>4, <1>5, <1>7, <2>1, DigitAssumption DEF lo, LowHead, TypeOK
<1>8. QED
  BY <1>6, <1>7

\* The order of the heads follows from what v1 and v2 stand for.
LEMMA HeadsOrdered ==
  ASSUME TypeOK, ArgsInv, TracksLeft, TracksRight
  PROVE  /\ hi.digit >= lo.digit
         /\ v1 # << >> /\ v2 # << >> => lo = hi \/ IdLess(lo, hi)
<1>1. CASE v1 = << >> \/ v2 = << >>
  BY <1>1, Heads, DigitAssumption
<1>2. CASE v1 # << >> /\ v2 # << >>
  <2>. DEFINE k == Len(position)
  <2>1. k \in Nat /\ left \in Seq(Ident) /\ right \in Seq(Ident)
    BY DEF TypeOK
  <2>2. Len(v1) > 0 /\ Len(v2) > 0 /\ Len(v1) \in Nat /\ Len(v2) \in Nat
    BY <1>2 DEF TypeOK
  <2>3. k < Len(left) /\ v1[1] = left[k + 1]
    BY <1>2, <2>1, <2>2 DEF TracksLeft
  <2>4. k < Len(right) /\ v2[1] = right[k + 1]
    BY <1>2, <2>1, <2>2 DEF TracksRight
  <2>5. Agree(left, right, k)
    BY <1>2, <2>1, <2>3, <2>4 DEF TracksLeft, TracksRight, Agree
  <2>6. PosLess(left, right)
    BY <2>1, <2>3, <2>4 DEF ArgsInv, Neighbours
  <2>7. left[k + 1] = right[k + 1] \/ IdLess(left[k + 1], right[k + 1])
    BY <2>1, <2>3, <2>4, <2>5, <2>6, NextHeads
  <2>8. lo = hi \/ IdLess(lo, hi)
    BY <1>2, <2>3, <2>4, <2>7, Heads
  <2>9. QED
    BY <1>2, <2>8, Heads DEF IdLess
<1>3. QED
  BY <1>1, <1>2

\* The same of the next state.
LEMMA HeadsOrderedNext ==
  (TypeOK /\ ArgsInv /\ TracksLeft /\ TracksRight)' => (hi.digit >= lo.digit)'
<1>1. TypeOK /\ ArgsInv /\ TracksLeft /\ TracksRight => hi.digit >= lo.digit
  BY HeadsOrdered
<1>2. QED
  BY <1>1, PTL

\* Going one level deeper consumes the head of v1.
LEMMA DeeperTracksLeft ==
  ASSUME TypeOK, TracksLeft, position' = Append(position, lo), v1' = Erase(v1),
         UNCHANGED args
  PROVE  TracksLeft'
<1>. DEFINE k == Len(position)
<1>1. /\ k \in Nat /\ Len(left) \in Nat
      /\ Len(position') = k + 1
      /\ position'[k + 1] = lo
      /\ \A i \in 1 .. k : position'[i] = position[i]
      /\ left' = left
  BY DEF TypeOK, args
<1>2. CASE Len(left) > k
  <2>1. v1 # << >> /\ Len(v1) = Len(left) - k /\ lo = v1[1] /\ v1[1] = left[k + 1]
    BY <1>1, <1>2, Heads DEF TracksLeft, TypeOK
  <2>2. v1' = Tail(v1)
    BY <2>1 DEF Erase
  <2>3. /\ Len(v1') = Len(left) - (k + 1)
        /\ \A i \in 1 .. Len(v1') : v1'[i] = v1[i + 1]
    BY <2>1, <2>2, <1>1 DEF TypeOK
  <2>4. \A i \in 1 .. Len(v1') : v1'[i] = left[k + 1 + i]
    BY <1>1, <1>2, <2>1, <2>3 DEF TracksLeft
  <2>5. Len(left) = k + 1 => v1' = << >>
    BY <2>3, <2>1, <2>2 DEF TypeOK
  <2>6. \A i \in 1 .. (k + 1) : i <= Len(left) => position'[i] = left[i]
    BY <1>1, <2>1 DEF TracksLeft
  <2>7. QED
    BY <1>1, <1>2, <2>3, <2>4, <2>5, <2>6 DEF TracksLeft
<1>3. CASE ~ (Len(left) > k)
  <2>1. v1 = << >> /\ v1' = << >>
    BY <1>3 DEF TracksLeft, Erase
  <2>2. \A i \in 1 .. (k + 1) : i <= Len(left) => position'[i] = left[i]
    BY <1>1, <1>3 DEF TracksLeft
  <2>3. QED
    BY <1>1, <1>3, <2>1, <2>2 DEF TracksLeft
<1>4. QED
  BY <1>2, <1>3

\* What is settled below a neighbour stays so when an identifier is appended.
LEMMA SettledAppend ==
  ASSUME TypeOK, NEW d, position' = Append(position, d), UNCHANGED args,
         SettledBelow(right)
  PROVE  SettledBelow(right)'
<1>1. PICK i \in 1 .. Len(position) :
        i <= Len(right) /\ Agree(position, right, i - 1) /\ IdLess(position[i], right[i])
  BY DEF SettledBelow
<1>2. /\ Len(position') = Len(position) + 1 /\ right' = right
      /\ \A j \in 1 .. Len(position) : position'[j] = position[j]
  BY DEF TypeOK, args
<1>3. i \in 1 .. Len(position') /\ Agree(position', right, i - 1)
  BY <1>1, <1>2 DEF Agree, TypeOK
<1>4. QED
  BY <1>1, <1>2, <1>3 DEF SettledBelow

\* An identifier below the right head settles position below the right
\* neighbour.
LEMMA SettledHere ==
  ASSUME TypeOK, TracksRight, v2 # << >>, NEW d, position' = Append(position, d),
         UNCHANGED args, IdLess(d, v2[1])
  PROVE  SettledBelow(right)'
<1>. DEFINE k == Len(position)
<1>1. /\ k \in Nat /\ Len(position') = k + 1 /\ right' = right
      /\ position'[k + 1] = d
      /\ \A j \in 1 .. k : position'[j] = position[j]
  BY DEF TypeOK, args
<1>2. Len(v2) \in Nat /\ Len(v2) > 0
  BY DEF TypeOK
<1>3. k + 1 <= Len(right) /\ Agree(position, right, k) /\ v2[1] = right[k + 1]
  BY <1>1, <1>2 DEF TracksRight
<1>4. Agree(position', right, k)
  BY <1>1, <1>3 DEF Agree
<1>5. k + 1 \in 1 .. Len(position')
  BY <1>1
<1>6. QED
  BY <1>1, <1>3, <1>4, <1>5 DEF SettledBelow

\* The same of the next state: what is settled below is below.
LEMMA SettledBelowNext ==
  ASSUME SettledBelow(right)'
  PROVE  PosLess(position', right')
  BY DEF SettledBelow, PosLess
-----------------------------------------------------------------------------
\* findPosition starts with heads that are its neighbours'.
LEMMA InitInv == Init => IInv
<1>. SUFFICES ASSUME Init PROVE IInv
  OBVIOUS
<1>1. PICK c \in Calls : user = c[1] /\ left = c[2] /\ right = c[3]
  BY DEF Init
<1>2. ArgsInv
  BY <1>1, CallsAssumption DEF ArgsInv
<1>3. left \in Seq(Ident) /\ right \in Seq(Ident)
  <2>1. \A p \in Position : p \in Seq(Ident)
    BY DEF Position
  <2>2. << >> \in Seq(Ident)
    OBVIOUS
  <2>3. QED
    BY <1>2, <2>1, <2>2 DEF ArgsInv, Neighbours
<1>4. position = << >> /\ Len(position) = 0 /\ v1 = left /\ v2 = right
      /\ outcome = "running"
  BY DEF Init
<1>5. TypeOK
  BY <1>2, <1>3, <1>4 DEF TypeOK, ArgsInv
<1>6. TracksLeft
  BY <1>3, <1>4 DEF TracksLeft
<1>7. TracksRight
  BY <1>3, <1>4 DEF TracksRight, Agree
<1>8. LevelInv
  BY <1>2, <1>5, <1>6, <1>7, HeadsOrdered DEF LevelInv
<1>9. QED
  BY <1>2, <1>4, <1>5, <1>8 DEF IInv, GeneratedBetween, ThrowsOnlyPastLeft

\* The branch that returns puts position strictly between the neighbours.
LEMMA FoundInv == IInv /\ Found => IInv'
<1>. SUFFICES ASSUME IInv, Found PROVE IInv'
  OBVIOUS
<1>. DEFINE d == [digit |-> GenerateDigit(lo.digit, hi.digit), user |-> user]
            k == Len(position)
<1>1. /\ TypeOK /\ ArgsInv /\ TracksLeft /\ TracksRight
      /\ hi.digit - lo.digit > 1
      /\ position' = Append(position, d) /\ outcome' = "found"
      /\ UNCHANGED <<args, v1, v2>>
  BY DEF IInv, Found, LevelInv
<1>2. /\ d.digit \in Nat /\ d.user = user
      /\ lo.digit < d.digit /\ d.digit < hi.digit
      /\ lo.digit \in Nat /\ hi.digit \in Nat /\ hi.digit <= MaxDigit
  BY <1>1, Heads, GenerateDigitBetween, DigitAssumption
<1>3. d \in Ident
  BY <1>1, <1>2, DigitAssumption DEF Ident, Digit, TypeOK
<1>4. /\ k \in Nat /\ position' \in Seq(Ident) /\ Len(position') = k + 1
      /\ position'[k + 1] = d
      /\ \A i \in 1 .. k : position'[i] = position[i]
      /\ left' = left /\ right' = right /\ user' = user
      /\ left \in Seq(Ident) /\ right \in Seq(Ident)
  BY <1>1, <1>3 DEF TypeOK, args
<1>5. TypeOK'
  BY <1>1, <1>4 DEF TypeOK, args
<1>6. position' \in Position
  BY <1>2, <1>4 DEF Position
<1>7. PosLess(left, position')
  <2>1. CASE Len(left) > k
    <3>1. lo = left[k + 1]
      BY <1>1, <1>4, <2>1, Heads DEF TracksLeft, TypeOK
    <3>2. IdLess(left[k + 1], position'[k + 1])
      BY <1>2, <1>4, <3>1 DEF IdLess
    <3>3. Agree(left, position', k)
      <4>1. \A i \in 1 .. k : position[i] = left[i]
        BY <1>1, <1>4, <2>1 DEF TracksLeft
      <4>2. QED
        BY <1>4, <4>1 DEF Agree
    <3>4. k + 1 \in 1 .. Len(left) /\ k + 1 <= Len(position') /\ (k + 1) - 1 = k
      BY <1>4, <2>1
    <3>5. QED
      BY <3>2, <3>3, <3>4 DEF PosLess
  <2>2. CASE ~ (Len(left) > k)
    <3>1. Agree(left, position', Len(left)) /\ Len(left) < Len(position')
      BY <1>1, <1>4, <2>2 DEF TracksLeft, Agree
    <3>2. QED
      BY <3>1 DEF PosLess
  <2>3. QED
    BY <2>1, <2>2
<1>8. right' = << >> \/ PosLess(position', right)
  <2>1. CASE v2 = << >>
    BY <1>1, <1>4, <1>5, <2>1, SettledAppend, SettledBelowNext DEF TracksRight
  <2>2. CASE v2 # << >>
    <3>1. IdLess(d, v2[1])
      BY <1>1, <1>2, <2>2, Heads DEF IdLess
    <3>2. QED
      BY <1>1, <1>4, <2>2, <3>1, SettledHere, SettledBelowNext
  <2>3. QED
    BY <2>1, <2>2
<1>9. QED
  BY <1>1, <1>2, <1>4, <1>5, <1>6, <1>7, <1>8
     DEF IInv, ArgsInv, LevelInv, GeneratedBetween, Between, ThrowsOnlyPastLeft

\* The branch that keeps the left digit settles position below the right
\* neighbour, whatever follows.
LEMMA DeeperLeftInv == IInv /\ DeeperLeft => IInv'
<1>. SUFFICES ASSUME IInv, DeeperLeft PROVE IInv'
  OBVIOUS
<1>1. /\ TypeOK /\ ArgsInv /\ TracksLeft /\ TracksRight
      /\ outcome = "running" /\ outcome' = outcome
      /\ position' = Append(position, lo) /\ v1' = Erase(v1) /\ v2' = << >>
      /\ UNCHANGED args
      /\ \/ hi.digit - lo.digit = 1
         \/ hi.digit = lo.digit /\ lo.user < hi.user
  BY DEF IInv, DeeperLeft, LevelInv
<1>2. TypeOK'
  BY <1>1, Heads DEF TypeOK, args, Erase
<1>3. ArgsInv'
  BY <1>1 DEF IInv, ArgsInv, args
<1>4. TracksLeft'
  BY <1>1, DeeperTracksLeft
<1>5. TracksRight'
  <2>1. CASE v2 # << >>
    <3>1. IdLess(lo, v2[1])
      BY <1>1, <2>1, Heads DEF IdLess
    <3>2. QED
      BY <1>1, <2>1, <3>1, SettledHere DEF TracksRight
  <2>2. CASE v2 = << >>
    <3>1. CASE right = << >>
      BY <1>1, <3>1 DEF TracksRight, args
    <3>2. CASE right # << >>
      BY <1>1, <2>2, <3>2, SettledAppend DEF TracksRight
    <3>3. QED
      BY <3>1, <3>2
  <2>3. QED
    BY <2>1, <2>2
<1>6. hi'.digit >= lo'.digit
  BY <1>2, <1>3, <1>4, <1>5, HeadsOrderedNext
<1>7. QED
  BY <1>1, <1>2, <1>3, <1>4, <1>5, <1>6
     DEF IInv, LevelInv, GeneratedBetween, ThrowsOnlyPastLeft

\* The branch of two equal heads keeps what is left of the neighbours in order.
LEMMA DeeperBothInv == IInv /\ DeeperBoth => IInv'
<1>. SUFFICES ASSUME IInv, DeeperBoth PROVE IInv'
  OBVIOUS
<1>. DEFINE k == Len(position)
<1>1. /\ TypeOK /\ ArgsInv /\ TracksLeft /\ TracksRight
      /\ outcome = "running" /\ outcome' = outcome
      /\ position' = Append(position, lo)
      /\ v1' = Erase(v1) /\ v2' = Erase(v2)
      /\ UNCHANGED args
      /\ hi.digit = lo.digit /\ lo.user = hi.user
  BY DEF IInv, DeeperBoth, LevelInv
<1>2. v2 # << >> /\ lo = v2[1]
  BY <1>1, Heads, DigitAssumption DEF Ident
<1>3. /\ k \in Nat /\ Len(v2) \in Nat /\ Len(v2) > 0
      /\ left \in Seq(Ident) /\ right \in Seq(Ident)
      /\ Len(right) = k + Len(v2) /\ Agree(position, right, k)
      /\ v2[1] = right[k + 1]
  BY <1>1, <1>2 DEF TypeOK, TracksRight
<1>. v2 \in Seq(Ident) /\ v2 # << >>
  BY <1>1, <1>2 DEF TypeOK
<1>4. Len(v2) > 1
  <2>. SUFFICES ASSUME ~ (Len(v2) > 1) PROVE FALSE
    OBVIOUS
  <2>. Len(v2) = 1
    <3>1. \A n \in Nat : n > 0 /\ ~ (n > 1) => n = 1
      OBVIOUS
    <3>2. QED
      BY <1>3, <3>1
  <2>1. right \in Position /\ Len(right) = k + 1 /\ right[k + 1] = lo
    BY <1>1, <1>2, <1>3 DEF ArgsInv, Neighbours
  <2>2. lo.digit > 0
    BY <2>1 DEF Position
  <2>3. v1 # << >> /\ lo = v1[1]
    BY <1>1, <2>2, Heads
  <2>4. Len(left) > k
    BY <2>3 DEF TracksLeft, IInv, LevelInv, DeeperBoth
  <2>5. lo = left[k + 1]
    BY <1>1, <1>3, <2>3, <2>4 DEF TracksLeft, TypeOK
  <2>6. \A i \in 1 .. k : position[i] = left[i]
    BY <1>1, <1>3, <2>4 DEF TracksLeft
  <2>7. Agree(left, right, Len(right))
    BY <1>3, <2>1, <2>5, <2>6 DEF Agree
  <2>8. PosLess(left, right)
    BY <1>1, <1>3, <2>1, <2>4 DEF ArgsInv, Neighbours
  <2>9. QED
    BY <1>3, <2>1, <2>4, <2>7, <2>8, NotBelowPrefix
<1>5. /\ v2' # << >> /\ Len(v2') = Len(v2) - 1
      /\ \A i \in 1 .. Len(v2') : v2'[i] = v2[i + 1]
  <2>1. v2' = Tail(v2)
    BY <1>1, <1>2 DEF Erase
  <2>2. QED
    BY <1>4, <2>1, TailOfLong
<1>6. TypeOK'
  BY <1>1, Heads DEF TypeOK, args, Erase
<1>7. ArgsInv'
  BY <1>1 DEF ArgsInv, args
<1>8. TracksLeft'
  BY <1>1, DeeperTracksLeft
<1>9. TracksRight'
  <2>1. /\ Len(position') = k + 1 /\ position'[k + 1] = lo /\ right' = right
        /\ \A i \in 1 .. k : position'[i] = position[i]
    BY <1>1 DEF TypeOK, args
  <2>2. Agree(position', right, k + 1)
    BY <1>2, <1>3, <2>1 DEF Agree
  <2>3. \A i \in 1 .. Len(v2') : v2'[i] = right[k + 1 + i]
    <3>1. \A i \in 1 .. Len(v2) : v2[i] = right[k + i]
      BY <1>1, <1>2 DEF TracksRight
    <3>2. QED
      BY <1>3, <1>5, <3>1
  <2>4. Len(right') = Len(position') + Len(v2')
    <3>1. \A m, n \in Nat : m + n = (m + 1) + (n - 1)
      OBVIOUS
    <3>2. k + Len(v2) = (k + 1) + (Len(v2) - 1)
      BY <1>3, <3>1
    <3>3. QED
      BY <1>3, <1>5, <2>1, <3>2
  <2>5. QED
    BY <1>5, <2>1, <2>2, <2>3, <2>4 DEF TracksRight
<1>10. hi'.digit >= lo'.digit
  BY <1>6, <1>7, <1>8, <1>9, HeadsOrderedNext
<1>11. QED
  BY <1>1, <1>6, <1>7, <1>8, <1>9, <1>10
     DEF IInv, LevelInv, GeneratedBetween, ThrowsOnlyPastLeft

\* The throw is reached with the left neighbour used up.
LEMMA ThrowInv == IInv /\ Throw => IInv'
<1>. SUFFICES ASSUME IInv, Throw PROVE IInv'
  OBVIOUS
<1>1. /\ TypeOK /\ ArgsInv /\ TracksLeft /\ TracksRight
      /\ outcome' = "thrown" /\ UNCHANGED <<args, v1, v2, position>>
      /\ hi.digit = lo.digit /\ lo.user > hi.user
  BY DEF IInv, Throw, LevelInv
<1>2. v2 # << >>
  BY <1>1, Heads, DigitAssumption
<1>3. v1 = << >>
  <2>. SUFFICES ASSUME v1 # << >> PROVE FALSE
    OBVIOUS
  <2>1. lo = hi \/ IdLess(lo, hi)
    BY <1>1, <1>2, HeadsOrdered
  <2>2. QED
    BY <1>1, <2>1, Heads DEF IdLess
<1>4. v2[1].digit = 0 /\ v2[1].user < user
  BY <1>1, <1>2, <1>3, Heads
<1>5. TypeOK' /\ ArgsInv'
  BY <1>1 DEF TypeOK, ArgsInv, args
<1>6. QED
  BY <1>1, <1>2, <1>3, <1>4, <1>5
     DEF IInv, LevelInv, GeneratedBetween, ThrowsOnlyPastLeft, args

\* IInv is inductive.
LEMMA StepInv == IInv /\ [Next]_vars => IInv'
<1>. SUFFICES ASSUME IInv, [Next]_vars PROVE IInv'
  OBVIOUS
<1>1. CASE Found
  BY <1>1, FoundInv
<1>2. CASE DeeperLeft
  BY <1>2, DeeperLeftInv
<1>3. CASE DeeperBoth
  BY <1>3, DeeperBothInv
<1>4. CASE Throw
  BY <1>4, ThrowInv
<1>5. CASE UNCHANGED vars
  BY <1>5 DEF vars, args, IInv, TypeOK, ArgsInv, LevelInv, TracksLeft, TracksRight,
     SettledBelow, Agree, lo, hi, GeneratedBetween, Between, PosLess, ThrowsOnlyPastLeft
<1>6. QED
  BY <1>1, <1>2, <1>3, <1>4, <1>5 DEF Next
-----------------------------------------------------------------------------
\* The invariant of the levels: v1 and v2 are always what is left of the
\* neighbours, and the heads never compare in the order for which
\* File::findPosition has no branch (File.cpp:527-562).
THEOREM LevelsConsistent == Spec => []LevelInv
<1>1. IInv => LevelInv
  BY DEF IInv
<1>2. QED
  BY <1>1, InitInv, StepInv, PTL DEF Spec

\* Whatever position findPosition returns is a proper one of the user's own
\* strictly between the neighbours, whoever generated them.
THEOREM PositionStrictlyBetween == Spec => []GeneratedBetween
<1>1. IInv => GeneratedBetween
  BY DEF IInv
<1>2. QED
  BY <1>1, InitInv, StepInv, PTL DEF Spec

\* "vector _pos is not sorted!" (File.cpp:560) is thrown only where the left
\* neighbour is used up and the right one continues with the digit 0 of a user
\* with a smaller id.
THEOREM ThrowCharacterised == Spec => []ThrowsOnlyPastLeft
<1>1. IInv => ThrowsOnlyPastLeft
  BY DEF IInv
<1>2. QED
  BY <1>1, InitInv, StepInv, PTL DEF Spec

\* Type correctness: no digit leaves the range of the int that holds it.
THEOREM TypeCorrect == Spec => []TypeOK
<1>1. IInv => TypeOK
  BY DEF IInv
<1>2. QED
  BY <1>1, InitInv, StepInv, PTL DEF Spec
-----------------------------------------------------------------------------
\* The call the machine is about to make.
Rest == <<user, v1, v2>>

\* What is still to be computed, put behind what the machine has, is what the
\* function returns.
RestOfFunction ==
  LET whole == FindPosition[<<user, left, right>>]
      rest  == FindPosition[Rest]
  IN  /\ whole.thrown = rest.thrown
      /\ whole.position = position \o rest.position

AInv == (outcome = "running" => RestOfFunction) /\ AgreesWithFunction

\* The state read as a call.
LEMMA StateIsCall ==
  ASSUME TypeOK
  PROVE  /\ Rest \in CallArgs /\ <<user, left, right>> \in CallArgs
         /\ Low(Rest) = lo /\ High(Rest) = hi /\ Gap(Rest) = hi.digit - lo.digit
<1>1. Rest \in CallArgs /\ <<user, left, right>> \in CallArgs
  BY DEF TypeOK, Rest, CallArgs
<1>2. Low(Rest) = lo /\ High(Rest) = hi
  BY DEF Rest, Low, High, lo, hi
<1>3. QED
  BY <1>1, <1>2 DEF Gap

\* Before the first level the machine and the function have the same call.
LEMMA AgreeInit == Init => AInv
<1>. SUFFICES ASSUME Init PROVE AInv
  OBVIOUS
<1>1. TypeOK
  BY InitInv DEF IInv
<1>2. Rest = <<user, left, right>> /\ position = << >> /\ outcome = "running"
  BY DEF Init, Rest
<1>3. FindPosition[Rest].position \in Seq(Ident)
  BY <1>1, StateIsCall, FindPositionTyped DEF Results
<1>4. RestOfFunction
  BY <1>2, <1>3 DEF RestOfFunction
<1>5. QED
  BY <1>2, <1>4 DEF AInv, AgreesWithFunction

\* Vectors of identifiers may be put together in any grouping.
LEMMA ConcatIdents ==
  ASSUME NEW a \in Seq(Ident), NEW b \in Seq(Ident), NEW c \in Seq(Ident)
  PROVE  (a \o b) \o c = a \o (b \o c)
BY ConcatAssociative

\* A level deeper of the machine is one of the function.
LEMMA AgreeDeeper ==
  ASSUME IInv, AInv, outcome = "running", position' = Append(position, lo),
         UNCHANGED <<user, left, right, outcome>>,
         NEW d \in CallArgs, Rest' = d,
         FindPosition[Rest] = Under(Rest, FindPosition[d])
  PROVE  AInv'
<1>. DEFINE r == FindPosition[d]
            whole == FindPosition[<<user, left, right>>]
<1>1. /\ TypeOK /\ RestOfFunction
      /\ r \in Results /\ position \in Seq(Ident) /\ lo \in Ident
  BY Heads, FindPositionTyped DEF IInv, AInv, TypeOK
<1>2. /\ FindPosition[Rest].thrown = r.thrown
      /\ FindPosition[Rest].position = <<lo>> \o r.position
  <2>1. Rest \in CallArgs /\ Low(Rest) = lo
    BY <1>1, StateIsCall
  <2>2. FindPosition[Rest] = Under(Rest, r)
    OBVIOUS
  <2>. HIDE DEF r
  <2>3. Under(Rest, r).thrown = r.thrown /\ Under(Rest, r).position = <<Low(Rest)>> \o r.position
    BY <1>1, <2>1, UnderResult
  <2>4. QED
    BY <2>1, <2>2, <2>3
<1>3. whole.thrown = r.thrown /\ whole.position = position \o (<<lo>> \o r.position)
  BY <1>1, <1>2 DEF RestOfFunction
<1>4. r.position \in Seq(Ident)
  BY <1>1 DEF Results
<1>. HIDE DEF r
<1>5. position \o (<<lo>> \o r.position) = Append(position, lo) \o r.position
  <2>1. Append(position, lo) = position \o <<lo>>
    BY <1>1, AppendIsConcat
  <2>2. <<lo>> \in Seq(Ident)
    BY <1>1
  <2>. DEFINE e == <<lo>>
              q == r.position
  <2>3. e \in Seq(Ident) /\ q \in Seq(Ident) /\ position \in Seq(Ident)
    BY <1>1, <1>4, <2>2
  <2>. HIDE DEF e, q
  <2>4. (position \o e) \o q = position \o (e \o q)
    BY <2>3, ConcatIdents
  <2>5. Append(position, lo) = position \o e
    BY <2>1, Zenon DEF e
  <2>6. Append(position, lo) \o q = position \o (e \o q)
    <3>. DEFINE a == Append(position, lo)
    <3>. HIDE DEF a
    <3>1. a = position \o e
      BY <2>5 DEF a
    <3>2. a \o q = position \o (e \o q)
      BY <2>4, <3>1, Zenon
    <3>3. QED
      BY <3>2 DEF a
  <2>7. QED
    BY <2>6, Zenon DEF e, q
<1>6. RestOfFunction'
  BY <1>3, <1>5 DEF RestOfFunction, r
<1>7. QED
  BY <1>6 DEF AInv, AgreesWithFunction

\* Every step keeps the machine and the function together.
LEMMA AgreeStep == IInv /\ AInv /\ [Next]_vars => AInv'
<1>. SUFFICES ASSUME IInv, AInv, [Next]_vars PROVE AInv'
  OBVIOUS
<1>0. TypeOK /\ Rest \in CallArgs /\ Low(Rest) = lo /\ High(Rest) = hi
      /\ Gap(Rest) = hi.digit - lo.digit
      /\ hi.digit \in Int /\ lo.digit \in Int
      /\ FindPosition[Rest] = Level(FindPosition, Rest)
      /\ Rest[1] = user /\ Rest[2] = v1 /\ Rest[3] = v2
  BY StateIsCall, Heads, FindPositionEquation DEF IInv, Rest
<1>1. CASE Found
  <2>. DEFINE d == [digit |-> GenerateDigit(lo.digit, hi.digit), user |-> user]
  <2>1. FindPosition[Rest] = [thrown |-> FALSE, position |-> <<d>>]
    BY <1>0, <1>1, LevelCases DEF Found
  <2>2. RestOfFunction /\ position' = Append(position, d) /\ outcome' = "found"
        /\ user' = user /\ left' = left /\ right' = right
    BY <1>1 DEF Found, AInv, args
  <2>. HIDE DEF d
  <2>3. FindPosition[Rest].thrown = FALSE /\ FindPosition[Rest].position = <<d>>
    BY <2>1
  <2>4. position \o <<d>> = Append(position, d)
    BY <1>0 DEF TypeOK
  <2>5. QED
    BY <2>2, <2>3, <2>4 DEF AInv, AgreesWithFunction, RestOfFunction
<1>2. CASE DeeperLeft
  <2>1. GoesLeft(Rest)
    BY <1>0, <1>2 DEF DeeperLeft, GoesLeft
  <2>2. Rest' = LeftCall(Rest)
    BY <1>0, <1>2 DEF DeeperLeft, LeftCall, Rest, args
  <2>3. LeftCall(Rest) \in CallArgs
    BY <1>0, <1>2, CallsShrink DEF DeeperLeft
  <2>4. FindPosition[Rest] = Under(Rest, FindPosition[LeftCall(Rest)])
    BY <1>0, <2>1, LevelCases
  <2>5. /\ outcome = "running" /\ position' = Append(position, lo)
        /\ UNCHANGED <<user, left, right, outcome>>
    BY <1>2 DEF DeeperLeft, args
  <2>6. QED
    BY <2>2, <2>3, <2>4, <2>5, AgreeDeeper
<1>3. CASE DeeperBoth
  <2>1. GoesBoth(Rest)
    BY <1>0, <1>3 DEF DeeperBoth, GoesBoth
  <2>2. Rest' = BothCall(Rest)
    BY <1>0, <1>3 DEF DeeperBoth, BothCall, Rest, args
  <2>3. BothCall(Rest) \in CallArgs
    BY <1>0, <1>3, CallsShrink DEF DeeperBoth
  <2>4. FindPosition[Rest] = Under(Rest, FindPosition[BothCall(Rest)])
    BY <1>0, <2>1, LevelCases
  <2>5. /\ outcome = "running" /\ position' = Append(position, lo)
        /\ UNCHANGED <<user, left, right, outcome>>
    BY <1>3 DEF DeeperBoth, args
  <2>6. QED
    BY <2>2, <2>3, <2>4, <2>5, AgreeDeeper
<1>4. CASE Throw
  <2>1. Refuses(Rest)
    BY <1>0, <1>4 DEF Throw, Refuses
  <2>2. FindPosition[Rest].thrown = TRUE
    BY <1>0, <2>1, LevelCases
  <2>3. RestOfFunction /\ outcome' = "thrown"
        /\ user' = user /\ left' = left /\ right' = right
    BY <1>4 DEF Throw, AInv, args
  <2>4. QED
    BY <2>2, <2>3 DEF AInv, AgreesWithFunction, RestOfFunction
<1>5. CASE UNCHANGED vars
  BY <1>5 DEF vars, args, AInv, AgreesWithFunction, RestOfFunction, Rest
<1>6. QED
  BY <1>1, <1>2, <1>3, <1>4, <1>5 DEF Next

\* The loop of the machine computes what the recursion of File.cpp:505-563
\* computes.
THEOREM MachineIsFunction == Spec => []AgreesWithFunction
<1>1. AInv => AgreesWithFunction
  BY DEF AInv
<1>2. QED
  BY <1>1, InitInv, StepInv, AgreeInit, AgreeStep, PTL DEF Spec
=============================================================================
