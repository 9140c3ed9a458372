--------------------------- MODULE DocumentProofs ---------------------------
(***************************************************************************)
(* Facts about positions and lists of symbols, for every value of MaxDigit  *)
(* and Step. The recursive function findPosition has a value for every call *)
(* and puts a position between ordered neighbours; positions are totally     *)
(* ordered; the loops over the symbols of a message keep a document sorted   *)
(* and add to it, or take from it, just the symbols of the message.          *)
(***************************************************************************)
EXTENDS Document, SequenceTheorems, WellFoundedInduction, TLAPS

\* generateDigit returns a digit strictly between the two it is given: no
\* digit overflows the int it is cast to ("surely it fits into an int").
LEMMA GenerateDigitBetween ==
  ASSUME NEW d1 \in 0 .. MaxDigit, NEW d2 \in 0 .. MaxDigit, d2 - d1 > 1
  PROVE  /\ GenerateDigit(d1, d2) \in Nat
         /\ d1 < GenerateDigit(d1, d2)
         /\ GenerateDigit(d1, d2) < d2
<1>1. d1 \in Nat /\ d2 \in Nat
  BY DigitAssumption
<1>2. CASE d2 - d1 > Step
  BY <1>1, <1>2, StepAssumption DEF GenerateDigit
<1>3. CASE ~(d2 - d1 > Step)
  BY <1>1, <1>3 DEF GenerateDigit
<1>4. QED
  BY <1>2, <1>3

\* What erasing the front of a vector of at least two elements leaves.
LEMMA TailOfLong ==
  ASSUME NEW v \in Seq(Ident), Len(v) > 1
  PROVE  /\ Tail(v) # << >>
         /\ Len(Tail(v)) = Len(v) - 1
         /\ \A i \in 1 .. Len(Tail(v)) : Tail(v)[i] = v[i + 1]
<1>1. Tail(v) \in Seq(Ident)
  OBVIOUS
<1>2. Tail(v) # << >>
  BY <1>1
<1>3. QED
  BY <1>2

\* Identifier::operator< is a strict order.
LEMMA IdLessOrder ==
  ASSUME NEW a \in Ident, NEW b \in Ident, NEW c \in Ident
  PROVE  /\ ~ IdLess(a, a)
         /\ IdLess(a, b) => ~ IdLess(b, a)
         /\ IdLess(a, b) /\ IdLess(b, c) => IdLess(a, c)
         /\ a = b \/ IdLess(a, b) \/ IdLess(b, a)
<1>1. /\ a.digit \in Int /\ a.user \in Int
      /\ b.digit \in Int /\ b.user \in Int
      /\ c.digit \in Int /\ c.user \in Int
  BY DigitAssumption DEF Ident, Digit
<1>2. a.digit = b.digit /\ a.user = b.user => a = b
  BY DEF Ident
<1>3. QED
  BY <1>1, <1>2 DEF IdLess

\* A position is not below one of its own prefixes.
LEMMA NotBelowPrefix ==
  ASSUME NEW p \in Seq(Ident), NEW q \in Seq(Ident),
         Len(q) <= Len(p), Agree(p, q, Len(q))
  PROVE  ~ PosLess(p, q)
<1>1. ~ (Len(p) < Len(q))
  OBVIOUS
<1>2. ASSUME NEW i \in 1 .. Len(p), i <= Len(q), IdLess(p[i], q[i])
      PROVE  FALSE
  <2>1. p[i] = q[i] /\ p[i] \in Ident
    BY <1>2 DEF Agree
  <2>2. QED
    BY <1>2, <2>1, IdLessOrder
<1>3. QED
  BY <1>1, <1>2 DEF PosLess

\* Where two ordered positions agree up to k, their next identifiers are
\* equal or ordered.
LEMMA NextHeads ==
  ASSUME NEW p \in Seq(Ident), NEW q \in Seq(Ident), PosLess(p, q),
         NEW k \in Nat, k < Len(p), k < Len(q), Agree(p, q, k)
  PROVE  p[k + 1] = q[k + 1] \/ IdLess(p[k + 1], q[k + 1])
<1>1. CASE Len(p) < Len(q) /\ Agree(p, q, Len(p))
  BY <1>1 DEF Agree
<1>2. CASE \E i \in 1 .. Len(p) :
              i <= Len(q) /\ Agree(p, q, i - 1) /\ IdLess(p[i], q[i])
  <2>1. PICK i \in 1 .. Len(p) :
               i <= Len(q) /\ Agree(p, q, i - 1) /\ IdLess(p[i], q[i])
    BY <1>2
  <2>2. p[i] \in Ident
    OBVIOUS
  <2>3. i > k
    <3>1. SUFFICES ASSUME i <= k PROVE FALSE
      OBVIOUS
    <3>2. p[i] = q[i]
      BY <3>1 DEF Agree
    <3>3. QED
      BY <2>1, <2>2, <3>2, IdLessOrder
  <2>4. CASE i = k + 1
    BY <2>1, <2>4
  <2>5. CASE i > k + 1
    <3>1. k + 1 \in 1 .. (i - 1)
      BY <2>5
    <3>2. QED
      BY <2>1, <3>1 DEF Agree
  <2>6. QED
    BY <2>3, <2>4, <2>5
<1>3. QED
  BY <1>1, <1>2 DEF PosLess
-----------------------------------------------------------------------------
\* One level of the recursion, with F for the calls it makes.
Level(F, c) ==
  LET u == c[1]
      w1 == c[2]
      w2 == c[3]
      l == LowHead(w1, u)
      h == HighHead(w2, u)
      gap == h.digit - l.digit
      deeper(w) == LET r == F[<<u, Erase(w1), w>>]
                   IN  [r EXCEPT !.position = <<l>> \o @]
  IN  CASE gap > 1 ->
             [thrown |-> FALSE,
              position |-> <<[digit |-> GenerateDigit(l.digit, h.digit), user |-> u]>>]
        [] gap = 1 \/ (gap = 0 /\ l.user < h.user) -> deeper(<< >>)
        [] gap = 0 /\ l.user = h.user -> deeper(Erase(w2))
        [] gap = 0 /\ l.user > h.user -> [thrown |-> TRUE, position |-> << >>]
        [] gap < 0 -> [thrown |-> FALSE, position |-> << >>]

\* What is left to consume: every call the recursion makes has less.
Size(c) == Len(c[2]) + Len(c[3])
Within(n) == {c \in CallArgs : Size(c) <= n}

Low(c)  == LowHead(c[2], c[1])
High(c) == HighHead(c[3], c[1])
Gap(c)  == High(c).digit - Low(c).digit
GoesLeft(c) == Gap(c) = 1 \/ (Gap(c) = 0 /\ Low(c).user < High(c).user)
GoesBoth(c) == Gap(c) = 0 /\ Low(c).user = High(c).user
Refuses(c)  == Gap(c) = 0 /\ Low(c).user > High(c).user
LeftCall(c) == <<c[1], Erase(c[2]), << >> >>
BothCall(c) == <<c[1], Erase(c[2]), Erase(c[3])>>
Under(c, r) == [r EXCEPT !.position = <<Low(c)>> \o @]

\* The types of a call and of the two heads its level compares.
LEMMA ArgHeads ==
  ASSUME NEW c \in CallArgs
  PROVE  /\ c[1] \in Nat /\ c[2] \in Seq(Ident) /\ c[3] \in Seq(Ident)
         /\ c = <<c[1], c[2], c[3]>>
         /\ Low(c) \in Ident
         /\ Low(c).digit \in 0 .. (MaxDigit - 1) /\ Low(c).user \in Nat
         /\ High(c).digit \in 0 .. MaxDigit /\ High(c).user \in Nat
         /\ c[2] # << >> => Low(c) = c[2][1]
         /\ c[2] = << >> => Low(c) = [digit |-> 0, user |-> c[1]]
         /\ c[3] # << >> => High(c) = c[3][1] /\ High(c) \in Ident
         /\ c[3] = << >> => High(c) = [digit |-> MaxDigit, user |-> c[1]]
         /\ Gap(c) \in Int
         /\ Size(c) \in Nat
<1>1. c[1] \in Nat /\ c[2] \in Seq(Ident) /\ c[3] \in Seq(Ident) /\ c = <<c[1], c[2], c[3]>>
  BY DEF CallArgs
<1>2. c[2] # << >> => c[2][1] \in Ident
  BY <1>1
<1>3. c[3] # << >> => c[3][1] \in Ident
  BY <1>1
<1>4. [digit |-> 0, user |-> c[1]] \in Ident
  BY <1>1, DigitAssumption DEF Ident, Digit
<1>5. /\ Low(c) \in Ident
      /\ c[2] # << >> => Low(c) = c[2][1]
      /\ c[2] = << >> => Low(c) = [digit |-> 0, user |-> c[1]]
  BY <1>2, <1>4 DEF Low, LowHead
<1>6. Low(c).digit \in 0 .. (MaxDigit - 1) /\ Low(c).user \in Nat
  BY <1>5 DEF Ident, Digit
<1>7. CASE c[3] = << >>
  <2>1. High(c) = [digit |-> MaxDigit, user |-> c[1]]
    BY <1>7 DEF High, HighHead
  <2>2. Gap(c) \in Int
    BY <1>6, <2>1, DigitAssumption DEF Gap
  <2>3. Size(c) \in Nat
    BY <1>1 DEF Size
  <2>4. QED
    BY <1>1, <1>5, <1>6, <1>7, <2>1, <2>2, <2>3, DigitAssumption
<1>8. CASE c[3] # << >>
  <2>1. High(c) = c[3][1] /\ High(c) \in Ident
    BY <1>3, <1>8 DEF High, HighHead
  <2>2. High(c).digit \in 0 .. MaxDigit /\ High(c).user \in Nat
    BY <2>1, DigitAssumption DEF Ident, Digit
  <2>3. Gap(c) \in Int
    BY <1>6, <2>2, DigitAssumption DEF Gap
  <2>4. Size(c) \in Nat
    BY <1>1 DEF Size
  <2>5. QED
    BY <1>1, <1>5, <1>6, <1>8, <2>1, <2>2, <2>3, <2>4
<1>9. QED
  BY <1>7, <1>8

\* Erasing the front of a vector shortens it, unless it is empty.
LEMMA EraseShorter ==
  ASSUME NEW v \in Seq(Ident)
  PROVE  /\ Erase(v) \in Seq(Ident)
         /\ v # << >> => Len(Erase(v)) = Len(v) - 1
         /\ v = << >> => Erase(v) = << >>
         /\ Len(Erase(v)) <= Len(v)
  BY DEF Erase

\* Each deeper call is a proper one with less to consume.
LEMMA CallsShrink ==
  ASSUME NEW c \in CallArgs, Gap(c) <= 1
  PROVE  /\ LeftCall(c) \in CallArgs /\ Size(LeftCall(c)) < Size(c)
         /\ BothCall(c) \in CallArgs /\ Size(BothCall(c)) < Size(c)
<1>1. /\ c[1] \in Nat /\ c[2] \in Seq(Ident) /\ c[3] \in Seq(Ident)
      /\ Erase(c[2]) \in Seq(Ident) /\ Erase(c[3]) \in Seq(Ident)
  BY ArgHeads, EraseShorter
<1>2. LeftCall(c) \in CallArgs /\ BothCall(c) \in CallArgs
  <2>1. << >> \in Seq(Ident)
    OBVIOUS
  <2>2. \A p \in Nat, q, r \in Seq(Ident) : <<p, q, r>> \in CallArgs
    BY DEF CallArgs
  <2>3. QED
    BY <1>1, <2>1, <2>2 DEF LeftCall, BothCall
<1>3. c[2] # << >> \/ c[3] # << >>
  <2>1. SUFFICES ASSUME c[2] = << >>, c[3] = << >> PROVE FALSE
    OBVIOUS
  <2>2. Gap(c) = MaxDigit
    BY <2>1, ArgHeads, DigitAssumption DEF Gap
  <2>3. QED
    BY <2>2, DigitAssumption
<1>4. /\ Size(LeftCall(c)) = Len(Erase(c[2]))
      /\ Size(BothCall(c)) = Len(Erase(c[2])) + Len(Erase(c[3]))
      /\ Size(c) = Len(c[2]) + Len(c[3])
  BY <1>1 DEF Size, LeftCall, BothCall
<1>5. \A v \in Seq(Ident) :
        /\ Len(v) \in Nat /\ Len(Erase(v)) \in Nat
        /\ v = << >> => Len(v) = 0
        /\ v # << >> => Len(Erase(v)) = Len(v) - 1 /\ Len(v) > 0
        /\ Len(Erase(v)) <= Len(v)
  BY DEF Erase
<1>. DEFINE l1 == Len(c[2])
            l2 == Len(c[3])
            e1 == Len(Erase(c[2]))
            e2 == Len(Erase(c[3]))
<1>6. /\ l1 \in Nat /\ l2 \in Nat /\ e1 \in Nat /\ e2 \in Nat
      /\ e1 <= l1 /\ e2 <= l2
      /\ c[2] # << >> => e1 = l1 - 1 /\ l1 > 0
      /\ c[3] # << >> => e2 = l2 - 1 /\ l2 > 0
  BY <1>1, <1>5
<1>. HIDE DEF l1, l2, e1, e2
<1>7. e1 < l1 + l2 /\ e1 + e2 < l1 + l2
  BY <1>3, <1>6
<1>8. QED
  BY <1>2, <1>4, <1>7 DEF l1, l2, e1, e2

\* The branches of a level.
LEMMA LevelCases ==
  ASSUME NEW F, NEW c \in CallArgs
  PROVE  /\ Gap(c) > 1 => Level(F, c) =
              [thrown |-> FALSE,
               position |-> <<[digit |-> GenerateDigit(Low(c).digit, High(c).digit),
                               user |-> c[1]]>>]
         /\ GoesLeft(c) => Level(F, c) = Under(c, F[LeftCall(c)])
         /\ GoesBoth(c) => Level(F, c) = Under(c, F[BothCall(c)])
         /\ Refuses(c)  => Level(F, c) = [thrown |-> TRUE, position |-> << >>]
         /\ Gap(c) < 0  => Level(F, c) = [thrown |-> FALSE, position |-> << >>]
         /\ Gap(c) > 1 \/ GoesLeft(c) \/ GoesBoth(c) \/ Refuses(c) \/ Gap(c) < 0
<1>1. Gap(c) \in Int /\ Low(c).user \in Nat /\ High(c).user \in Nat
  BY ArgHeads
<1>2. Level(F, c) =
        CASE Gap(c) > 1 ->
               [thrown |-> FALSE,
                position |-> <<[digit |-> GenerateDigit(Low(c).digit, High(c).digit),
                                user |-> c[1]]>>]
          [] GoesLeft(c) -> Under(c, F[LeftCall(c)])
          [] GoesBoth(c) -> Under(c, F[BothCall(c)])
          [] Refuses(c) -> [thrown |-> TRUE, position |-> << >>]
          [] Gap(c) < 0 -> [thrown |-> FALSE, position |-> << >>]
  BY DEF Level, Gap, Low, High, GoesLeft, GoesBoth, Refuses, Under, LeftCall, BothCall
<1>3. /\ Gap(c) > 1 => ~GoesLeft(c) /\ ~GoesBoth(c) /\ ~Refuses(c) /\ ~(Gap(c) < 0)
      /\ GoesLeft(c) => ~GoesBoth(c) /\ ~Refuses(c) /\ ~(Gap(c) < 0) /\ ~(Gap(c) > 1)
      /\ GoesBoth(c) => ~GoesLeft(c) /\ ~Refuses(c) /\ ~(Gap(c) < 0) /\ ~(Gap(c) > 1)
      /\ Refuses(c) => ~GoesLeft(c) /\ ~GoesBoth(c) /\ ~(Gap(c) < 0) /\ ~(Gap(c) > 1)
      /\ Gap(c) < 0 => ~GoesLeft(c) /\ ~GoesBoth(c) /\ ~Refuses(c) /\ ~(Gap(c) > 1)
      /\ Gap(c) > 1 \/ GoesLeft(c) \/ GoesBoth(c) \/ Refuses(c) \/ Gap(c) < 0
  BY <1>1 DEF GoesLeft, GoesBoth, Refuses
<1>4. QED
  BY <1>2, <1>3

\* A level depends only on calls with less to consume.
LEMMA LevelLocal ==
  ASSUME NEW F, NEW G, NEW c \in CallArgs,
         \A d \in CallArgs : Size(d) < Size(c) => F[d] = G[d]
  PROVE  Level(F, c) = Level(G, c)
<1>1. Gap(c) <= 1 => F[LeftCall(c)] = G[LeftCall(c)] /\ F[BothCall(c)] = G[BothCall(c)]
  BY CallsShrink
<1>2. GoesLeft(c) \/ GoesBoth(c) => Gap(c) <= 1
  BY ArgHeads DEF GoesLeft, GoesBoth
<1>3. CASE GoesLeft(c)
  BY <1>1, <1>2, <1>3, LevelCases
<1>4. CASE GoesBoth(c)
  BY <1>1, <1>2, <1>4, LevelCases
<1>5. CASE ~GoesLeft(c) /\ ~GoesBoth(c)
  BY <1>5, LevelCases
<1>6. QED
  BY <1>3, <1>4, <1>5

-----------------------------------------------------------------------------
\* Every set of natural numbers that is not empty has a least element.
LEMMA LeastNumber ==
  ASSUME NEW T \in SUBSET Nat, T # {}
  PROVE  \E m \in T : \A n \in T : m <= n
  <1> DEFINE R == {p \in Nat \X Nat : p[1] < p[2]}
  <1>1. IsWellFoundedOn(R, Nat)
    BY NatLessThanWellFounded DEF OpToRel
  <1> HIDE DEF R
  <1>2. PICK m \in T : \A n \in T : <<n, m>> \notin R
    BY <1>1, WFMin
  <1>3. \A n \in T : ~(n < m)
    BY <1>2 DEF R
  <1>4. QED
    BY <1>3

\* Induction over what a call has left to consume: a set of calls that holds a
\* call whenever it holds every smaller one holds them all.
LEMMA SizeInduction ==
  ASSUME NEW S,
         \A c \in CallArgs : (\A d \in CallArgs : Size(d) < Size(c) => d \in S) => c \in S
  PROVE  CallArgs \subseteq S
<1>. SUFFICES ASSUME NEW a \in CallArgs, a \notin S PROVE FALSE
  OBVIOUS
<1>. DEFINE T == {k \in Nat : \E c \in CallArgs : c \notin S /\ Size(c) = k}
<1>1. T \in SUBSET Nat /\ T # {}
  BY ArgHeads
<1>2. PICK m \in T : \A n \in T : m <= n
  <2>. HIDE DEF T
  <2>1. QED
    BY <1>1, LeastNumber
<1>3. PICK c \in CallArgs : c \notin S /\ Size(c) = m
  OBVIOUS
<1>4. \A d \in CallArgs : Size(d) < Size(c) => d \in S
  <2>1. SUFFICES ASSUME NEW d \in CallArgs, Size(d) < Size(c), d \notin S PROVE FALSE
    OBVIOUS
  <2>2. Size(d) \in Nat /\ Size(c) \in Nat
    BY ArgHeads
  <2>3. Size(d) \in T
    BY <2>1, <2>2
  <2>4. m <= Size(d)
    BY <1>2, <2>3
  <2>5. QED
    BY <1>3, <2>1, <2>2, <2>4
<1>5. QED
  BY <1>3, <1>4

\* g is the function as far as the calls with at most n to consume.
Stage(n, g) == g = [c \in Within(n) |-> Level(g, c)]

\* Two stages agree on the calls both reach.
LEMMA StagesAgree ==
  ASSUME NEW n \in Nat, NEW m \in Nat, NEW g, NEW h, Stage(n, g), Stage(m, h),
         NEW a \in CallArgs, Size(a) <= n, Size(a) <= m
  PROVE  g[a] = h[a]
<1>. DEFINE S == {c \in CallArgs : Size(c) <= n /\ Size(c) <= m => g[c] = h[c]}
<1>1. ASSUME NEW c \in CallArgs, \A d \in CallArgs : Size(d) < Size(c) => d \in S
      PROVE  c \in S
  <2>1. SUFFICES ASSUME Size(c) <= n, Size(c) <= m PROVE g[c] = h[c]
    OBVIOUS
  <2>2. \A d \in CallArgs : Size(d) \in Nat
    BY ArgHeads
  <2>3. \A d \in CallArgs : Size(d) < Size(c) => g[d] = h[d]
    BY <1>1, <2>1, <2>2
  <2>4. Level(g, c) = Level(h, c)
    BY <2>3, LevelLocal
  <2>5. c \in Within(n) /\ c \in Within(m)
    BY <2>1 DEF Within
  <2>6. g[c] = Level(g, c) /\ h[c] = Level(h, c)
    BY <2>5 DEF Stage
  <2>7. QED
    BY <2>4, <2>6
<1>2. CallArgs \subseteq S
  <2>. HIDE DEF S
  <2>1. QED
    BY <1>1, SizeInduction
<1>3. QED
  BY <1>2

\* One stage further.
LEMMA NextStage ==
  ASSUME NEW n \in Nat, NEW g,
         \A c \in CallArgs : Size(c) < n => g[c] = Level(g, c)
  PROVE  Stage(n, [c \in Within(n) |-> Level(g, c)])
<1>. DEFINE h == [c \in Within(n) |-> Level(g, c)]
<1>0. \A d \in CallArgs : Size(d) \in Nat
  BY ArgHeads
<1>1. ASSUME NEW c \in Within(n) PROVE Level(h, c) = Level(g, c)
  <2>1. c \in CallArgs /\ Size(c) <= n
    BY DEF Within
  <2>2. ASSUME NEW d \in CallArgs, Size(d) < Size(c) PROVE h[d] = g[d]
    <3>1. Size(d) < n
      BY <1>0, <2>1, <2>2
    <3>2. d \in Within(n)
      BY <1>0, <3>1 DEF Within
    <3>3. QED
      BY <3>1, <3>2
  <2>. HIDE DEF h
  <2>3. QED
    BY <2>1, <2>2, LevelLocal
<1>2. QED
  BY <1>1 DEF Stage

\* Every stage exists.
LEMMA StagesExist == \A n \in Nat : \E g : Stage(n, g)
<1>. DEFINE T == {n \in Nat : ~ \E g : Stage(n, g)}
<1>. SUFFICES ASSUME T # {} PROVE FALSE
  OBVIOUS
<1>0. \A d \in CallArgs : Size(d) \in Nat
  BY ArgHeads
<1>1. PICK n \in T : \A k \in T : n <= k
  <2>1. T \in SUBSET Nat
    OBVIOUS
  <2>. HIDE DEF T
  <2>2. QED
    BY <2>1, LeastNumber
<1>2. CASE n = 0
  <2>1. \A c \in CallArgs : ~(Size(c) < n)
    BY <1>0, <1>2
  <2>2. \E g : Stage(n, g)
    BY <1>2, <2>1, NextStage
  <2>3. QED
    BY <2>2
<1>3. CASE n # 0
  <2>1. n - 1 \in Nat /\ n - 1 \notin T
    BY <1>1, <1>3
  <2>2. PICK g : Stage(n - 1, g)
    BY <2>1
  <2>3. \A c \in CallArgs : Size(c) < n => g[c] = Level(g, c)
    <3>1. \A c \in CallArgs : Size(c) < n => c \in Within(n - 1)
      BY <1>0, <2>1 DEF Within
    <3>2. QED
      BY <2>2, <3>1 DEF Stage
  <2>4. \E h : Stage(n, h)
    BY <2>3, NextStage
  <2>5. QED
    BY <2>4
<1>4. QED
  BY <1>2, <1>3

\* findPosition always returns: the recursive definition has a solution, so
\* the function satisfies its own equation.
THEOREM FindPositionEquation ==
  \A c \in CallArgs : FindPosition[c] = Level(FindPosition, c)
<1>. DEFINE st == [n \in Nat |-> CHOOSE g : Stage(n, g)]
            F  == [c \in CallArgs |-> st[Size(c)][c]]
<1>0. \A d \in CallArgs : Size(d) \in Nat
  BY ArgHeads
<1>1. \A n \in Nat : Stage(n, st[n])
  BY StagesExist
<1>2. \A c \in CallArgs : F[c] = st[Size(c)][c]
  OBVIOUS
<1>3. F = [c \in CallArgs |-> F[c]]
  OBVIOUS
<1>. HIDE DEF st, F
<1>4. ASSUME NEW c \in CallArgs PROVE F[c] = Level(F, c)
  <2>. DEFINE g == st[Size(c)]
  <2>1. Size(c) \in Nat /\ Stage(Size(c), g)
    BY <1>0, <1>1
  <2>2. c \in Within(Size(c))
    BY <2>1 DEF Within
  <2>3. g[c] = Level(g, c)
    <3>. HIDE DEF g
    <3>1. QED
      BY <2>1, <2>2 DEF Stage
  <2>4. ASSUME NEW d \in CallArgs, Size(d) < Size(c) PROVE F[d] = g[d]
    <3>1. Size(d) \in Nat /\ Stage(Size(d), st[Size(d)]) /\ Size(d) <= Size(c)
      BY <1>0, <1>1, <2>1, <2>4
    <3>2. st[Size(d)][d] = g[d]
      <4>. HIDE DEF g
      <4>1. Size(d) <= Size(d)
        BY <3>1
      <4>2. QED
        BY <2>1, <3>1, <4>1, StagesAgree
    <3>3. QED
      BY <1>2, <3>2
  <2>5. Level(F, c) = Level(g, c)
    <3>. HIDE DEF g
    <3>1. QED
      BY <2>4, LevelLocal
  <2>6. QED
    BY <1>2, <2>3, <2>5
<1>5. F = [c \in CallArgs |-> Level(F, c)]
  BY <1>3, <1>4
<1>6. FindPosition = CHOOSE f : f = [c \in CallArgs |-> Level(f, c)]
  BY DEF FindPosition, Level
<1>7. FindPosition = [c \in CallArgs |-> Level(FindPosition, c)]
  BY <1>5, <1>6
<1>8. QED
  <2>1. ASSUME NEW f, f = [c \in CallArgs |-> Level(f, c)], NEW c \in CallArgs
        PROVE  f[c] = Level(f, c)
    BY <2>1
  <2>2. QED
    BY <1>7, <2>1

\* What a call may return.
Results == [thrown : BOOLEAN, position : Seq(Ident)]

\* A prefixed result, field by field.
LEMMA UnderResult ==
  ASSUME NEW c \in CallArgs, NEW r \in Results
  PROVE  /\ Under(c, r) \in Results
         /\ Under(c, r).thrown = r.thrown
         /\ Under(c, r).position = <<Low(c)>> \o r.position
<1>1. Low(c) \in Ident /\ r.position \in Seq(Ident)
  BY ArgHeads DEF Results
<1>2. <<Low(c)>> \o r.position \in Seq(Ident)
  BY <1>1
<1>. DEFINE q == <<Low(c)>> \o r.position
<1>3. Under(c, r) = [r EXCEPT !.position = q]
  BY DEF Under, Results
<1>. HIDE DEF q
<1>4. /\ Under(c, r) \in Results
      /\ Under(c, r).thrown = r.thrown
      /\ Under(c, r).position = q
  BY <1>2, <1>3 DEF Results, q
<1>5. QED
  BY <1>4 DEF q

\* The digit of a level that has room.
LEMMA RoomBetween ==
  ASSUME NEW c \in CallArgs, Gap(c) > 1
  PROVE  LET d == [digit |-> GenerateDigit(Low(c).digit, High(c).digit), user |-> c[1]]
         IN  /\ d \in Ident
             /\ d.digit > Low(c).digit /\ d.digit < High(c).digit
<1>1. /\ Low(c).digit \in 0 .. MaxDigit /\ High(c).digit \in 0 .. MaxDigit
      /\ High(c).digit - Low(c).digit > 1 /\ c[1] \in Nat
  BY ArgHeads, DigitAssumption DEF Gap
<1>. DEFINE n == GenerateDigit(Low(c).digit, High(c).digit)
<1>2. n \in Nat /\ Low(c).digit < n /\ n < High(c).digit
  BY <1>1, GenerateDigitBetween
<1>. HIDE DEF n
<1>3. n \in 0 .. (MaxDigit - 1)
  BY <1>1, <1>2, DigitAssumption
<1>4. QED
  BY <1>1, <1>2, <1>3 DEF n, Ident, Digit

\* findPosition returns a vector of identifiers, or throws.
LEMMA FindPositionTyped == \A c \in CallArgs : FindPosition[c] \in Results
<1>. DEFINE S == {c \in CallArgs : FindPosition[c] \in Results}
<1>1. ASSUME NEW c \in CallArgs, \A d \in CallArgs : Size(d) < Size(c) => d \in S
      PROVE  FindPosition[c] \in Results
  <2>0. FindPosition[c] = Level(FindPosition, c)
    BY FindPositionEquation
  <2>1. CASE Gap(c) > 1
    <3>. DEFINE d == [digit |-> GenerateDigit(Low(c).digit, High(c).digit), user |-> c[1]]
    <3>1. d \in Ident
      BY <2>1, RoomBetween
    <3>2. FindPosition[c] = [thrown |-> FALSE, position |-> <<d>>]
      BY <2>0, <2>1, LevelCases
    <3>. HIDE DEF d
    <3>3. QED
      BY <3>1, <3>2 DEF Results
  <2>2. CASE GoesLeft(c)
    <3>1. LeftCall(c) \in S
      BY <1>1, <2>2, CallsShrink, ArgHeads DEF GoesLeft
    <3>2. FindPosition[c] = Under(c, FindPosition[LeftCall(c)])
      BY <2>0, <2>2, LevelCases
    <3>3. QED
      BY <3>1, <3>2, UnderResult
  <2>3. CASE GoesBoth(c)
    <3>1. BothCall(c) \in S
      BY <1>1, <2>3, CallsShrink, ArgHeads DEF GoesBoth
    <3>2. FindPosition[c] = Under(c, FindPosition[BothCall(c)])
      BY <2>0, <2>3, LevelCases
    <3>3. QED
      BY <3>1, <3>2, UnderResult
  <2>4. CASE Refuses(c) \/ Gap(c) < 0
    <3>1. \E b \in BOOLEAN : FindPosition[c] = [thrown |-> b, position |-> << >>]
      BY <2>0, <2>4, LevelCases
    <3>2. QED
      BY <3>1 DEF Results
  <2>5. QED
    BY <2>1, <2>2, <2>3, <2>4, LevelCases
<1>2. CallArgs \subseteq S
  <2>1. \A c \in CallArgs : (\A d \in CallArgs : Size(d) < Size(c) => d \in S) => c \in S
    BY <1>1
  <2>. HIDE DEF S
  <2>2. QED
    BY <2>1, SizeInduction
<1>3. QED
  BY <1>2
-----------------------------------------------------------------------------
\* The order of positions, head by head.
LEMMA HeadDecides ==
  ASSUME NEW p \in Seq(Ident), NEW q \in Seq(Ident), p # << >>, q # << >>,
         IdLess(p[1], q[1])
  PROVE  PosLess(p, q)
<1>1. 1 \in 1 .. Len(p) /\ 1 <= Len(q) /\ Agree(p, q, 1 - 1)
  BY DEF Agree
<1>2. QED
  BY <1>1 DEF PosLess

\* Nothing comes before a position.
LEMMA EmptyFirst ==
  ASSUME NEW q \in Seq(Ident), q # << >>
  PROVE  PosLess(<< >>, q)
<1>1. Len(<< >>) < Len(q) /\ Agree(<< >>, q, Len(<< >>))
  BY DEF Agree
<1>2. QED
  BY <1>1 DEF PosLess

\* An identifier in front of both keeps the order.
LEMMA ConsLess ==
  ASSUME NEW p \in Seq(Ident), NEW q \in Seq(Ident), NEW a \in Ident, PosLess(p, q)
  PROVE  PosLess(<<a>> \o p, <<a>> \o q)
<1>. DEFINE ap == <<a>> \o p
            aq == <<a>> \o q
<1>1. /\ Len(ap) = Len(p) + 1 /\ Len(aq) = Len(q) + 1
      /\ ap[1] = a /\ aq[1] = a
      /\ \A i \in 1 .. Len(p) : ap[i + 1] = p[i]
      /\ \A i \in 1 .. Len(q) : aq[i + 1] = q[i]
      /\ Len(p) \in Nat /\ Len(q) \in Nat
  OBVIOUS
<1>. HIDE DEF ap, aq
<1>2. ASSUME NEW n \in Nat, n <= Len(p), n <= Len(q), Agree(p, q, n)
      PROVE  Agree(ap, aq, n + 1)
  <2>1. SUFFICES ASSUME NEW j \in 1 .. (n + 1) PROVE ap[j] = aq[j]
    BY DEF Agree
  <2>2. CASE j = 1
    BY <1>1, <2>2
  <2>3. CASE j # 1
    <3>1. PICK i \in 1 .. n : j = i + 1
      BY <2>3
    <3>2. p[i] = q[i] /\ i \in 1 .. Len(p) /\ i \in 1 .. Len(q)
      BY <1>1, <1>2 DEF Agree
    <3>3. QED
      BY <1>1, <3>1, <3>2
  <2>4. QED
    BY <2>2, <2>3
<1>3. CASE Len(p) < Len(q) /\ Agree(p, q, Len(p))
  <2>1. Len(ap) < Len(aq) /\ Agree(ap, aq, Len(ap))
    BY <1>1, <1>2, <1>3
  <2>2. QED
    BY <2>1 DEF PosLess, ap, aq
<1>4. CASE \E i \in 1 .. Len(p) :
              i <= Len(q) /\ Agree(p, q, i - 1) /\ IdLess(p[i], q[i])
  <2>1. PICK i \in 1 .. Len(p) :
              i <= Len(q) /\ Agree(p, q, i - 1) /\ IdLess(p[i], q[i])
    BY <1>4
  <2>2. i - 1 \in Nat /\ i - 1 <= Len(p) /\ i - 1 <= Len(q) /\ (i - 1) + 1 = (i + 1) - 1
    BY <1>1, <2>1
  <2>3. Agree(ap, aq, (i + 1) - 1)
    BY <1>2, <2>1, <2>2
  <2>4. i + 1 \in 1 .. Len(ap) /\ i + 1 <= Len(aq) /\ IdLess(ap[i + 1], aq[i + 1])
    BY <1>1, <2>1
  <2>5. PosLess(ap, aq)
    BY <2>3, <2>4 DEF PosLess
  <2>6. QED
    BY <2>5 DEF ap, aq
<1>5. QED
  BY <1>3, <1>4 DEF PosLess

\* Behind equal heads the order is that of the tails.
LEMMA TailLess ==
  ASSUME NEW p \in Seq(Ident), NEW q \in Seq(Ident), p # << >>, q # << >>,
         p[1] = q[1], PosLess(p, q)
  PROVE  PosLess(Tail(p), Tail(q))
<1>. DEFINE tp == Tail(p)
            tq == Tail(q)
<1>1. /\ Len(p) \in Nat /\ Len(q) \in Nat /\ Len(p) > 0 /\ Len(q) > 0
      /\ Len(tp) = Len(p) - 1 /\ Len(tq) = Len(q) - 1
      /\ \A i \in 1 .. (Len(p) - 1) : tp[i] = p[i + 1]
      /\ \A i \in 1 .. (Len(q) - 1) : tq[i] = q[i + 1]
  OBVIOUS
<1>. HIDE DEF tp, tq
<1>2. ASSUME NEW n \in Nat, n >= 1, n <= Len(p), n <= Len(q), Agree(p, q, n)
      PROVE  Agree(tp, tq, n - 1)
  <2>1. SUFFICES ASSUME NEW j \in 1 .. (n - 1) PROVE tp[j] = tq[j]
    BY DEF Agree
  <2>2. j + 1 \in 1 .. n /\ j \in 1 .. (Len(p) - 1) /\ j \in 1 .. (Len(q) - 1)
    BY <1>1, <1>2
  <2>3. p[j + 1] = q[j + 1]
    BY <1>2, <2>2 DEF Agree
  <2>4. QED
    BY <1>1, <2>2, <2>3
<1>3. CASE Len(p) < Len(q) /\ Agree(p, q, Len(p))
  <2>1. Len(tp) < Len(tq) /\ Agree(tp, tq, Len(tp))
    BY <1>1, <1>2, <1>3
  <2>2. QED
    BY <2>1 DEF PosLess, tp, tq
<1>4. CASE \E i \in 1 .. Len(p) :
              i <= Len(q) /\ Agree(p, q, i - 1) /\ IdLess(p[i], q[i])
  <2>1. PICK i \in 1 .. Len(p) :
              i <= Len(q) /\ Agree(p, q, i - 1) /\ IdLess(p[i], q[i])
    BY <1>4
  <2>2. i # 1
    <3>1. p[1] \in Ident
      OBVIOUS
    <3>2. QED
      BY <2>1, <3>1, IdLessOrder
  <2>3. Agree(tp, tq, (i - 1) - 1)
    BY <1>1, <1>2, <2>1, <2>2
  <2>4. i - 1 \in 1 .. Len(tp) /\ i - 1 <= Len(tq) /\ IdLess(tp[i - 1], tq[i - 1])
    BY <1>1, <2>1, <2>2
  <2>5. PosLess(tp, tq)
    BY <2>3, <2>4 DEF PosLess
  <2>6. QED
    BY <2>5 DEF tp, tq
<1>5. QED
  BY <1>3, <1>4 DEF PosLess

\* Nothing is below the empty vector.
LEMMA NothingBelowEmpty ==
  ASSUME NEW p \in Seq(Ident)
  PROVE  ~ PosLess(p, << >>)
<1>1. << >> \in Seq(Ident) /\ Len(<< >>) = 0 /\ Len(p) \in Nat
  OBVIOUS
<1>2. Len(<< >>) <= Len(p) /\ Agree(p, << >>, Len(<< >>))
  BY <1>1 DEF Agree
<1>3. QED
  BY <1>1, <1>2, NotBelowPrefix

\* What a vector is made of.
LEMMA HeadAndTail ==
  ASSUME NEW v \in Seq(Ident), v # << >>
  PROVE  /\ v[1] \in Ident /\ Tail(v) \in Seq(Ident)
         /\ v = <<v[1]>> \o Tail(v)
         /\ Tail(v) # << >> => Tail(v)[Len(Tail(v))] = v[Len(v)]
         /\ Tail(v) = << >> => v[1] = v[Len(v)]
<1>1. Len(v) \in Nat /\ Len(v) > 0 /\ v[1] \in Ident /\ Tail(v) \in Seq(Ident)
      /\ Len(Tail(v)) = Len(v) - 1
      /\ \A i \in 1 .. (Len(v) - 1) : Tail(v)[i] = v[i + 1]
  OBVIOUS
<1>2. v = <<v[1]>> \o Tail(v)
  BY <1>1
<1>3. CASE Tail(v) = << >>
  <2>0. Len(Tail(v)) = 0
    <3>. DEFINE t == Tail(v)
    <3>1. t = << >>
      BY <1>3
    <3>. HIDE DEF t
    <3>2. Len(t) = 0
      BY <3>1
    <3>3. QED
      BY <3>2 DEF t
  <2>1. Len(v) = 1
    <3>. DEFINE n == Len(v)
    <3>1. n \in Nat /\ n - 1 = 0
      BY <1>1, <2>0
    <3>. HIDE DEF n
    <3>2. n = 1
      BY <3>1
    <3>3. QED
      BY <3>2 DEF n
  <2>2. QED
    BY <1>1, <1>2, <1>3, <2>1
<1>4. CASE Tail(v) # << >>
  <2>1. Len(v) - 1 \in 1 .. (Len(v) - 1)
    BY <1>1, <1>4
  <2>2. QED
    BY <1>1, <1>2, <1>4, <2>1
<1>5. QED
  BY <1>3, <1>4
-----------------------------------------------------------------------------
\* w can be the right neighbour of v: none, or above it and not ending in 0.
Ordered(v, w) == w = << >> \/ (w[Len(w)].digit > 0 /\ PosLess(v, w))

\* p is what findPosition promises for the call c.
Fits(c, p) ==
  /\ p # << >>
  /\ p[Len(p)].digit > 0 /\ p[Len(p)].user = c[1]
  /\ PosLess(c[2], p)
  /\ c[3] = << >> \/ PosLess(p, c[3])

\* The promise for one level deeper gives that for the level.
LEMMA FitsUnder ==
  ASSUME NEW c \in CallArgs, NEW w \in Seq(Ident), NEW p \in Seq(Ident),
         Fits(<<c[1], Erase(c[2]), w>>, p),
         \/ c[3] = << >>
         \/ IdLess(Low(c), c[3][1])
         \/ Low(c) = c[3][1] /\ w = Tail(c[3]) /\ w # << >>
  PROVE  Fits(c, <<Low(c)>> \o p)
<1>. DEFINE q == <<Low(c)>> \o p
            a == c[2]
            b == c[3]
<1>0. /\ a \in Seq(Ident) /\ b \in Seq(Ident) /\ Low(c) \in Ident
      /\ a # << >> => Low(c) = a[1]
  BY ArgHeads
<1>1. /\ p # << >> /\ p[Len(p)].digit > 0 /\ p[Len(p)].user = c[1]
      /\ PosLess(Erase(a), p)
      /\ w = << >> \/ PosLess(p, w)
  BY DEF Fits
<1>2. /\ q \in Seq(Ident) /\ q # << >> /\ q[1] = Low(c) /\ q[Len(q)] = p[Len(p)]
  BY <1>0, <1>1
<1>3. PosLess(a, q)
  <2>1. CASE a = << >>
    <3>. HIDE DEF q
    <3>1. QED
      BY <1>2, <2>1, EmptyFirst
  <2>2. CASE a # << >>
    <3>1. Erase(a) = Tail(a)
      BY <2>2 DEF Erase
    <3>2. a = <<Low(c)>> \o Tail(a) /\ Tail(a) \in Seq(Ident)
      BY <1>0, <2>2, HeadAndTail
    <3>3. PosLess(<<Low(c)>> \o Tail(a), q)
      BY <1>0, <1>1, <3>1, <3>2, ConsLess
    <3>4. QED
      BY <3>2, <3>3
  <2>3. QED
    BY <2>1, <2>2
<1>4. b = << >> \/ PosLess(q, b)
  <2>1. CASE b # << >> /\ IdLess(Low(c), b[1])
    <3>. HIDE DEF q
    <3>1. QED
      BY <1>0, <1>2, <2>1, HeadDecides
  <2>2. CASE b # << >> /\ Low(c) = b[1] /\ w = Tail(b) /\ w # << >>
    <3>1. b = <<Low(c)>> \o Tail(b)
      BY <1>0, <2>2, HeadAndTail
    <3>2. PosLess(q, <<Low(c)>> \o w)
      BY <1>0, <1>1, <2>2, ConsLess
    <3>3. QED
      BY <2>2, <3>1, <3>2
  <2>3. QED
    BY <2>1, <2>2
<1>5. QED
  BY <1>1, <1>2, <1>3, <1>4 DEF Fits

\* Of two ordered vectors the heads are equal or ordered.
LEMMA HeadsOfOrdered ==
  ASSUME NEW p \in Seq(Ident), NEW q \in Seq(Ident), p # << >>, q # << >>,
         PosLess(p, q)
  PROVE  p[1] = q[1] \/ IdLess(p[1], q[1])
<1>1. 0 \in Nat /\ 0 < Len(p) /\ 0 < Len(q) /\ Agree(p, q, 0)
  BY DEF Agree
<1>2. QED
  BY <1>1, NextHeads

\* Ordered neighbours stay so below two equal heads.
LEMMA OrderedDeeper ==
  ASSUME NEW c \in CallArgs, Ordered(c[2], c[3]), GoesBoth(c)
  PROVE  /\ c[3] # << >> /\ Low(c) = c[3][1]
         /\ Erase(c[3]) = Tail(c[3]) /\ Tail(c[3]) # << >>
         /\ Ordered(Erase(c[2]), Erase(c[3]))
<1>. DEFINE v == c[2]
            w == c[3]
<1>1. w # << >>
  <2>1. SUFFICES ASSUME w = << >> PROVE FALSE
    OBVIOUS
  <2>2. High(c).digit = MaxDigit
    BY <2>1, ArgHeads
  <2>3. Low(c).digit < MaxDigit /\ Low(c).digit \in Int
    BY ArgHeads, DigitAssumption
  <2>4. QED
    BY <2>2, <2>3, DigitAssumption DEF GoesBoth, Gap
<1>2. /\ v \in Seq(Ident) /\ w \in Seq(Ident) /\ Low(c) \in Ident
      /\ High(c) = w[1] /\ High(c) \in Ident
      /\ v # << >> => Low(c) = v[1]
      /\ v = << >> => Low(c) = [digit |-> 0, user |-> c[1]]
  BY <1>1, ArgHeads
<1>3. Low(c) = w[1]
  <2>1. Low(c).digit \in Int /\ High(c).digit \in Int
    BY ArgHeads
  <2>2. Low(c).digit = High(c).digit /\ Low(c).user = High(c).user
    BY <2>1 DEF GoesBoth, Gap
  <2>3. QED
    BY <1>2, <2>2 DEF Ident
<1>4. /\ w[Len(w)].digit > 0 /\ PosLess(v, w)
      /\ Erase(w) = Tail(w) /\ Tail(w) \in Seq(Ident)
  BY <1>1, <1>2, HeadAndTail DEF Ordered, Erase
<1>5. CASE v = << >>
  <2>1. Tail(w) # << >>
    <3>1. SUFFICES ASSUME Tail(w) = << >> PROVE FALSE
      OBVIOUS
    <3>2. w[1] = w[Len(w)]
      BY <1>1, <1>2, <3>1, HeadAndTail
    <3>3. w[1].digit = 0
      BY <1>2, <1>3, <1>5
    <3>4. QED
      BY <1>4, <3>2, <3>3
  <2>2. Tail(w)[Len(Tail(w))].digit > 0
    BY <1>1, <1>2, <1>4, <2>1, HeadAndTail
  <2>3. Erase(v) = << >> /\ PosLess(<< >>, Tail(w))
    BY <1>4, <1>5, <2>1, EmptyFirst DEF Erase
  <2>4. QED
    BY <1>1, <1>3, <1>4, <2>1, <2>2, <2>3 DEF Ordered
<1>6. CASE v # << >>
  <2>1. Erase(v) = Tail(v) /\ Tail(v) \in Seq(Ident)
    BY <1>2, <1>6, HeadAndTail DEF Erase
  <2>2. PosLess(Tail(v), Tail(w))
    BY <1>1, <1>2, <1>3, <1>4, <1>6, TailLess
  <2>3. Tail(w) # << >>
    BY <2>1, <2>2, NothingBelowEmpty
  <2>4. Tail(w)[Len(Tail(w))].digit > 0
    BY <1>1, <1>2, <1>4, <2>3, HeadAndTail
  <2>5. QED
    BY <1>1, <1>3, <1>4, <2>1, <2>2, <2>3, <2>4 DEF Ordered
<1>7. QED
  BY <1>5, <1>6

\* The case File.cpp has no branch for needs neighbours out of order.
LEMMA NoFallThrough ==
  ASSUME NEW c \in CallArgs, Ordered(c[2], c[3])
  PROVE  ~ (Gap(c) < 0)
<1>1. CASE c[2] = << >> \/ c[3] = << >>
  BY <1>1, ArgHeads, DigitAssumption DEF Gap
<1>2. CASE c[2] # << >> /\ c[3] # << >>
  <2>1. /\ c[2] \in Seq(Ident) /\ c[3] \in Seq(Ident)
        /\ Low(c) = c[2][1] /\ High(c) = c[3][1]
        /\ Low(c).digit \in Int /\ High(c).digit \in Int
    BY <1>2, ArgHeads
  <2>2. Low(c) = High(c) \/ IdLess(Low(c), High(c))
    BY <1>2, <2>1, HeadsOfOrdered DEF Ordered
  <2>3. QED
    BY <2>1, <2>2 DEF IdLess, Gap
<1>3. QED
  BY <1>1, <1>2

\* findPosition keeps its promise for every pair of ordered neighbours, or
\* throws.
LEMMA FindPositionFits ==
  \A c \in CallArgs :
    Ordered(c[2], c[3]) => FindPosition[c].thrown \/ Fits(c, FindPosition[c].position)
<1>. DEFINE Good(c) == Ordered(c[2], c[3]) =>
                         FindPosition[c].thrown \/ Fits(c, FindPosition[c].position)
            S == {c \in CallArgs : Good(c)}
<1>1. ASSUME NEW c \in CallArgs, \A d \in CallArgs : Size(d) < Size(c) => d \in S
      PROVE  Good(c)
  <2>. SUFFICES ASSUME Ordered(c[2], c[3])
                PROVE  FindPosition[c].thrown \/ Fits(c, FindPosition[c].position)
    OBVIOUS
  <2>0. FindPosition[c] = Level(FindPosition, c)
    BY FindPositionEquation
  <2>1. CASE Gap(c) > 1
    <3>. DEFINE d == [digit |-> GenerateDigit(Low(c).digit, High(c).digit), user |-> c[1]]
                p == <<d>>
    <3>1. d \in Ident /\ d.user = c[1] /\ d.digit > Low(c).digit /\ d.digit < High(c).digit
      BY <2>1, RoomBetween
    <3>2. FindPosition[c].position = p
      BY <2>0, <2>1, LevelCases
    <3>. HIDE DEF d
    <3>3. p \in Seq(Ident) /\ p # << >> /\ p[1] = d /\ p[Len(p)] = d
      BY <3>1
    <3>. HIDE DEF p
    <3>4. d.digit > 0
      BY <3>1, ArgHeads DEF Ident, Digit
    <3>5. PosLess(c[2], p)
      <4>1. CASE c[2] = << >>
        BY <3>3, <4>1, EmptyFirst
      <4>2. CASE c[2] # << >>
        BY <3>1, <3>3, <4>2, ArgHeads, HeadDecides DEF IdLess
      <4>3. QED
        BY <4>1, <4>2
    <3>6. c[3] = << >> \/ PosLess(p, c[3])
      BY <3>1, <3>3, ArgHeads, HeadDecides DEF IdLess
    <3>7. QED
      BY <3>1, <3>2, <3>3, <3>4, <3>5, <3>6 DEF Fits
  <2>2. CASE GoesLeft(c)
    <3>. DEFINE r == FindPosition[LeftCall(c)]
    <3>1. LeftCall(c) \in CallArgs /\ Size(LeftCall(c)) < Size(c)
      BY <2>2, CallsShrink, ArgHeads DEF GoesLeft
    <3>2. r \in Results /\ FindPosition[c] = Under(c, r)
      BY <2>0, <2>2, <3>1, LevelCases, FindPositionTyped
    <3>3. LeftCall(c)[3] = << >> /\ Good(LeftCall(c))
      BY <1>1, <3>1 DEF LeftCall
    <3>4. r.thrown \/ Fits(LeftCall(c), r.position)
      BY <3>3 DEF Ordered
    <3>5. c[3] = << >> \/ IdLess(Low(c), c[3][1])
      BY <2>2, ArgHeads DEF GoesLeft, Gap, IdLess
    <3>. HIDE DEF r
    <3>6. r.thrown = FindPosition[c].thrown /\ FindPosition[c].position = <<Low(c)>> \o r.position
      BY <3>2, UnderResult
    <3>7. ~r.thrown => Fits(c, <<Low(c)>> \o r.position)
      <4>1. << >> \in Seq(Ident) /\ r.position \in Seq(Ident)
        BY <3>2 DEF Results
      <4>2. QED
        BY <3>4, <3>5, <4>1, FitsUnder DEF LeftCall
    <3>8. QED
      BY <3>2, <3>6, <3>7 DEF Results
  <2>3. CASE GoesBoth(c)
    <3>. DEFINE r == FindPosition[BothCall(c)]
    <3>1. BothCall(c) \in CallArgs /\ Size(BothCall(c)) < Size(c)
      BY <2>3, CallsShrink, ArgHeads DEF GoesBoth
    <3>2. r \in Results /\ FindPosition[c] = Under(c, r)
      BY <2>0, <2>3, <3>1, LevelCases, FindPositionTyped
    <3>3. /\ c[3] # << >> /\ Low(c) = c[3][1]
          /\ Erase(c[3]) = Tail(c[3]) /\ Tail(c[3]) # << >>
          /\ Ordered(Erase(c[2]), Erase(c[3]))
      BY <2>3, OrderedDeeper
    <3>4. Good(BothCall(c))
      BY <1>1, <3>1
    <3>5. r.thrown \/ Fits(BothCall(c), r.position)
      BY <3>3, <3>4 DEF BothCall
    <3>. HIDE DEF r
    <3>6. r.thrown = FindPosition[c].thrown /\ FindPosition[c].position = <<Low(c)>> \o r.position
      BY <3>2, UnderResult
    <3>7. ~r.thrown => Fits(c, <<Low(c)>> \o r.position)
      <4>1. Erase(c[3]) \in Seq(Ident) /\ r.position \in Seq(Ident)
        BY <3>2, ArgHeads, EraseShorter DEF Results
      <4>2. QED
        BY <3>3, <3>5, <4>1, FitsUnder DEF BothCall
    <3>8. QED
      BY <3>2, <3>6, <3>7 DEF Results
  <2>4. CASE Refuses(c)
    <3>1. FindPosition[c].thrown = TRUE
      BY <2>0, <2>4, LevelCases
    <3>2. QED
      BY <3>1
  <2>5. QED
    BY <2>1, <2>2, <2>3, <2>4, LevelCases, NoFallThrough
<1>2. CallArgs \subseteq S
  <2>1. \A c \in CallArgs : (\A d \in CallArgs : Size(d) < Size(c) => d \in S) => c \in S
    BY <1>1
  <2>. HIDE DEF S
  <2>2. QED
    BY <2>1, SizeInduction
<1>3. QED
  BY <1>2

\* The position localInsert gives a new symbol lies strictly between the
\* positions of its neighbours, or findPosition throws.
THEOREM FindPositionBetween ==
  \A u \in Nat, l, r \in Seq(Ident) :
    Neighbours(l, r) =>
      LET f == FindPosition[<<u, l, r>>]
      IN  \/ f.thrown
          \/ /\ f.position \in Position
             /\ f.position[Len(f.position)].user = u
             /\ Between(l, f.position, r)
<1>1. SUFFICES ASSUME NEW u \in Nat, NEW l \in Seq(Ident), NEW r \in Seq(Ident),
                      Neighbours(l, r), ~FindPosition[<<u, l, r>>].thrown
               PROVE  LET p == FindPosition[<<u, l, r>>].position
                      IN  p \in Position /\ p[Len(p)].user = u /\ Between(l, p, r)
  OBVIOUS
<1>. DEFINE c == <<u, l, r>>
<1>2. c \in CallArgs /\ c[1] = u /\ c[2] = l /\ c[3] = r
  BY DEF CallArgs
<1>. HIDE DEF c
<1>3. Ordered(l, r)
  <2>1. CASE r = << >>
    BY <2>1 DEF Ordered
  <2>2. CASE r # << >>
    <3>1. r[Len(r)].digit > 0
      BY <1>1, <2>2 DEF Neighbours, Position
    <3>2. PosLess(l, r)
      BY <1>1, <2>2, EmptyFirst DEF Neighbours
    <3>3. QED
      BY <3>1, <3>2 DEF Ordered
  <2>3. QED
    BY <2>1, <2>2
<1>4. Fits(c, FindPosition[c].position) /\ FindPosition[c].position \in Seq(Ident)
  BY <1>1, <1>2, <1>3, FindPositionFits, FindPositionTyped DEF Results, c
<1>5. QED
  BY <1>2, <1>4 DEF Fits, Position, Between, c
-----------------------------------------------------------------------------
-----------------------------------------------------------------------------
\* No position is below itself.
LEMMA PosIrreflexive ==
  ASSUME NEW p \in Seq(Ident)
  PROVE  ~ PosLess(p, p)
<1>1. Len(p) \in Nat /\ Len(p) <= Len(p) /\ Agree(p, p, Len(p))
  BY DEF Agree
<1>2. QED
  BY <1>1, NotBelowPrefix

\* What is below a position is below all that the position is below.
LEMMA PosTransitive ==
  ASSUME NEW p \in Seq(Ident), NEW q \in Seq(Ident), NEW r \in Seq(Ident),
         PosLess(p, q), PosLess(q, r)
  PROVE  PosLess(p, r)
<1>0. Len(p) \in Nat /\ Len(q) \in Nat /\ Len(r) \in Nat
  OBVIOUS
<1>1. ASSUME NEW i \in 1 .. Len(p), i <= Len(q), Agree(p, q, i - 1), IdLess(p[i], q[i]),
             NEW j \in 1 .. Len(q), j <= Len(r), Agree(q, r, j - 1), IdLess(q[j], r[j])
      PROVE  PosLess(p, r)
  <2>1. CASE i < j
    <3>1. q[i] = r[i]
      BY <1>0, <1>1, <2>1 DEF Agree
    <3>2. Agree(p, r, i - 1) /\ IdLess(p[i], r[i]) /\ i <= Len(r)
      BY <1>0, <1>1, <2>1, <3>1 DEF Agree
    <3>3. QED
      BY <3>2 DEF PosLess
  <2>2. CASE i = j
    <3>1. p[i] \in Ident /\ q[i] \in Ident /\ r[i] \in Ident
      BY <1>0, <1>1, <2>2
    <3>2. IdLess(p[i], r[i])
      BY <1>1, <2>2, <3>1, IdLessOrder
    <3>3. Agree(p, r, i - 1) /\ i <= Len(r)
      BY <1>0, <1>1, <2>2 DEF Agree
    <3>4. QED
      BY <3>2, <3>3 DEF PosLess
  <2>3. CASE j < i
    <3>1. p[j] = q[j] /\ j \in 1 .. Len(p)
      BY <1>0, <1>1, <2>3 DEF Agree
    <3>2. Agree(p, r, j - 1) /\ IdLess(p[j], r[j])
      BY <1>0, <1>1, <2>3, <3>1 DEF Agree
    <3>3. QED
      BY <1>1, <3>1, <3>2 DEF PosLess
  <2>4. QED
    BY <1>0, <1>1, <2>1, <2>2, <2>3
<1>2. ASSUME NEW i \in 1 .. Len(p), i <= Len(q), Agree(p, q, i - 1), IdLess(p[i], q[i]),
             Len(q) < Len(r), Agree(q, r, Len(q))
      PROVE  PosLess(p, r)
  <2>1. Agree(p, r, i - 1) /\ IdLess(p[i], r[i]) /\ i <= Len(r)
    BY <1>0, <1>2 DEF Agree
  <2>2. QED
    BY <2>1 DEF PosLess
<1>3. ASSUME Len(p) < Len(q), Agree(p, q, Len(p)),
             NEW j \in 1 .. Len(q), j <= Len(r), Agree(q, r, j - 1), IdLess(q[j], r[j])
      PROVE  PosLess(p, r)
  <2>1. CASE j <= Len(p)
    <3>1. j \in 1 .. Len(p) /\ Agree(p, r, j - 1) /\ IdLess(p[j], r[j])
      BY <1>0, <1>3, <2>1 DEF Agree
    <3>2. QED
      BY <1>3, <3>1 DEF PosLess
  <2>2. CASE ~ (j <= Len(p))
    <3>1. Len(p) < Len(r) /\ Agree(p, r, Len(p))
      BY <1>0, <1>3, <2>2 DEF Agree
    <3>2. QED
      BY <3>1 DEF PosLess
  <2>3. QED
    BY <2>1, <2>2
<1>4. ASSUME Len(p) < Len(q), Agree(p, q, Len(p)), Len(q) < Len(r), Agree(q, r, Len(q))
      PROVE  PosLess(p, r)
  <2>1. Len(p) < Len(r) /\ Agree(p, r, Len(p))
    BY <1>0, <1>4 DEF Agree
  <2>2. QED
    BY <2>1 DEF PosLess
<1>5. QED
  BY <1>1, <1>2, <1>3, <1>4 DEF PosLess

\* Of two positions one is below the other, or they are the same.
LEMMA PosTotal ==
  ASSUME NEW p \in Seq(Ident), NEW q \in Seq(Ident)
  PROVE  p = q \/ PosLess(p, q) \/ PosLess(q, p)
<1>. DEFINE T == {i \in Nat \ {0} : i <= Len(p) /\ i <= Len(q) /\ p[i] # q[i]}
<1>0. Len(p) \in Nat /\ Len(q) \in Nat /\ T \in SUBSET Nat
  OBVIOUS
<1>1. CASE T = {}
  <2>1. \A i \in Nat \ {0} : i <= Len(p) /\ i <= Len(q) => p[i] = q[i]
    BY <1>1
  <2>2. CASE Len(p) < Len(q)
    <3>1. Agree(p, q, Len(p))
      BY <1>0, <2>1, <2>2 DEF Agree
    <3>2. QED
      BY <2>2, <3>1 DEF PosLess
  <2>3. CASE Len(q) < Len(p)
    <3>1. Agree(q, p, Len(q))
      BY <1>0, <2>1, <2>3 DEF Agree
    <3>2. QED
      BY <2>3, <3>1 DEF PosLess
  <2>4. CASE Len(p) = Len(q)
    <3>1. \A i \in 1 .. Len(p) : p[i] = q[i]
      BY <1>0, <2>1, <2>4
    <3>2. QED
      BY <2>4, <3>1, SeqEqual
  <2>5. QED
    BY <1>0, <2>2, <2>3, <2>4
<1>2. CASE T # {}
  <2>1. PICK m \in T : \A n \in T : m <= n
    <3>. HIDE DEF T
    <3>1. QED
      BY <1>0, <1>2, LeastNumber
  <2>2. m \in 1 .. Len(p) /\ m \in 1 .. Len(q) /\ p[m] # q[m] /\ p[m] \in Ident /\ q[m] \in Ident
    BY <1>0, <2>1
  <2>3. Agree(p, q, m - 1) /\ Agree(q, p, m - 1)
    <3>1. SUFFICES ASSUME NEW i \in 1 .. (m - 1) PROVE p[i] = q[i]
      BY DEF Agree
    <3>2. i \notin T
      BY <1>0, <2>1, <2>2
    <3>3. QED
      BY <1>0, <2>2, <3>2
  <2>4. IdLess(p[m], q[m]) \/ IdLess(q[m], p[m])
    BY <2>2, IdLessOrder
  <2>5. QED
    BY <1>0, <2>2, <2>3, <2>4 DEF PosLess
<1>3. QED
  BY <1>1, <1>2

\* Induction, with a set in the place of the property.
LEMMA Counting ==
  ASSUME NEW S, 0 \in S, \A n \in Nat : n \in S => n + 1 \in S
  PROVE  Nat \subseteq S
<1>. SUFFICES ASSUME NEW a \in Nat, a \notin S PROVE FALSE
  OBVIOUS
<1>. DEFINE T == {k \in Nat : k \notin S}
<1>1. T \in SUBSET Nat /\ T # {}
  OBVIOUS
<1>2. PICK m \in T : \A n \in T : m <= n
  <2>. HIDE DEF T
  <2>1. QED
    BY <1>1, LeastNumber
<1>3. m \in Nat /\ m # 0 /\ m - 1 \in Nat /\ (m - 1) + 1 = m
  OBVIOUS
<1>4. m - 1 \in S
  BY <1>2, <1>3
<1>5. QED
  BY <1>3, <1>4

\* A symbol as a document holds it.
Symbol == [id : Nat \X Nat, pos : Position]

\* The symbols stand in the strict order of their positions.
Increasing(d) == \A i, j \in 1 .. Len(d) : i < j => PosLess(d[i].pos, d[j].pos)

\* Where the loop over the symbols of a message stands.
Place == {at \in [doc : Seq(Symbol), it : Nat, wild : BOOLEAN] :
            at.it \in 1 .. (Len(at.doc) + 1)}

\* The order of positions, of symbols.
LEMMA SymbolOrder ==
  ASSUME NEW r \in Symbol, NEW s \in Symbol, NEW t \in Symbol
  PROVE  /\ r.pos \in Position /\ r.pos \in Seq(Ident) /\ r.id \in Nat \X Nat
         /\ ~ PosLess(r.pos, r.pos)
         /\ PosLess(r.pos, s.pos) /\ PosLess(s.pos, t.pos) => PosLess(r.pos, t.pos)
         /\ r.pos = s.pos \/ PosLess(r.pos, s.pos) \/ PosLess(s.pos, r.pos)
         /\ PosLess(r.pos, s.pos) => ~ PosLess(s.pos, r.pos)
<1>1. r.pos \in Position /\ s.pos \in Position /\ t.pos \in Position /\ r.id \in Nat \X Nat
  BY DEF Symbol
<1>2. r.pos \in Seq(Ident) /\ s.pos \in Seq(Ident) /\ t.pos \in Seq(Ident)
  BY <1>1 DEF Position
<1>3. QED
  BY <1>1, <1>2, PosIrreflexive, PosTransitive, PosTotal

\* Neighbours in order is all in order.
LEMMA SortedIncreasing ==
  ASSUME NEW d \in Seq(Symbol)
  PROVE  SortedDoc(d) <=> Increasing(d)
<1>1. Len(d) \in Nat /\ \A i \in 1 .. Len(d) : d[i] \in Symbol
  OBVIOUS
<1>2. Increasing(d) => SortedDoc(d)
  BY <1>1 DEF Increasing, SortedDoc
<1>3. ASSUME SortedDoc(d) PROVE Increasing(d)
  <2>. DEFINE P(n) == \A i \in 1 .. Len(d) : i + n + 1 <= Len(d) => PosLess(d[i].pos, d[i + n + 1].pos)
  <2>1. P(0)
    BY <1>1, <1>3 DEF SortedDoc
  <2>2. ASSUME NEW n \in Nat, P(n) PROVE P(n + 1)
    <3>1. SUFFICES ASSUME NEW i \in 1 .. Len(d), i + (n + 1) + 1 <= Len(d)
                   PROVE  PosLess(d[i].pos, d[i + (n + 1) + 1].pos)
      OBVIOUS
    <3>2. i + n + 1 \in 1 .. (Len(d) - 1) /\ (i + n + 1) + 1 = i + (n + 1) + 1
          /\ i + n + 1 \in 1 .. Len(d) /\ i + (n + 1) + 1 \in 1 .. Len(d)
      BY <1>1, <3>1
    <3>3. PosLess(d[i].pos, d[i + n + 1].pos)
      BY <1>1, <2>2, <3>2
    <3>4. PosLess(d[i + n + 1].pos, d[i + (n + 1) + 1].pos)
      BY <1>3, <3>2 DEF SortedDoc
    <3>5. d[i] \in Symbol /\ d[i + n + 1] \in Symbol /\ d[i + (n + 1) + 1] \in Symbol
      BY <1>1, <3>2
    <3>6. QED
      BY <3>3, <3>4, <3>5, SymbolOrder
  <2>3. \A n \in Nat : P(n)
    <3>. DEFINE S == {n \in Nat : P(n)}
    <3>. HIDE DEF P
    <3>1. 0 \in S /\ \A n \in Nat : n \in S => n + 1 \in S
      BY <2>1, <2>2
    <3>. HIDE DEF S
    <3>2. Nat \subseteq S
      BY <3>1, Counting
    <3>3. QED
      BY <3>2 DEF S
  <2>4. QED
    <3>1. SUFFICES ASSUME NEW i \in 1 .. Len(d), NEW j \in 1 .. Len(d), i < j
                   PROVE  PosLess(d[i].pos, d[j].pos)
      BY DEF Increasing
    <3>2. j - i - 1 \in Nat /\ i + (j - i - 1) + 1 = j
      BY <1>1, <3>1
    <3>3. P(j - i - 1)
      BY <2>3, <3>2
    <3>4. QED
      BY <3>2, <3>3
<1>4. QED
  BY <1>2, <1>3

\* A larger set types the same sequences.
LEMMA Larger ==
  ASSUME NEW S, NEW T, S \subseteq T, NEW s \in Seq(S)
  PROVE  s \in Seq(T)
  OBVIOUS

\* What Append does to a sequence.
LEMMA AppendFacts ==
  ASSUME NEW S, NEW s \in Seq(S), NEW m
  PROVE  /\ Append(s, m) \in Seq(S \cup {m}) /\ Len(s) \in Nat
         /\ Len(Append(s, m)) = Len(s) + 1
         /\ \A i \in 1 .. Len(s) : Append(s, m)[i] = s[i]
         /\ Append(s, m)[Len(s) + 1] = m
<1>1. s \in Seq(S \cup {m})
  BY Larger
<1>2. QED
  BY <1>1

\* What concatenation does to sequences over different sets.
LEMMA ConcatFacts ==
  ASSUME NEW S, NEW s \in Seq(S), NEW T, NEW t \in Seq(T)
  PROVE  /\ s \o t \in Seq(S \cup T) /\ Len(s) \in Nat /\ Len(t) \in Nat
         /\ Len(s \o t) = Len(s) + Len(t)
         /\ \A i \in 1 .. Len(s) : (s \o t)[i] = s[i]
         /\ \A i \in (Len(s) + 1) .. (Len(s) + Len(t)) : (s \o t)[i] = t[i - Len(s)]
<1>1. s \in Seq(S \cup T) /\ t \in Seq(S \cup T)
  BY Larger
<1>2. QED
  BY <1>1

\* What is left of a sequence without its first element.
LEMMA TailFacts ==
  ASSUME NEW S, NEW s \in Seq(S), s # << >>
  PROVE  /\ Tail(s) \in Seq(S) /\ Len(s) \in Nat \ {0}
         /\ Len(Tail(s)) = Len(s) - 1
         /\ \A i \in 1 .. (Len(s) - 1) : Tail(s)[i] = s[i + 1] /\ i + 1 \in 1 .. Len(s)
         /\ Len(s) > 1 => Len(s) - 1 \in 1 .. (Len(s) - 1) /\ Tail(s)[Len(s) - 1] = s[Len(s)]
         /\ Head(s) = s[1]
  OBVIOUS

\* What concatenation does to sequences over one set.
LEMMA Joined ==
  ASSUME NEW S, NEW s \in Seq(S), NEW t \in Seq(S)
  PROVE  /\ s \o t \in Seq(S) /\ Len(s) \in Nat /\ Len(t) \in Nat
         /\ Len(s \o t) = Len(s) + Len(t)
         /\ \A i \in 1 .. Len(s) : (s \o t)[i] = s[i]
         /\ \A i \in (Len(s) + 1) .. (Len(s) + Len(t)) : (s \o t)[i] = t[i - Len(s)]
  OBVIOUS

\* What is in a sequence.
LEMMA InRange ==
  ASSUME NEW S, NEW d \in Seq(S)
  PROVE  /\ Len(d) \in Nat
         /\ \A j \in 1 .. Len(d) : d[j] \in S /\ d[j] \in Range(d)
         /\ \A x : x \in Range(d) <=> \E j \in 1 .. Len(d) : d[j] = x
         /\ Range(d) \subseteq S
<1>1. Len(d) \in Nat /\ DOMAIN d = 1 .. Len(d) /\ \A j \in 1 .. Len(d) : d[j] \in S
  OBVIOUS
<1>2. QED
  BY <1>1 DEF Range

\* Two documents in order with the same symbols agree as far as the first goes.
LEMMA AgreeSoFar ==
  ASSUME NEW d \in Seq(Symbol), NEW e \in Seq(Symbol), Increasing(d), Increasing(e),
         Range(d) = Range(e)
  PROVE  \A i \in 1 .. Len(d) : i <= Len(e) /\ d[i] = e[i]
<1>. DEFINE T == {i \in Nat : i \in 1 .. Len(d) /\ ~ (i <= Len(e) /\ d[i] = e[i])}
<1>0. /\ Len(d) \in Nat /\ Len(e) \in Nat
      /\ \A i \in 1 .. Len(d) : d[i] \in Symbol /\ d[i] \in Range(e)
      /\ \A i \in 1 .. Len(e) : e[i] \in Symbol /\ e[i] \in Range(d)
      /\ \A x : x \in Range(d) => \E j \in 1 .. Len(d) : d[j] = x
      /\ \A x : x \in Range(e) => \E j \in 1 .. Len(e) : e[j] = x
  BY InRange
<1>1. SUFFICES ASSUME T # {} PROVE FALSE
  BY <1>0
<1>2. PICK i \in T : \A n \in T : i <= n
  <2>1. T \in SUBSET Nat
    OBVIOUS
  <2>. HIDE DEF T
  <2>2. QED
    BY <1>1, <2>1, LeastNumber
<1>3. i \in 1 .. Len(d) /\ ~ (i <= Len(e) /\ d[i] = e[i])
  OBVIOUS
<1>4. \A j \in 1 .. (i - 1) : j \in 1 .. Len(e) /\ j \in 1 .. Len(d) /\ d[j] = e[j]
  <2>1. SUFFICES ASSUME NEW j \in 1 .. (i - 1)
                 PROVE  j \in 1 .. Len(e) /\ j \in 1 .. Len(d) /\ d[j] = e[j]
    OBVIOUS
  <2>2. j \in Nat /\ j < i /\ j \notin T
    BY <1>0, <1>2, <1>3
  <2>3. QED
    BY <1>0, <1>3, <2>2
<1>5. PICK k \in 1 .. Len(e) : e[k] = d[i]
  BY <1>0, <1>3
<1>6. ~ (k < i)
  <2>1. SUFFICES ASSUME k < i PROVE FALSE
    OBVIOUS
  <2>2. k \in 1 .. (i - 1)
    BY <1>3, <1>5, <2>1
  <2>3. PosLess(d[k].pos, d[i].pos) /\ d[k] = d[i]
    BY <1>3, <1>4, <1>5, <2>1, <2>2 DEF Increasing
  <2>4. QED
    BY <1>0, <1>3, <2>3, SymbolOrder
<1>7. k > i /\ i \in 1 .. Len(e)
  BY <1>0, <1>3, <1>5, <1>6
<1>8. PosLess(e[i].pos, d[i].pos)
  BY <1>5, <1>7 DEF Increasing
<1>9. PICK l \in 1 .. Len(d) : d[l] = e[i]
  BY <1>0, <1>7
<1>10. ~ (l < i)
  <2>1. SUFFICES ASSUME l < i PROVE FALSE
    OBVIOUS
  <2>2. l \in 1 .. (i - 1)
    BY <1>3, <1>9, <2>1
  <2>3. PosLess(e[l].pos, e[i].pos) /\ e[l] = e[i]
    BY <1>4, <1>7, <1>9, <2>1, <2>2 DEF Increasing
  <2>4. QED
    BY <1>0, <1>7, <2>3, SymbolOrder
<1>11. d[l] = d[i] \/ PosLess(d[i].pos, d[l].pos)
  BY <1>0, <1>3, <1>9, <1>10 DEF Increasing
<1>12. d[i] \in Symbol /\ e[i] \in Symbol
  BY <1>0, <1>3, <1>7
<1>13. QED
  BY <1>8, <1>9, <1>11, <1>12, SymbolOrder

\* A document in order is determined by its symbols.
LEMMA SameContent ==
  ASSUME NEW d \in Seq(Symbol), NEW e \in Seq(Symbol), Increasing(d), Increasing(e),
         Range(d) = Range(e)
  PROVE  d = e
<1>1. \A i \in 1 .. Len(d) : i <= Len(e) /\ d[i] = e[i]
  BY AgreeSoFar
<1>2. \A i \in 1 .. Len(e) : i <= Len(d) /\ e[i] = d[i]
  BY AgreeSoFar
<1>3. Len(d) \in Nat /\ Len(e) \in Nat
  OBVIOUS
<1>4. Len(d) = Len(e)
  <2>1. Len(d) > 0 => Len(d) <= Len(e)
    BY <1>1, <1>3
  <2>2. Len(e) > 0 => Len(e) <= Len(d)
    BY <1>2, <1>3
  <2>3. QED
    BY <1>3, <2>1, <2>2
<1>5. QED
  BY <1>1, <1>4, SeqEqual

\* The list with a symbol put in before the i-th.
LEMMA EmplaceFacts ==
  ASSUME NEW S, NEW d \in Seq(S), NEW s \in S, NEW i \in 1 .. (Len(d) + 1)
  PROVE  LET e == Emplace(d, i, s)
         IN  /\ e \in Seq(S) /\ Len(e) = Len(d) + 1 /\ Len(d) \in Nat
             /\ \A j \in 1 .. (i - 1) : e[j] = d[j]
             /\ e[i] = s
             /\ \A j \in (i + 1) .. (Len(d) + 1) : e[j] = d[j - 1]
             /\ Range(e) = Range(d) \cup {s}
<1>. DEFINE a == SubSeq(d, 1, i - 1)
            b == SubSeq(d, i, Len(d))
            e == Emplace(d, i, s)
<1>1. Len(d) \in Nat /\ i \in Nat
  OBVIOUS
<1>2. a \in Seq(S) /\ Len(a) = i - 1 /\ \A j \in 1 .. (i - 1) : a[j] = d[j]
  BY <1>1
<1>3. b \in Seq(S) /\ Len(b) = Len(d) + 1 - i /\ \A j \in 1 .. (Len(d) + 1 - i) : b[j] = d[i + j - 1]
  BY <1>1
<1>4. <<s>> \in Seq(S) /\ Len(<<s>>) = 1 /\ <<s>>[1] = s
  OBVIOUS
<1>. DEFINE c == a \o <<s>>
<1>5. e = c \o b
  BY DEF Emplace
<1>. HIDE DEF a, b, e
<1>6. /\ c \in Seq(S) /\ Len(c) = i
      /\ \A j \in 1 .. (i - 1) : c[j] = d[j]
      /\ c[i] = s
  BY <1>1, <1>2, <1>4
<1>. HIDE DEF c
<1>7. /\ e \in Seq(S) /\ Len(e) = Len(d) + 1
      /\ \A j \in 1 .. i : e[j] = c[j]
      /\ \A j \in (i + 1) .. (Len(d) + 1) : e[j] = b[j - i]
  <2>2. /\ c \o b \in Seq(S) /\ Len(c \o b) = Len(c) + Len(b)
        /\ \A j \in 1 .. Len(c) : (c \o b)[j] = c[j]
        /\ \A j \in (Len(c) + 1) .. (Len(c) + Len(b)) : (c \o b)[j] = b[j - Len(c)]
    BY <1>3, <1>6, Joined
  <2>3. Len(c) + Len(b) = Len(d) + 1
    BY <1>1, <1>3, <1>6
  <2>4. QED
    BY <1>5, <1>6, <2>2, <2>3
<1>8. /\ \A j \in 1 .. (i - 1) : e[j] = d[j]
      /\ e[i] = s
  BY <1>1, <1>6, <1>7
<1>9. ASSUME NEW j \in (i + 1) .. (Len(d) + 1) PROVE e[j] = d[j - 1]
  <2>1. j - i \in 1 .. (Len(d) + 1 - i) /\ i + (j - i) - 1 = j - 1
    BY <1>1
  <2>2. QED
    BY <1>3, <1>7, <2>1
<1>10. Range(e) = Range(d) \cup {s}
  <2>1. ASSUME NEW j \in 1 .. Len(e) PROVE e[j] \in Range(d) \cup {s}
    <3>1. CASE j < i
      BY <1>1, <1>7, <1>8, <3>1 DEF Range
    <3>2. CASE j > i
      <4>1. j \in (i + 1) .. (Len(d) + 1) /\ j - 1 \in 1 .. Len(d)
        BY <1>1, <1>7, <3>2
      <4>2. QED
        BY <1>9, <4>1 DEF Range
    <3>3. QED
      BY <1>1, <1>8, <3>1, <3>2
  <2>2. ASSUME NEW j \in 1 .. Len(d) PROVE d[j] \in Range(e)
    <3>1. CASE j < i
      BY <1>1, <1>7, <1>8, <3>1 DEF Range
    <3>2. CASE ~ (j < i)
      <4>1. j + 1 \in (i + 1) .. (Len(d) + 1) /\ j + 1 \in 1 .. Len(e) /\ (j + 1) - 1 = j
        BY <1>1, <1>7, <3>2
      <4>2. e[j + 1] = d[j]
        BY <1>9, <4>1
      <4>3. QED
        BY <1>7, <4>1, <4>2 DEF Range
    <3>3. QED
      BY <3>1, <3>2
  <2>3. s \in Range(e)
    BY <1>1, <1>7, <1>8 DEF Range
  <2>4. \A x : x \in Range(e) <=> \E j \in 1 .. Len(e) : e[j] = x
    BY <1>7, InRange
  <2>5. \A x : x \in Range(d) <=> \E j \in 1 .. Len(d) : d[j] = x
    BY InRange
  <2>6. QED
    BY <2>1, <2>2, <2>3, <2>4, <2>5
<1>11. QED
  BY <1>1, <1>7, <1>8, <1>9, <1>10 DEF e

\* The same of a document and one of its symbols.
LEMMA EmplaceInDocument ==
  ASSUME NEW d \in Seq(Symbol), NEW s \in Symbol, NEW i \in 1 .. (Len(d) + 1)
  PROVE  LET e == Emplace(d, i, s)
         IN  /\ e \in Seq(Symbol) /\ Len(e) = Len(d) + 1 /\ Len(d) \in Nat
             /\ \A j \in 1 .. (i - 1) : e[j] = d[j]
             /\ e[i] = s
             /\ \A j \in (i + 1) .. (Len(d) + 1) : e[j] = d[j - 1]
             /\ Range(e) = Range(d) \cup {s}
BY EmplaceFacts

\* The list without its i-th symbol.
LEMMA RemoveFacts ==
  ASSUME NEW S, NEW d \in Seq(S), NEW i \in 1 .. Len(d)
  PROVE  LET e == RemoveAt(d, i)
         IN  /\ e \in Seq(S) /\ Len(e) = Len(d) - 1 /\ Len(d) \in Nat
             /\ \A j \in 1 .. (i - 1) : e[j] = d[j]
             /\ \A j \in i .. (Len(d) - 1) : e[j] = d[j + 1]
<1>. DEFINE a == SubSeq(d, 1, i - 1)
            b == SubSeq(d, i + 1, Len(d))
            e == RemoveAt(d, i)
<1>1. Len(d) \in Nat /\ i \in Nat
  OBVIOUS
<1>2. a \in Seq(S) /\ Len(a) = i - 1 /\ \A j \in 1 .. (i - 1) : a[j] = d[j]
  BY <1>1
<1>3. b \in Seq(S) /\ Len(b) = Len(d) - i /\ \A j \in 1 .. (Len(d) - i) : b[j] = d[i + j]
  BY <1>1
<1>4. e = a \o b
  BY DEF RemoveAt
<1>. HIDE DEF a, b, e
<1>5. /\ e \in Seq(S) /\ Len(e) = Len(d) - 1
      /\ \A j \in 1 .. (i - 1) : e[j] = a[j]
      /\ \A j \in i .. (Len(d) - 1) : e[j] = b[j - (i - 1)]
  <2>2. /\ a \o b \in Seq(S) /\ Len(a \o b) = Len(a) + Len(b)
        /\ \A j \in 1 .. Len(a) : (a \o b)[j] = a[j]
        /\ \A j \in (Len(a) + 1) .. (Len(a) + Len(b)) : (a \o b)[j] = b[j - Len(a)]
    BY <1>2, <1>3, Joined
  <2>3. Len(a) + Len(b) = Len(d) - 1 /\ (i - 1) + 1 = i
    BY <1>1, <1>2, <1>3
  <2>4. QED
    BY <1>4, <1>2, <2>2, <2>3
<1>6. ASSUME NEW j \in i .. (Len(d) - 1) PROVE e[j] = d[j + 1]
  <2>1. j - (i - 1) \in 1 .. (Len(d) - i) /\ i + (j - (i - 1)) = j + 1
    BY <1>1
  <2>2. QED
    BY <1>3, <1>5, <2>1
<1>7. QED
  BY <1>1, <1>2, <1>5, <1>6 DEF e

\* e is d with s put in before the i-th symbol.
Emplaced(d, i, s, e) ==
  /\ Len(e) = Len(d) + 1
  /\ \A j \in 1 .. (i - 1) : e[j] = d[j]
  /\ e[i] = s
  /\ \A j \in (i + 1) .. (Len(d) + 1) : e[j] = d[j - 1]

\* What Emplace does to a list of symbols.
LEMMA EmplaceSymbol ==
  ASSUME NEW d \in Seq(Symbol), NEW s \in Symbol, NEW i \in 1 .. (Len(d) + 1)
  PROVE  Emplace(d, i, s) \in Seq(Symbol) /\ Emplaced(d, i, s, Emplace(d, i, s))
<1>. DEFINE e == Emplace(d, i, s)
<1>1. /\ e \in Seq(Symbol) /\ Len(e) = Len(d) + 1 /\ Len(d) \in Nat
      /\ \A j \in 1 .. (i - 1) : e[j] = d[j]
      /\ e[i] = s
      /\ \A j \in (i + 1) .. (Len(d) + 1) : e[j] = d[j - 1]
      /\ Range(e) = Range(d) \cup {s}
  BY EmplaceFacts
<1>. HIDE DEF e
<1>2. QED
  BY <1>1 DEF Emplaced, e

\* A search from n on ends at the first index of T, or past the end.
LEMMA FirstFound ==
  ASSUME NEW m \in Nat, NEW n \in 1 .. (m + 1), NEW T
  PROVE  \E i \in n .. (m + 1) : /\ i <= m => i \in T
                                 /\ \A j \in n .. (i - 1) : j \notin T
<1>. DEFINE K == {k \in Nat : k \in n .. (m + 1) /\ (k <= m => k \in T)}
<1>1. K \in SUBSET Nat /\ m + 1 \in K
  OBVIOUS
<1>2. PICK i \in K : \A k \in K : i <= k
  <2>. HIDE DEF K
  <2>1. QED
    BY <1>1, LeastNumber
<1>3. ASSUME NEW j \in n .. (i - 1) PROVE j \notin T
  <2>1. j \in Nat /\ j < i /\ j \notin K
    BY <1>2
  <2>2. QED
    BY <2>1
<1>4. QED
  BY <1>3

\* remoteInsert puts the symbol before the first that is larger.
LEMMA RemoteInsertAt ==
  ASSUME NEW at \in Place, NEW sym \in Symbol
  PROVE  \E i \in at.it .. (Len(at.doc) + 1) :
           /\ RemoteInsert(at, sym) = [doc |-> Emplace(at.doc, i, sym), it |-> i, wild |-> at.wild]
           /\ i <= Len(at.doc) => SymLess(sym, at.doc[i])
           /\ \A j \in at.it .. (i - 1) : ~ SymLess(sym, at.doc[j])
<1>. DEFINE Stops(i) == /\ i <= Len(at.doc) => SymLess(sym, at.doc[i])
                       /\ \A j \in at.it .. (i - 1) : ~ SymLess(sym, at.doc[j])
            n == CHOOSE i \in at.it .. (Len(at.doc) + 1) : Stops(i)
            T == {j \in Nat : SymLess(sym, at.doc[j])}
<1>1. /\ at \in [doc : Seq(Symbol), it : Nat, wild : BOOLEAN]
      /\ Len(at.doc) \in Nat /\ at.it \in 1 .. (Len(at.doc) + 1)
  BY DEF Place
<1>2. \E k \in at.it .. (Len(at.doc) + 1) : /\ k <= Len(at.doc) => k \in T
                                            /\ \A j \in at.it .. (k - 1) : j \notin T
  <2>. DEFINE m == Len(at.doc)
              f == at.it
  <2>1. m \in Nat /\ f \in 1 .. (m + 1)
    BY <1>1
  <2>. HIDE DEF T, m, f
  <2>2. \E k \in f .. (m + 1) : /\ k <= m => k \in T
                                /\ \A j \in f .. (k - 1) : j \notin T
    BY <2>1, FirstFound
  <2>3. QED
    BY <2>2 DEF m, f
<1>3. \E k \in at.it .. (Len(at.doc) + 1) : Stops(k)
  BY <1>1, <1>2
<1>4. RemoteInsert(at, sym) = [at EXCEPT !.doc = Emplace(at.doc, n, sym), !.it = n]
  BY DEF RemoteInsert, FirstFrom
<1>5. n \in at.it .. (Len(at.doc) + 1) /\ Stops(n)
  <2>. HIDE DEF Stops
  <2>1. QED
    BY <1>3
<1>. HIDE DEF n
<1>6. RemoteInsert(at, sym) = [doc |-> Emplace(at.doc, n, sym), it |-> n, wild |-> at.wild]
  BY <1>1, <1>4
<1>7. QED
  BY <1>5, <1>6

\* remoteDelete erases the first symbol with the identifier, from the iterator
\* on, or leaves the list and the iterator as they are.
LEMMA RemoteDeleteAt ==
  ASSUME NEW at \in Place, NEW id
  PROVE  LET r == RemoteDelete(at, id)
         IN  \/ \E n \in at.it .. Len(at.doc) :
                  /\ r = [doc |-> RemoveAt(at.doc, n), it |-> n, wild |-> at.wild]
                  /\ at.doc[n].id = id
             \/ /\ \A j \in at.it .. Len(at.doc) : at.doc[j].id # id
                /\ r \in Place /\ r.doc = at.doc /\ r.it = at.it
<1>. DEFINE Stops(i) == /\ i <= Len(at.doc) => at.doc[i].id = id
                       /\ \A j \in at.it .. (i - 1) : ~ (at.doc[j].id = id)
            n == CHOOSE i \in at.it .. (Len(at.doc) + 1) : Stops(i)
            T == {j \in Nat : at.doc[j].id = id}
<1>1. /\ at \in [doc : Seq(Symbol), it : Nat, wild : BOOLEAN]
      /\ Len(at.doc) \in Nat /\ at.it \in 1 .. (Len(at.doc) + 1)
  BY DEF Place
<1>2. \E k \in at.it .. (Len(at.doc) + 1) : /\ k <= Len(at.doc) => k \in T
                                            /\ \A j \in at.it .. (k - 1) : j \notin T
  <2>. DEFINE m == Len(at.doc)
              f == at.it
  <2>1. m \in Nat /\ f \in 1 .. (m + 1)
    BY <1>1
  <2>. HIDE DEF T, m, f
  <2>2. \E k \in f .. (m + 1) : /\ k <= m => k \in T
                                /\ \A j \in f .. (k - 1) : j \notin T
    BY <2>1, FirstFound
  <2>3. QED
    BY <2>2 DEF m, f
<1>3. \E k \in at.it .. (Len(at.doc) + 1) : Stops(k)
  BY <1>1, <1>2
<1>4. RemoteDelete(at, id) =
        CASE n <= Len(at.doc) -> [at EXCEPT !.doc = RemoveAt(at.doc, n), !.it = n]
          [] at.it > Len(at.doc) /\ id = EndNodeId(at.doc) -> [at EXCEPT !.wild = TRUE]
          [] OTHER -> at
  BY DEF RemoteDelete, FirstFrom
<1>5. n \in at.it .. (Len(at.doc) + 1) /\ Stops(n)
  <2>. HIDE DEF Stops
  <2>1. QED
    BY <1>3
<1>. HIDE DEF n
<1>6. CASE n <= Len(at.doc)
  <2>1. ~ (at.it > Len(at.doc))
    BY <1>1, <1>5, <1>6
  <2>2. RemoteDelete(at, id) = [at EXCEPT !.doc = RemoveAt(at.doc, n), !.it = n]
    BY <1>4, <1>6, <2>1
  <2>3. RemoteDelete(at, id) = [doc |-> RemoveAt(at.doc, n), it |-> n, wild |-> at.wild]
    BY <1>1, <2>2
  <2>4. QED
    BY <1>1, <1>5, <1>6, <2>3
<1>7. CASE ~ (n <= Len(at.doc))
  <2>1. n = Len(at.doc) + 1
    BY <1>1, <1>5, <1>7
  <2>2. \A j \in at.it .. Len(at.doc) : at.doc[j].id # id
    BY <1>1, <1>5, <2>1
  <2>3. RemoteDelete(at, id) = [at EXCEPT !.wild = TRUE] \/ RemoteDelete(at, id) = at
    BY <1>4, <1>7
  <2>4. [at EXCEPT !.wild = TRUE] \in Place /\ [at EXCEPT !.wild = TRUE].doc = at.doc
        /\ [at EXCEPT !.wild = TRUE].it = at.it
    BY <1>1 DEF Place
  <2>5. QED
    BY <2>2, <2>3, <2>4
<1>8. QED
  BY <1>6, <1>7

\* A symbol between those before and those after it leaves a list in order.
LEMMA IncreasingAround ==
  ASSUME NEW d \in Seq(Symbol), NEW e \in Seq(Symbol), NEW i \in 1 .. (Len(d) + 1), NEW sym \in Symbol,
         Increasing(d), Len(e) = Len(d) + 1,
         \A j \in 1 .. (i - 1) : e[j] = d[j],
         e[i] = sym,
         \A j \in (i + 1) .. (Len(d) + 1) : e[j] = d[j - 1],
         \A j \in 1 .. (i - 1) : PosLess(d[j].pos, sym.pos),
         \A j \in i .. Len(d) : PosLess(sym.pos, d[j].pos)
  PROVE  Increasing(e)
<1>0. Len(d) \in Nat /\ i \in Nat
  OBVIOUS
<1>1. SUFFICES ASSUME NEW a \in 1 .. Len(e), NEW b \in 1 .. Len(e), a < b
               PROVE  PosLess(e[a].pos, e[b].pos)
  BY DEF Increasing
<1>2. CASE b < i
  <2>1. a \in 1 .. (i - 1) /\ b \in 1 .. (i - 1) /\ a \in 1 .. Len(d) /\ b \in 1 .. Len(d)
    BY <1>0, <1>1, <1>2
  <2>2. QED
    BY <1>1, <2>1 DEF Increasing
<1>3. CASE b = i
  <2>1. a \in 1 .. (i - 1)
    BY <1>0, <1>1, <1>3
  <2>2. QED
    BY <1>3, <2>1
<1>4. CASE b > i /\ a < i
  <2>1. a \in 1 .. (i - 1) /\ b \in (i + 1) .. (Len(d) + 1) /\ a \in 1 .. Len(d)
        /\ b - 1 \in 1 .. Len(d) /\ a < b - 1
    BY <1>0, <1>1, <1>4
  <2>2. QED
    BY <2>1 DEF Increasing
<1>5. CASE b > i /\ a = i
  <2>1. b \in (i + 1) .. (Len(d) + 1) /\ b - 1 \in i .. Len(d)
    BY <1>0, <1>1, <1>5
  <2>2. QED
    BY <1>5, <2>1
<1>6. CASE b > i /\ a > i
  <2>1. b \in (i + 1) .. (Len(d) + 1) /\ a \in (i + 1) .. (Len(d) + 1)
        /\ b - 1 \in 1 .. Len(d) /\ a - 1 \in 1 .. Len(d) /\ a - 1 < b - 1
    BY <1>0, <1>1, <1>6
  <2>2. QED
    BY <2>1 DEF Increasing
<1>7. QED
  BY <1>0, <1>1, <1>2, <1>3, <1>4, <1>5, <1>6

\* A symbol whose position no symbol of a document has, put in where the search
\* from it ends, leaves the document in order.
LEMMA InsertStep ==
  ASSUME NEW at \in Place, NEW sym \in Symbol, Increasing(at.doc),
         \A s \in Range(at.doc) : s.pos # sym.pos,
         \A j \in 1 .. (at.it - 1) : PosLess(at.doc[j].pos, sym.pos)
  PROVE  LET r == RemoteInsert(at, sym)
         IN  /\ r \in Place /\ Increasing(r.doc)
             /\ Range(r.doc) = Range(at.doc) \cup {sym}
             /\ \A j \in 1 .. (r.it - 1) : r.doc[j] \in Range(at.doc) /\ PosLess(r.doc[j].pos, sym.pos)
<1>. DEFINE d == at.doc
<1>1. /\ at \in [doc : Seq(Symbol), it : Nat, wild : BOOLEAN] /\ d \in Seq(Symbol)
      /\ Len(d) \in Nat /\ at.it \in 1 .. (Len(d) + 1)
      /\ \A j \in 1 .. Len(d) : d[j] \in Symbol /\ d[j] \in Range(d)
  BY InRange DEF Place
<1>2. PICK i \in at.it .. (Len(d) + 1) :
           /\ RemoteInsert(at, sym) = [doc |-> Emplace(d, i, sym), it |-> i, wild |-> at.wild]
           /\ i <= Len(d) => SymLess(sym, d[i])
           /\ \A j \in at.it .. (i - 1) : ~ SymLess(sym, d[j])
  BY RemoteInsertAt
<1>. DEFINE e == Emplace(d, i, sym)
<1>3. i \in 1 .. (Len(d) + 1)
  BY <1>1, <1>2
<1>4. /\ e \in Seq(Symbol) /\ Len(e) = Len(d) + 1
      /\ \A j \in 1 .. (i - 1) : e[j] = d[j]
      /\ e[i] = sym
      /\ \A j \in (i + 1) .. (Len(d) + 1) : e[j] = d[j - 1]
      /\ Range(e) = Range(d) \cup {sym}
  BY <1>1, <1>3, EmplaceFacts
<1>. HIDE DEF e
<1>5. ASSUME NEW j \in 1 .. (i - 1) PROVE PosLess(d[j].pos, sym.pos)
  <2>1. j \in 1 .. Len(d) /\ d[j].pos # sym.pos /\ d[j] \in Symbol
    BY <1>1, <1>3
  <2>2. CASE j < at.it
    BY <1>1, <2>1, <2>2
  <2>3. CASE ~ (j < at.it)
    <3>1. ~ SymLess(sym, d[j])
      BY <1>1, <1>2, <1>3, <2>3
    <3>2. ~ PosLess(sym.pos, d[j].pos)
      BY <2>1, <3>1 DEF SymLess
    <3>3. QED
      BY <2>1, <3>2, SymbolOrder
  <2>4. QED
    BY <2>2, <2>3
<1>6. ASSUME NEW j \in i .. Len(d) PROVE PosLess(sym.pos, d[j].pos)
  <2>1. j \in 1 .. Len(d) /\ i \in 1 .. Len(d) /\ d[j] \in Symbol /\ d[i] \in Symbol
        /\ d[i].pos # sym.pos
    BY <1>1, <1>3
  <2>2. PosLess(sym.pos, d[i].pos)
    BY <1>2, <2>1 DEF SymLess
  <2>3. i = j \/ PosLess(d[i].pos, d[j].pos)
    BY <2>1 DEF Increasing
  <2>4. QED
    BY <2>1, <2>2, <2>3, SymbolOrder
<1>7. Increasing(e)
  BY <1>1, <1>3, <1>4, <1>5, <1>6, IncreasingAround
<1>8. RemoteInsert(at, sym) \in Place
  <2>1. i \in Nat /\ i \in 1 .. (Len(e) + 1)
    BY <1>1, <1>3, <1>4
  <2>2. QED
    BY <1>1, <1>2, <1>4, <2>1 DEF Place, e
<1>9. \A j \in 1 .. (i - 1) : e[j] \in Range(d) /\ PosLess(e[j].pos, sym.pos)
  BY <1>1, <1>3, <1>4, <1>5
<1>10. RemoteInsert(at, sym).doc = e /\ RemoteInsert(at, sym).it = i
  BY <1>2 DEF e
<1>11. QED
  BY <1>4, <1>7, <1>8, <1>9, <1>10

\* The largest of some of the first numbers.
LEMMA LargestIndex ==
  ASSUME NEW n \in Nat, NEW s \in SUBSET (1 .. (n + 1)), n + 1 \in s
  PROVE  Max(s) = n + 1
<1>1. n + 1 \in s /\ \A y \in s : n + 1 >= y
  OBVIOUS
<1>2. \A x \in s : (\A y \in s : x >= y) => x = n + 1
  BY <1>1
<1>3. QED
  BY <1>1, <1>2 DEF Max

\* The first numbers and the last of them.
LEMMA FirstNumbers ==
  ASSUME NEW n \in Nat, NEW i \in 1 .. n
  PROVE  /\ 1 .. i \in SUBSET (1 .. n) /\ 1 .. i # {} /\ i - 1 \in 0 .. n
         /\ (1 .. i) \ {i} = 1 .. (i - 1) /\ i \in 0 .. n /\ Max(1 .. i) = i
<1>1. i - 1 \in Nat /\ (i - 1) + 1 = i /\ i \in 1 .. i /\ i \in 0 .. n /\ i - 1 \in 0 .. n
  OBVIOUS
<1>2. \A x : x \in 1 .. i => x \in 1 .. n
  OBVIOUS
<1>3. \A x : x \in (1 .. i) \ {i} <=> x \in 1 .. (i - 1)
  OBVIOUS
<1>4. Max(1 .. i) = i
  BY <1>1, LargestIndex
<1>5. QED
  BY <1>1, <1>2, <1>3, <1>4

\* The loop over the symbols of an insertion, one after the other.
LEMMA InsertFold ==
  ASSUME NEW doc, NEW syms \in Seq(Symbol)
  PROVE  \E g : /\ g[0] = AtStart(doc)
                /\ \A i \in 1 .. Len(syms) : g[i] = RemoteInsert(g[i - 1], syms[i])
                /\ RemoteInsertAll(doc, syms) = g[Len(syms)].doc
<1>. DEFINE Is(F, n) == F = [s \in SUBSET (1 .. n) |->
                              IF s = {} THEN AtStart(doc)
                              ELSE RemoteInsert(F[s \ {Max(s)}], syms[Max(s)])]
            S == {n \in Nat : \E F : Is(F, n)}
<1>0. Len(syms) \in Nat /\ DOMAIN syms = 1 .. Len(syms)
  OBVIOUS
<1>1. 0 \in S
  <2>. DEFINE F == [s \in SUBSET (1 .. 0) |-> AtStart(doc)]
  <2>1. \A s \in SUBSET (1 .. 0) : s = {}
    OBVIOUS
  <2>2. Is(F, 0)
    BY <2>1
  <2>3. QED
    BY <2>2
<1>2. ASSUME NEW n \in Nat, n \in S PROVE n + 1 \in S
  <2>1. PICK F : Is(F, n)
    BY <1>2
  <2>. DEFINE G == [s \in SUBSET (1 .. (n + 1)) |->
                     IF n + 1 \in s THEN RemoteInsert(F[s \ {n + 1}], syms[(n + 1)]) ELSE F[s]]
  <2>2. ASSUME NEW s \in SUBSET (1 .. (n + 1))
        PROVE  G[s] = IF s = {} THEN AtStart(doc) ELSE RemoteInsert(G[s \ {Max(s)}], syms[Max(s)])
    <3>1. CASE n + 1 \in s
      <4>1. Max(s) = n + 1 /\ s \ {n + 1} \in SUBSET (1 .. n)
            /\ s \ {n + 1} \in SUBSET (1 .. (n + 1)) /\ n + 1 \notin s \ {n + 1}
        BY <3>1, LargestIndex
      <4>2. G[s \ {n + 1}] = F[s \ {n + 1}]
        BY <4>1
      <4>3. G[s] = RemoteInsert(F[s \ {n + 1}], syms[(n + 1)])
        BY <3>1
      <4>4. QED
        BY <3>1, <4>1, <4>2, <4>3
    <3>2. CASE n + 1 \notin s
      <4>1. s \in SUBSET (1 .. n) /\ G[s] = F[s]
        BY <3>2
      <4>2. CASE s = {}
        <5>1. F[s] = AtStart(doc)
          BY <2>1, <4>1, <4>2
        <5>2. QED
          BY <4>1, <4>2, <5>1
      <4>3. CASE s # {}
        <5>1. s \ {Max(s)} \in SUBSET (1 .. (n + 1)) /\ n + 1 \notin s \ {Max(s)}
          BY <3>2
        <5>2. G[s \ {Max(s)}] = F[s \ {Max(s)}]
          BY <5>1
        <5>3. F[s] = RemoteInsert(F[s \ {Max(s)}], syms[Max(s)])
          BY <2>1, <4>1, <4>3
        <5>4. QED
          BY <4>1, <4>3, <5>2, <5>3
      <4>4. QED
        BY <4>2, <4>3
    <3>3. QED
      BY <3>1, <3>2
  <2>3. G = [s \in SUBSET (1 .. (n + 1)) |-> G[s]]
    OBVIOUS
  <2>. HIDE DEF G
  <2>4. Is(G, n + 1)
    BY <2>2, <2>3
  <2>. HIDE DEF Is
  <2>5. QED
    BY <2>4
<1>. HIDE DEF S
<1>3. Nat \subseteq S
  BY <1>1, <1>2, Counting
<1>4. \E F : Is(F, Len(syms))
  <2>. HIDE DEF Is
  <2>1. Len(syms) \in S
    BY <1>0, <1>3
  <2>2. QED
    BY <2>1 DEF S
<1>. DEFINE F == CHOOSE F : Is(F, Len(syms))
            g == [c \in 0 .. Len(syms) |-> F[1 .. c]]
<1>5. Is(F, Len(syms))
  <2>. HIDE DEF Is
  <2>1. QED
    BY <1>4
<1>6. RemoteInsertAll(doc, syms) = F[1 .. Len(syms)].doc
  BY <1>0 DEF RemoteInsertAll, FoldLeft, MapThenFoldSet
<1>. HIDE DEF F
<1>7. ASSUME NEW s \in SUBSET (1 .. Len(syms))
      PROVE  F[s] = IF s = {} THEN AtStart(doc) ELSE RemoteInsert(F[s \ {Max(s)}], syms[Max(s)])
  BY <1>5
<1>. HIDE DEF Is
<1>8. g[0] = AtStart(doc)
  <2>1. 1 .. 0 = {} /\ g[0] = F[1 .. 0]
    BY <1>0
  <2>2. QED
    BY <1>7, <2>1
<1>9. ASSUME NEW i \in 1 .. Len(syms) PROVE g[i] = RemoteInsert(g[i - 1], syms[i])
  <2>1. 1 .. i \in SUBSET (1 .. Len(syms)) /\ 1 .. i # {} /\ i - 1 \in 0 .. Len(syms)
        /\ (1 .. i) \ {i} = 1 .. (i - 1) /\ i \in 0 .. Len(syms) /\ Max(1 .. i) = i
    BY <1>0, FirstNumbers
  <2>3. F[1 .. i] = RemoteInsert(F[(1 .. i) \ {i}], syms[i])
    BY <1>7, <2>1
  <2>4. g[i] = F[1 .. i] /\ g[i - 1] = F[1 .. (i - 1)]
    BY <2>1
  <2>5. QED
    BY <2>1, <2>3, <2>4
<1>10. g[Len(syms)] = F[1 .. Len(syms)]
  BY <1>0
<1>11. QED
  BY <1>6, <1>8, <1>9, <1>10

\* The loop over the identifiers of a deletion.
LEMMA DeleteFold ==
  ASSUME NEW doc, NEW ids \in Seq(Nat \X Nat)
  PROVE  \E g : /\ g[0] = AtStart(doc)
                /\ \A i \in 1 .. Len(ids) : g[i] = RemoteDelete(g[i - 1], ids[i])
                /\ RemoteDeleteAll(doc, ids) = g[Len(ids)]
<1>. DEFINE Is(F, n) == F = [s \in SUBSET (1 .. n) |->
                              IF s = {} THEN AtStart(doc)
                              ELSE RemoteDelete(F[s \ {Max(s)}], ids[Max(s)])]
            S == {n \in Nat : \E F : Is(F, n)}
<1>0. Len(ids) \in Nat /\ DOMAIN ids = 1 .. Len(ids)
  OBVIOUS
<1>1. 0 \in S
  <2>. DEFINE F == [s \in SUBSET (1 .. 0) |-> AtStart(doc)]
  <2>1. \A s \in SUBSET (1 .. 0) : s = {}
    OBVIOUS
  <2>2. Is(F, 0)
    BY <2>1
  <2>3. QED
    BY <2>2
<1>2. ASSUME NEW n \in Nat, n \in S PROVE n + 1 \in S
  <2>1. PICK F : Is(F, n)
    BY <1>2
  <2>. DEFINE G == [s \in SUBSET (1 .. (n + 1)) |->
                     IF n + 1 \in s THEN RemoteDelete(F[s \ {n + 1}], ids[(n + 1)]) ELSE F[s]]
  <2>2. ASSUME NEW s \in SUBSET (1 .. (n + 1))
        PROVE  G[s] = IF s = {} THEN AtStart(doc) ELSE RemoteDelete(G[s \ {Max(s)}], ids[Max(s)])
    <3>1. CASE n + 1 \in s
      <4>1. Max(s) = n + 1 /\ s \ {n + 1} \in SUBSET (1 .. n)
            /\ s \ {n + 1} \in SUBSET (1 .. (n + 1)) /\ n + 1 \notin s \ {n + 1}
        BY <3>1, LargestIndex
      <4>2. G[s \ {n + 1}] = F[s \ {n + 1}]
        BY <4>1
      <4>3. G[s] = RemoteDelete(F[s \ {n + 1}], ids[(n + 1)])
        BY <3>1
      <4>4. QED
        BY <3>1, <4>1, <4>2, <4>3
    <3>2. CASE n + 1 \notin s
      <4>1. s \in SUBSET (1 .. n) /\ G[s] = F[s]
        BY <3>2
      <4>2. CASE s = {}
        <5>1. F[s] = AtStart(doc)
          BY <2>1, <4>1, <4>2
        <5>2. QED
          BY <4>1, <4>2, <5>1
      <4>3. CASE s # {}
        <5>1. s \ {Max(s)} \in SUBSET (1 .. (n + 1)) /\ n + 1 \notin s \ {Max(s)}
          BY <3>2
        <5>2. G[s \ {Max(s)}] = F[s \ {Max(s)}]
          BY <5>1
        <5>3. F[s] = RemoteDelete(F[s \ {Max(s)}], ids[Max(s)])
          BY <2>1, <4>1, <4>3
        <5>4. QED
          BY <4>1, <4>3, <5>2, <5>3
      <4>4. QED
        BY <4>2, <4>3
    <3>3. QED
      BY <3>1, <3>2
  <2>3. G = [s \in SUBSET (1 .. (n + 1)) |-> G[s]]
    OBVIOUS
  <2>. HIDE DEF G
  <2>4. Is(G, n + 1)
    BY <2>2, <2>3
  <2>. HIDE DEF Is
  <2>5. QED
    BY <2>4
<1>. HIDE DEF S
<1>3. Nat \subseteq S
  BY <1>1, <1>2, Counting
<1>4. \E F : Is(F, Len(ids))
  <2>. HIDE DEF Is
  <2>1. Len(ids) \in S
    BY <1>0, <1>3
  <2>2. QED
    BY <2>1 DEF S
<1>. DEFINE F == CHOOSE F : Is(F, Len(ids))
            g == [c \in 0 .. Len(ids) |-> F[1 .. c]]
<1>5. Is(F, Len(ids))
  <2>. HIDE DEF Is
  <2>1. QED
    BY <1>4
<1>6. RemoteDeleteAll(doc, ids) = F[1 .. Len(ids)]
  BY <1>0 DEF RemoteDeleteAll, FoldLeft, MapThenFoldSet
<1>. HIDE DEF F
<1>7. ASSUME NEW s \in SUBSET (1 .. Len(ids))
      PROVE  F[s] = IF s = {} THEN AtStart(doc) ELSE RemoteDelete(F[s \ {Max(s)}], ids[Max(s)])
  BY <1>5
<1>. HIDE DEF Is
<1>8. g[0] = AtStart(doc)
  <2>1. 1 .. 0 = {} /\ g[0] = F[1 .. 0]
    BY <1>0
  <2>2. QED
    BY <1>7, <2>1
<1>9. ASSUME NEW i \in 1 .. Len(ids) PROVE g[i] = RemoteDelete(g[i - 1], ids[i])
  <2>1. 1 .. i \in SUBSET (1 .. Len(ids)) /\ 1 .. i # {} /\ i - 1 \in 0 .. Len(ids)
        /\ (1 .. i) \ {i} = 1 .. (i - 1) /\ i \in 0 .. Len(ids) /\ Max(1 .. i) = i
    BY <1>0, FirstNumbers
  <2>3. F[1 .. i] = RemoteDelete(F[(1 .. i) \ {i}], ids[i])
    BY <1>7, <2>1
  <2>4. g[i] = F[1 .. i] /\ g[i - 1] = F[1 .. (i - 1)]
    BY <2>1
  <2>5. QED
    BY <2>1, <2>3, <2>4
<1>10. g[Len(ids)] = F[1 .. Len(ids)]
  BY <1>0
<1>11. QED
  BY <1>6, <1>8, <1>9, <1>10

\* Erasing the symbol with an identifier leaves the others, in order.
LEMMA DeleteStep ==
  ASSUME NEW at \in Place, NEW id \in Nat \X Nat, NEW p \in Seq(Ident), Increasing(at.doc),
         \A s \in Range(at.doc) : s.id = id => s.pos = p,
         \A j \in 1 .. (at.it - 1) : PosLess(at.doc[j].pos, p)
  PROVE  LET r == RemoteDelete(at, id)
         IN  /\ r \in Place /\ Increasing(r.doc)
             /\ Range(r.doc) = {s \in Range(at.doc) : s.id # id}
             /\ \A j \in 1 .. (r.it - 1) :
                   r.doc[j] \in Range(at.doc) /\ (j < at.it \/ PosLess(r.doc[j].pos, p))
                   /\ (j < at.it => r.doc[j] = at.doc[j])
<1>. DEFINE d == at.doc
            r == RemoteDelete(at, id)
<1>1. /\ at \in [doc : Seq(Symbol), it : Nat, wild : BOOLEAN] /\ d \in Seq(Symbol)
      /\ Len(d) \in Nat /\ at.it \in 1 .. (Len(d) + 1)
      /\ \A j \in 1 .. Len(d) : d[j] \in Symbol /\ d[j] \in Range(d)
      /\ \A x : x \in Range(d) <=> \E j \in 1 .. Len(d) : d[j] = x
  BY InRange DEF Place
<1>2. \A j \in 1 .. (at.it - 1) : d[j].id # id
  <2>1. SUFFICES ASSUME NEW j \in 1 .. (at.it - 1), d[j].id = id PROVE FALSE
    OBVIOUS
  <2>2. j \in 1 .. Len(d) /\ d[j] \in Symbol /\ d[j].pos = p /\ PosLess(d[j].pos, p)
    BY <1>1, <2>1
  <2>3. QED
    BY <2>2, SymbolOrder
<1>3. CASE /\ \A j \in at.it .. Len(d) : d[j].id # id
           /\ r \in Place /\ r.doc = d /\ r.it = at.it
  <2>1. \A j \in 1 .. Len(d) : d[j].id # id
    BY <1>1, <1>2, <1>3
  <2>2. Range(d) = {s \in Range(d) : s.id # id}
    BY <1>1, <2>1
  <2>3. QED
    BY <1>1, <1>3, <2>2
<1>4. ASSUME NEW i \in at.it .. Len(d),
             r = [doc |-> RemoveAt(d, i), it |-> i, wild |-> at.wild], d[i].id = id
      PROVE  /\ r \in Place /\ Increasing(r.doc)
             /\ Range(r.doc) = {s \in Range(d) : s.id # id}
             /\ \A j \in 1 .. (r.it - 1) :
                   r.doc[j] \in Range(d) /\ (j < at.it \/ PosLess(r.doc[j].pos, p))
                   /\ (j < at.it => r.doc[j] = d[j])
  <2>. DEFINE e == RemoveAt(d, i)
  <2>1. i \in 1 .. Len(d)
    BY <1>1, <1>4
  <2>2. /\ e \in Seq(Symbol) /\ Len(e) = Len(d) - 1
        /\ \A j \in 1 .. (i - 1) : e[j] = d[j]
        /\ \A j \in i .. (Len(d) - 1) : e[j] = d[j + 1]
    <3>. HIDE DEF d
    <3>1. QED
      BY <1>1, <2>1, RemoveFacts
  <2>3. r.doc = e /\ r.it = i
    BY <1>4
  <2>4. \A x : x \in Range(e) <=> \E j \in 1 .. Len(e) : e[j] = x
    BY <2>2, InRange
  <2>. HIDE DEF e, r
  <2>5. d[i] \in Symbol /\ d[i].pos = p /\ d[i] \in Range(d)
    BY <1>1, <1>4, <2>1
  <2>6. \A j \in 1 .. Len(d) : j # i => d[j].id # id
    <3>1. SUFFICES ASSUME NEW j \in 1 .. Len(d), j # i, d[j].id = id PROVE FALSE
      OBVIOUS
    <3>2. d[j] \in Symbol /\ d[j].pos = p
      BY <1>1, <3>1
    <3>3. PosLess(d[i].pos, d[j].pos) \/ PosLess(d[j].pos, d[i].pos)
      BY <2>1, <3>1 DEF Increasing
    <3>4. QED
      BY <2>5, <3>2, <3>3, SymbolOrder
  <2>7. Increasing(e)
    <3>1. SUFFICES ASSUME NEW a \in 1 .. Len(e), NEW b \in 1 .. Len(e), a < b
                   PROVE  PosLess(e[a].pos, e[b].pos)
      BY DEF Increasing
    <3>2. CASE b < i
      <4>1. a \in 1 .. (i - 1) /\ b \in 1 .. (i - 1) /\ a \in 1 .. Len(d) /\ b \in 1 .. Len(d)
        BY <1>1, <2>1, <3>1, <3>2
      <4>2. QED
        BY <2>2, <3>1, <4>1 DEF Increasing
    <3>3. CASE b >= i /\ a < i
      <4>1. a \in 1 .. (i - 1) /\ b \in i .. (Len(d) - 1) /\ a \in 1 .. Len(d)
            /\ b + 1 \in 1 .. Len(d) /\ a < b + 1
        BY <1>1, <2>1, <2>2, <3>1, <3>3
      <4>2. QED
        BY <2>2, <4>1 DEF Increasing
    <3>4. CASE b >= i /\ a >= i
      <4>1. a \in i .. (Len(d) - 1) /\ b \in i .. (Len(d) - 1)
            /\ a + 1 \in 1 .. Len(d) /\ b + 1 \in 1 .. Len(d) /\ a + 1 < b + 1
        BY <1>1, <2>1, <2>2, <3>1, <3>4
      <4>2. QED
        BY <2>2, <4>1 DEF Increasing
    <3>5. QED
      BY <1>1, <2>1, <2>2, <3>1, <3>2, <3>3, <3>4
  <2>8. Range(e) = {s \in Range(d) : s.id # id}
    <3>1. ASSUME NEW j \in 1 .. Len(e) PROVE e[j] \in {s \in Range(d) : s.id # id}
      <4>1. CASE j < i
        <5>1. j \in 1 .. (i - 1) /\ j \in 1 .. Len(d) /\ j # i
          BY <1>1, <2>1, <2>2, <4>1
        <5>2. QED
          BY <1>1, <2>2, <2>6, <5>1
      <4>2. CASE j >= i
        <5>1. j \in i .. (Len(d) - 1) /\ j + 1 \in 1 .. Len(d) /\ j + 1 # i
          BY <1>1, <2>1, <2>2, <4>2
        <5>2. QED
          BY <1>1, <2>2, <2>6, <5>1
      <4>3. QED
        BY <1>1, <2>1, <2>2, <4>1, <4>2
    <3>2. ASSUME NEW j \in 1 .. Len(d), d[j].id # id PROVE d[j] \in Range(e)
      <4>1. CASE j < i
        <5>1. j \in 1 .. (i - 1) /\ j \in 1 .. Len(e)
          BY <1>1, <2>1, <2>2, <4>1
        <5>2. QED
          BY <2>2, <2>4, <5>1
      <4>2. CASE j > i
        <5>1. j - 1 \in i .. (Len(d) - 1) /\ j - 1 \in 1 .. Len(e) /\ (j - 1) + 1 = j
          BY <1>1, <2>1, <2>2, <4>2
        <5>2. e[j - 1] = d[j]
          BY <2>2, <5>1
        <5>3. QED
          BY <2>4, <5>1, <5>2
      <4>3. j # i
        BY <1>4, <3>2
      <4>4. QED
        BY <1>1, <2>1, <4>1, <4>2, <4>3
    <3>3. \A x : x \in Range(e) <=> x \in Range(d) /\ x.id # id
      <4>1. ASSUME NEW x \in Range(e) PROVE x \in Range(d) /\ x.id # id
        <5>1. PICK j \in 1 .. Len(e) : e[j] = x
          BY <2>4
        <5>2. QED
          BY <3>1, <5>1
      <4>2. ASSUME NEW x \in Range(d), x.id # id PROVE x \in Range(e)
        <5>1. PICK j \in 1 .. Len(d) : d[j] = x
          BY <1>1
        <5>2. QED
          BY <3>2, <4>2, <5>1
      <4>3. QED
        BY <4>1, <4>2
    <3>4. QED
      BY <3>3
  <2>9. r \in Place
    <3>1. i \in Nat /\ i \in 1 .. (Len(e) + 1)
      BY <1>1, <2>1, <2>2
    <3>2. r = [doc |-> e, it |-> i, wild |-> at.wild]
      BY <1>4 DEF e
    <3>3. QED
      BY <1>1, <2>2, <3>1, <3>2 DEF Place
  <2>10. ASSUME NEW j \in 1 .. (i - 1)
         PROVE  e[j] \in Range(d) /\ PosLess(e[j].pos, p) /\ e[j] = d[j]
    <3>1. j \in 1 .. Len(d) /\ j < i
      BY <1>1, <2>1
    <3>2. PosLess(d[j].pos, d[i].pos)
      BY <2>1, <3>1 DEF Increasing
    <3>3. QED
      BY <1>1, <2>2, <2>5, <3>1, <3>2
  <2>11. QED
    BY <2>3, <2>7, <2>8, <2>9, <2>10
<1>5. QED
  BY <1>3, <1>4, RemoteDeleteAt

\* An insertion of symbols in order, none of them at a position the document
\* has, adds them to the document and keeps it in order.
LEMMA InsertAll ==
  ASSUME NEW d \in Seq(Symbol), NEW syms \in Seq(Symbol), Increasing(d), Increasing(syms),
         \A s \in Range(d), t \in Range(syms) : s.pos # t.pos
  PROVE  LET e == RemoteInsertAll(d, syms)
         IN  e \in Seq(Symbol) /\ Increasing(e) /\ Range(e) = Range(d) \cup Range(syms)
<1>1. PICK g : /\ g[0] = AtStart(d)
               /\ \A i \in 1 .. Len(syms) : g[i] = RemoteInsert(g[i - 1], syms[i])
               /\ RemoteInsertAll(d, syms) = g[Len(syms)].doc
  BY InsertFold
<1>. DEFINE P(k) == /\ g[k] \in Place /\ Increasing(g[k].doc)
                    /\ \A s : s \in Range(g[k].doc) <=>
                                s \in Range(d) \/ \E j \in 1 .. k : s = syms[j]
                    /\ \A j \in 1 .. (g[k].it - 1), m \in (k + 1) .. Len(syms) :
                          PosLess(g[k].doc[j].pos, syms[m].pos)
            S == {k \in Nat : k <= Len(syms) => P(k)}
<1>2. /\ Len(syms) \in Nat
      /\ \A j \in 1 .. Len(syms) : syms[j] \in Symbol /\ syms[j] \in Range(syms)
      /\ \A x : x \in Range(syms) <=> \E j \in 1 .. Len(syms) : syms[j] = x
      /\ Range(d) \subseteq Symbol
  BY InRange
<1>3. 0 \in S
  <2>1. g[0] = [doc |-> d, it |-> 1, wild |-> FALSE]
    BY <1>1 DEF AtStart
  <2>2. g[0] \in Place
    BY <2>1 DEF Place
  <2>3. P(0)
    BY <2>1, <2>2
  <2>4. QED
    BY <2>3
<1>4. ASSUME NEW k \in Nat, k \in S PROVE k + 1 \in S
  <2>1. SUFFICES ASSUME k + 1 <= Len(syms) PROVE P(k + 1)
    OBVIOUS
  <2>2. P(k) /\ k + 1 \in 1 .. Len(syms) /\ (k + 1) - 1 = k
    BY <1>2, <1>4, <2>1
  <2>. DEFINE at == g[k]
              sym == syms[k + 1]
              r == RemoteInsert(at, sym)
  <2>3. g[k + 1] = r /\ sym \in Symbol /\ sym \in Range(syms)
    BY <1>1, <1>2, <2>2
  <2>4. at \in Place /\ Increasing(at.doc)
    BY <2>2
  <2>5. \A j \in 1 .. k : syms[j] \in Symbol /\ PosLess(syms[j].pos, sym.pos)
    BY <1>2, <2>2 DEF Increasing
  <2>6. \A s \in Range(at.doc) : s.pos # sym.pos
    <3>1. SUFFICES ASSUME NEW s \in Range(at.doc) PROVE s.pos # sym.pos
      OBVIOUS
    <3>2. CASE s \in Range(d)
      BY <2>3, <3>2
    <3>3. ASSUME NEW j \in 1 .. k, s = syms[j] PROVE s.pos # sym.pos
      BY <2>3, <2>5, <3>3, SymbolOrder
    <3>4. QED
      BY <2>2, <3>1, <3>2, <3>3
  <2>7. \A j \in 1 .. (at.it - 1) : PosLess(at.doc[j].pos, sym.pos)
    <3>1. k + 1 \in (k + 1) .. Len(syms)
      BY <2>2
    <3>2. QED
      BY <2>2, <3>1
  <2>8. /\ r \in Place /\ Increasing(r.doc)
        /\ Range(r.doc) = Range(at.doc) \cup {sym}
        /\ \A j \in 1 .. (r.it - 1) : r.doc[j] \in Range(at.doc) /\ PosLess(r.doc[j].pos, sym.pos)
    <3>. HIDE DEF at, sym, P
    <3>1. QED
      BY <2>3, <2>4, <2>6, <2>7, InsertStep DEF r
  <2>9. \A s : s \in Range(r.doc) <=> s \in Range(d) \/ \E j \in 1 .. (k + 1) : s = syms[j]
    <3>1. \A j : j \in 1 .. (k + 1) <=> j \in 1 .. k \/ j = k + 1
      OBVIOUS
    <3>. HIDE DEF r
    <3>2. QED
      BY <2>2, <2>8, <3>1
  <2>10. ASSUME NEW j \in 1 .. (r.it - 1), NEW m \in ((k + 1) + 1) .. Len(syms)
         PROVE  PosLess(r.doc[j].pos, syms[m].pos)
    <3>1. m \in 1 .. Len(syms) /\ k + 1 < m /\ syms[m] \in Symbol
      BY <1>2, <2>2
    <3>2. PosLess(sym.pos, syms[m].pos)
      BY <2>2, <3>1 DEF Increasing
    <3>3. r.doc[j] \in Range(at.doc) /\ PosLess(r.doc[j].pos, sym.pos)
      BY <2>8
    <3>4. at.doc \in Seq(Symbol)
      BY <2>4 DEF Place
    <3>5. r.doc[j] \in Symbol
      BY <3>3, <3>4, InRange
    <3>6. QED
      BY <2>3, <3>1, <3>2, <3>3, <3>5, SymbolOrder
  <2>. HIDE DEF r
  <2>11. QED
    BY <2>3, <2>8, <2>9, <2>10
<1>5. P(Len(syms))
  <2>1. Nat \subseteq S
    <3>. HIDE DEF S
    <3>1. QED
      BY <1>3, <1>4, Counting
  <2>2. Len(syms) \in S
    BY <1>2, <2>1
  <2>. HIDE DEF P
  <2>3. QED
    BY <1>2, <2>2
<1>. DEFINE e == RemoteInsertAll(d, syms)
<1>6. e \in Seq(Symbol) /\ Increasing(e)
  BY <1>1, <1>5 DEF Place
<1>7. \A s : s \in Range(e) <=> s \in Range(d) \/ s \in Range(syms)
  BY <1>1, <1>2, <1>5
<1>8. QED
  BY <1>6, <1>7

\* A deletion whose identifiers are in the order of their positions takes from
\* a document the symbols it names, however many of them the document has, and
\* keeps the others in order.
LEMMA DeleteAll ==
  ASSUME NEW d \in Seq(Symbol), NEW ids \in Seq(Nat \X Nat), Increasing(d),
         NEW where \in [Nat \X Nat -> Seq(Ident)],
         \A s \in Range(d) : s.pos = where[s.id],
         \A i, j \in 1 .. Len(ids) : i < j => PosLess(where[ids[i]], where[ids[j]])
  PROVE  LET r == RemoteDeleteAll(d, ids)
         IN  /\ r \in Place /\ Increasing(r.doc)
             /\ Range(r.doc) = {s \in Range(d) : s.id \notin Range(ids)}
<1>1. PICK g : /\ g[0] = AtStart(d)
               /\ \A i \in 1 .. Len(ids) : g[i] = RemoteDelete(g[i - 1], ids[i])
               /\ RemoteDeleteAll(d, ids) = g[Len(ids)]
  BY DeleteFold
<1>. DEFINE P(k) == /\ g[k] \in Place /\ Increasing(g[k].doc)
                    /\ \A s : s \in Range(g[k].doc) <=>
                                s \in Range(d) /\ \A j \in 1 .. k : s.id # ids[j]
                    /\ \A j \in 1 .. (g[k].it - 1), m \in (k + 1) .. Len(ids) :
                          PosLess(g[k].doc[j].pos, where[ids[m]])
            S == {k \in Nat : k <= Len(ids) => P(k)}
<1>2. /\ Len(ids) \in Nat
      /\ \A j \in 1 .. Len(ids) : ids[j] \in Nat \X Nat /\ where[ids[j]] \in Seq(Ident)
      /\ \A x : x \in Range(ids) <=> \E j \in 1 .. Len(ids) : ids[j] = x
      /\ Range(d) \subseteq Symbol
  BY InRange
<1>3. 0 \in S
  <2>1. g[0] = [doc |-> d, it |-> 1, wild |-> FALSE]
    BY <1>1 DEF AtStart
  <2>2. g[0] \in Place
    BY <2>1 DEF Place
  <2>3. P(0)
    BY <2>1, <2>2
  <2>4. QED
    BY <2>3
<1>4. ASSUME NEW k \in Nat, k \in S PROVE k + 1 \in S
  <2>1. SUFFICES ASSUME k + 1 <= Len(ids) PROVE P(k + 1)
    <3>. HIDE DEF P
    <3>1. k + 1 \in Nat
      OBVIOUS
    <3>2. QED
      BY <3>1, Zenon
  <2>2. P(k) /\ k + 1 \in 1 .. Len(ids) /\ (k + 1) - 1 = k
    <3>1. k <= Len(ids) /\ k + 1 \in 1 .. Len(ids) /\ (k + 1) - 1 = k
      <4>1. Len(ids) \in Nat
        BY <1>2
      <4>2. QED
        BY <2>1, <4>1
    <3>2. P(k)
      <4>. HIDE DEF P
      <4>1. QED
        BY <1>4, <3>1, Zenon
    <3>3. QED
      BY <3>1, <3>2
  <2>. DEFINE at == g[k]
              id == ids[k + 1]
              p == where[id]
              r == RemoteDelete(at, id)
  <2>3. g[k + 1] = r /\ p \in Seq(Ident) /\ id \in Nat \X Nat
    BY <1>1, <1>2, <2>2
  <2>4. at \in Place /\ Increasing(at.doc)
    BY <2>2
  <2>5. \A s \in Range(at.doc) : s.id = id => s.pos = p
    BY <2>2
  <2>6. \A j \in 1 .. (at.it - 1) : PosLess(at.doc[j].pos, p)
    BY <1>2, <2>2
  <2>7. \A j \in 1 .. (at.it - 1), m \in (k + 1) .. Len(ids) : PosLess(at.doc[j].pos, where[ids[m]])
    BY <2>2
  <2>8. \A m \in ((k + 1) + 1) .. Len(ids) :
            m \in (k + 1) .. Len(ids) /\ where[ids[m]] \in Seq(Ident) /\ PosLess(p, where[ids[m]])
    <3>1. ASSUME NEW m \in ((k + 1) + 1) .. Len(ids)
          PROVE  m \in (k + 1) .. Len(ids) /\ where[ids[m]] \in Seq(Ident) /\ PosLess(p, where[ids[m]])
      <4>1. m \in (k + 1) .. Len(ids) /\ m \in 1 .. Len(ids) /\ k + 1 \in 1 .. Len(ids) /\ k + 1 < m
        BY <1>2, <2>2
      <4>2. PosLess(where[ids[k + 1]], where[ids[m]])
        BY <4>1
      <4>3. QED
        BY <1>2, <4>1, <4>2
    <3>2. QED
      BY <3>1
  <2>9. at.doc \in Seq(Symbol) /\ at.it \in Nat
    BY <2>4 DEF Place
  <2>10. /\ r \in Place /\ Increasing(r.doc)
        /\ Range(r.doc) = {s \in Range(at.doc) : s.id # id}
        /\ \A j \in 1 .. (r.it - 1) :
              r.doc[j] \in Range(at.doc) /\ (j < at.it \/ PosLess(r.doc[j].pos, p))
              /\ (j < at.it => r.doc[j] = at.doc[j])
    <3>. HIDE DEF at, id, p, P
    <3>1. QED
      BY <2>3, <2>4, <2>5, <2>6, DeleteStep DEF r
  <2>11. \A s : s \in Range(r.doc) <=> s \in Range(d) /\ \A j \in 1 .. (k + 1) : s.id # ids[j]
    <3>1. \A j : j \in 1 .. (k + 1) <=> j \in 1 .. k \/ j = k + 1
      OBVIOUS
    <3>. HIDE DEF r
    <3>2. QED
      BY <2>2, <2>10, <3>1
  <2>. HIDE DEF r, at, p, id
  <2>12. r.it \in Nat
    BY <2>10 DEF Place
  <2>13. ASSUME NEW j \in 1 .. (r.it - 1), NEW m \in ((k + 1) + 1) .. Len(ids)
        PROVE  PosLess(r.doc[j].pos, where[ids[m]])
    <3>1. r.doc[j] \in Symbol
      BY <2>10, <2>9, InRange
    <3>2. r.doc[j].pos \in Seq(Ident)
      BY <3>1, SymbolOrder
    <3>3. CASE j < at.it
      <4>1. j \in 1 .. (at.it - 1) /\ r.doc[j] = at.doc[j]
        BY <2>10, <2>9, <2>12, <3>3
      <4>2. QED
        BY <2>7, <2>8, <4>1
    <3>4. CASE ~ (j < at.it)
      <4>1. PosLess(r.doc[j].pos, p)
        BY <2>10, <3>4
      <4>2. QED
        BY <2>3, <2>8, <3>2, <4>1, PosTransitive
    <3>5. QED
      BY <3>3, <3>4
  <2>14. QED
    BY <2>3, <2>10, <2>11, <2>13
<1>5. P(Len(ids))
  <2>1. Nat \subseteq S
    <3>. HIDE DEF S
    <3>1. QED
      BY <1>3, <1>4, Counting
  <2>2. Len(ids) \in S
    BY <1>2, <2>1
  <2>. HIDE DEF P
  <2>3. QED
    BY <1>2, <2>2
<1>. DEFINE r == RemoteDeleteAll(d, ids)
<1>6. r \in Place /\ Increasing(r.doc)
  BY <1>1, <1>5
<1>7. \A s : s \in Range(r.doc) <=> s \in Range(d) /\ s.id \notin Range(ids)
  BY <1>1, <1>2, <1>5
<1>8. QED
  BY <1>6, <1>7

\* Erasing the r symbols from index k on leaves e and takes the identifiers ids,
\* in the order of their positions, away.
Erases(where, d, k, r, e, ids) ==
  /\ e \in Seq(Symbol) /\ Increasing(e) /\ k \in 1 .. (Len(e) + 1)
  /\ ids \in Seq(Nat \X Nat)
  /\ Range(e) = {s \in Range(d) : s.id \notin Range(ids)}
  /\ \A i, j \in 1 .. Len(ids) : i < j => PosLess(where[ids[i]], where[ids[j]])
  /\ \A x \in Range(ids) : \E s \in Range(d) : s.id = x
  /\ r = 0 => Range(ids) = {}

\* What is left around the symbols from index k on, and what the deletion names.
LEMMA CutOut ==
  ASSUME NEW d \in Seq(Symbol), Increasing(d), NEW k \in 1 .. (Len(d) + 1), NEW r \in Nat,
         k + r <= Len(d) + 1,
         NEW where \in [Nat \X Nat -> Seq(Ident)], \A s \in Range(d) : s.pos = where[s.id]
  PROVE  Erases(where, d, k, r, SubSeq(d, 1, k - 1) \o SubSeq(d, k + r, Len(d)), Ids(SubSeq(d, k, k + r - 1)))
<1>. DEFINE a == SubSeq(d, 1, k - 1)
            b == SubSeq(d, k + r, Len(d))
            q == SubSeq(d, k, k + r - 1)
            e == a \o b
            ids == Ids(q)
<1>0. /\ Len(d) \in Nat /\ k \in Nat
      /\ \A j \in 1 .. Len(d) : d[j] \in Symbol /\ d[j] \in Range(d)
      /\ \A x : x \in Range(d) <=> \E j \in 1 .. Len(d) : d[j] = x
  BY InRange
<1>1. a \in Seq(Symbol) /\ Len(a) = k - 1 /\ \A j \in 1 .. (k - 1) : a[j] = d[j]
  BY <1>0
<1>2. b \in Seq(Symbol) /\ Len(b) = Len(d) + 1 - (k + r)
      /\ \A j \in 1 .. (Len(d) + 1 - (k + r)) : b[j] = d[k + r + j - 1]
  BY <1>0
<1>3. q \in Seq(Symbol) /\ Len(q) = r /\ \A j \in 1 .. r : q[j] = d[k + j - 1]
  BY <1>0
<1>4. DOMAIN q = 1 .. Len(q) /\ ids = [i \in DOMAIN q |-> q[i].id]
  BY <1>3 DEF Ids
<1>. HIDE DEF a, b, q, ids
<1>5. /\ e \in Seq(Symbol) /\ Len(e) = Len(d) - r
      /\ \A j \in 1 .. (k - 1) : e[j] = d[j]
      /\ \A j \in k .. (Len(d) - r) : e[j] = b[j - (k - 1)]
  <2>1. /\ a \o b \in Seq(Symbol) /\ Len(a \o b) = Len(a) + Len(b)
        /\ \A j \in 1 .. Len(a) : (a \o b)[j] = a[j]
        /\ \A j \in (Len(a) + 1) .. (Len(a) + Len(b)) : (a \o b)[j] = b[j - Len(a)]
    <3>1. a \in Seq(Symbol) /\ b \in Seq(Symbol)
      BY <1>1, <1>2
    <3>2. QED
      BY <3>1, Joined, SMTT(40)
  <2>2. Len(a) + Len(b) = Len(d) - r /\ Len(a) + 1 = k
    BY <1>0, <1>1, <1>2
  <2>. HIDE DEF e
  <2>3. e = a \o b
    BY DEF e
  <2>4. QED
    BY <1>1, <2>1, <2>2, <2>3
<1>6. ASSUME NEW j \in k .. (Len(d) - r) PROVE e[j] = d[j + r]
  <2>1. j - (k - 1) \in 1 .. (Len(d) + 1 - (k + r)) /\ k + r + (j - (k - 1)) - 1 = j + r
    BY <1>0
  <2>2. QED
    BY <1>2, <1>5, <2>1
<1>. HIDE DEF e
<1>. DEFINE To(j) == IF j < k THEN j ELSE j + r
<1>7. ASSUME NEW j \in 1 .. Len(e)
      PROVE  /\ To(j) \in 1 .. Len(d) /\ e[j] = d[To(j)]
             /\ ~ (To(j) \in k .. (k + r - 1))
  <2>1. CASE j < k
    <3>1. j \in 1 .. (k - 1) /\ j \in 1 .. Len(d)
      BY <1>0, <2>1
    <3>2. QED
      BY <1>0, <1>5, <2>1, <3>1
  <2>2. CASE ~ (j < k)
    <3>1. j \in k .. (Len(d) - r) /\ j + r \in 1 .. Len(d)
      BY <1>0, <1>5, <2>2
    <3>2. e[j] = d[j + r]
      BY <1>6, <3>1
    <3>3. ~ (j + r \in k .. (k + r - 1))
      BY <1>0, <2>2
    <3>4. QED
      BY <2>2, <3>1, <3>2, <3>3
  <2>3. QED
    BY <2>1, <2>2
<1>8. \A i, j \in 1 .. Len(e) : i < j => To(i) < To(j)
  BY <1>0, <1>5
<1>. HIDE DEF To
<1>9. Increasing(e)
  <2>1. SUFFICES ASSUME NEW i \in 1 .. Len(e), NEW j \in 1 .. Len(e), i < j
                 PROVE  PosLess(e[i].pos, e[j].pos)
    BY DEF Increasing
  <2>2. To(i) \in 1 .. Len(d) /\ To(j) \in 1 .. Len(d) /\ To(i) < To(j)
        /\ e[i] = d[To(i)] /\ e[j] = d[To(j)]
    BY <1>7, <1>8, <2>1
  <2>3. PosLess(d[To(i)].pos, d[To(j)].pos)
    BY <2>2 DEF Increasing
  <2>4. QED
    BY <2>2, <2>3
<1>10. /\ ids \in Seq(Nat \X Nat) /\ Len(ids) = r
       /\ \A j \in 1 .. r : ids[j] = d[k + j - 1].id /\ k + j - 1 \in 1 .. Len(d)
  <2>1. ids = [i \in 1 .. r |-> q[i].id]
    BY <1>3, <1>4
  <2>2. \A j \in 1 .. r : k + j - 1 \in 1 .. Len(d)
    BY <1>0
  <2>3. \A j \in 1 .. r : q[j].id = d[k + j - 1].id /\ d[k + j - 1].id \in Nat \X Nat
    BY <1>0, <1>3, <2>2, SymbolOrder
  <2>4. \A j \in 1 .. r : q[j].id \in Nat \X Nat
    BY <2>3
  <2>. HIDE DEF Symbol
  <2>6. ids \in [1 .. r -> Nat \X Nat] /\ \A j \in 1 .. r : ids[j] = q[j].id
    BY <2>1, <2>4
  <2>7. ids \in Seq(Nat \X Nat) /\ Len(ids) = r
    BY <2>6
  <2>5. QED
    BY <2>2, <2>3, <2>6, <2>7
<1>11. \A x : x \in Range(ids) <=> \E j \in 1 .. r : ids[j] = x
  <2>1. \A x : x \in Range(ids) <=> \E j \in 1 .. Len(ids) : ids[j] = x
    BY <1>10, InRange
  <2>2. QED
    BY <1>10, <2>1
<1>12. ASSUME NEW i \in 1 .. Len(d), NEW j \in 1 .. Len(d), d[i].id = d[j].id PROVE i = j
  <2>1. d[i].pos = d[j].pos /\ d[i] \in Symbol /\ d[j] \in Symbol
    BY <1>0, <1>12
  <2>2. i < j \/ j < i \/ i = j
    BY <1>0
  <2>3. i < j => PosLess(d[i].pos, d[j].pos)
    BY DEF Increasing
  <2>4. j < i => PosLess(d[j].pos, d[i].pos)
    BY DEF Increasing
  <2>5. QED
    BY <2>1, <2>2, <2>3, <2>4, SymbolOrder
<1>13. ASSUME NEW i \in 1 .. Len(d), d[i].id \in Range(ids) PROVE i \in k .. (k + r - 1)
  <2>1. PICK j \in 1 .. r : ids[j] = d[i].id
    BY <1>11, <1>13
  <2>2. k + j - 1 \in 1 .. Len(d) /\ d[k + j - 1].id = d[i].id
    BY <1>10, <2>1
  <2>3. k + j - 1 = i
    BY <1>12, <2>2
  <2>4. QED
    BY <1>0, <2>3
<1>14. ASSUME NEW i \in k .. (k + r - 1) PROVE d[i].id \in Range(ids)
  <2>1. i - k + 1 \in 1 .. r /\ k + (i - k + 1) - 1 = i
    BY <1>0
  <2>2. ids[i - k + 1] = d[i].id
    BY <1>10, <2>1
  <2>3. QED
    BY <1>11, <2>1, <2>2
<1>15. \A x : x \in Range(e) <=> x \in Range(d) /\ x.id \notin Range(ids)
  <2>1. \A x : x \in Range(e) <=> \E j \in 1 .. Len(e) : e[j] = x
    BY <1>5, InRange
  <2>2. ASSUME NEW j \in 1 .. Len(e) PROVE e[j] \in Range(d) /\ e[j].id \notin Range(ids)
    BY <1>0, <1>7, <1>13
  <2>3. ASSUME NEW i \in 1 .. Len(d), d[i].id \notin Range(ids) PROVE d[i] \in Range(e)
    <3>1. i \notin k .. (k + r - 1)
      BY <1>14, <2>3
    <3>2. CASE i < k
      <4>1. i \in 1 .. (k - 1) /\ i \in 1 .. Len(e)
        BY <1>0, <1>5, <3>2
      <4>2. QED
        BY <1>5, <2>1, <4>1
    <3>3. CASE ~ (i < k)
      <4>1. i - r \in k .. (Len(d) - r) /\ i - r \in 1 .. Len(e) /\ (i - r) + r = i
        BY <1>0, <1>5, <3>1, <3>3
      <4>2. e[i - r] = d[i]
        BY <1>6, <4>1
      <4>3. QED
        BY <2>1, <4>1, <4>2
    <3>4. QED
      BY <3>2, <3>3
  <2>4. QED
    BY <1>0, <2>1, <2>2, <2>3
<1>16. ASSUME NEW i \in 1 .. Len(ids), NEW j \in 1 .. Len(ids), i < j
       PROVE  PosLess(where[ids[i]], where[ids[j]])
  <2>1. k + i - 1 \in 1 .. Len(d) /\ k + j - 1 \in 1 .. Len(d) /\ k + i - 1 < k + j - 1
        /\ ids[i] = d[k + i - 1].id /\ ids[j] = d[k + j - 1].id
    <3>1. i \in 1 .. r /\ j \in 1 .. r
      BY <1>10
    <3>2. /\ k + i - 1 \in 1 .. Len(d) /\ k + j - 1 \in 1 .. Len(d)
          /\ ids[i] = d[k + i - 1].id /\ ids[j] = d[k + j - 1].id
      BY <1>10, <3>1
    <3>3. k + i - 1 < k + j - 1
      BY <1>0, <1>16, <3>1
    <3>4. QED
      BY <3>2, <3>3
  <2>2. PosLess(d[k + i - 1].pos, d[k + j - 1].pos)
    BY <2>1 DEF Increasing
  <2>3. d[k + i - 1] \in Range(d) /\ d[k + j - 1] \in Range(d)
    BY <1>0, <2>1
  <2>4. d[k + i - 1].pos = where[ids[i]] /\ d[k + j - 1].pos = where[ids[j]]
    BY <2>1, <2>3
  <2>5. QED
    BY <2>2, <2>4
<1>17. \A x \in Range(ids) : \E s \in Range(d) : s.id = x
  <2>1. SUFFICES ASSUME NEW x \in Range(ids) PROVE \E s \in Range(d) : s.id = x
    OBVIOUS
  <2>2. PICK j \in 1 .. r : ids[j] = x
    BY <1>11
  <2>3. d[k + j - 1].id = x /\ d[k + j - 1] \in Range(d)
    BY <1>0, <1>10, <2>2
  <2>4. QED
    BY <2>3
<1>18. k \in 1 .. (Len(e) + 1) /\ (r = 0 => Range(ids) = {})
  <2>1. k \in 1 .. (Len(e) + 1)
    BY <1>0, <1>5
  <2>2. r = 0 => \A x : x \notin Range(ids)
    BY <1>11
  <2>3. QED
    BY <2>1, <2>2
<1>19. Range(e) = {s \in Range(d) : s.id \notin Range(ids)}
  BY <1>15
<1>20. QED
  <2>1. Erases(where, d, k, r, e, ids)
    BY <1>5, <1>9, <1>10, <1>16, <1>17, <1>18, <1>19 DEF Erases
  <2>2. QED
    BY <2>1 DEF e, a, b, ids, q
=============================================================================
