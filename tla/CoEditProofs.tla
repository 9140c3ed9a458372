---------------------------- MODULE CoEditProofs ----------------------------
(***************************************************************************)
(* For any number of users, edits, opens and deaths of clients: the server   *)
(* receives edits only of clients that have the file open and requests to    *)
(* open it only of those that have not, a client hears of a user before it   *)
(* receives that user's edits, and the users an editor shows, with the news   *)
(* on the way to it, are those the server has (IInv). As long as no line      *)
(* break is typed, the replicas are sorted, an identifier names one symbol,   *)
(* and operations that cross on the way commute (CInv).                      *)
(*                                                                         *)
(* The first part is about messages on the way and the sets of symbols they   *)
(* leave, the second about sessions and presence, the third about symbols.   *)
(***************************************************************************)
EXTENDS CoEdit, DocumentProofs

\* One round of the loop over the typed characters.
TypeStep(u, k, first, at, i) ==
  LET r == LocalInsert(at.doc, k + i, <<u, first + i>>)
  IN  IF at.thrown THEN at
      ELSE [doc |-> r.doc, syms |-> Append(at.syms, r.sym), thrown |-> r.thrown]

\* The loop over the typed characters, one after the other.
LEMMA TypedFold ==
  ASSUME NEW u, NEW d, NEW k, NEW first, NEW n \in Nat
  PROVE  \E g : /\ g[0] = [doc |-> d, syms |-> << >>, thrown |-> FALSE]
                /\ \A i \in 1 .. n : g[i] = TypeStep(u, k, first, g[i - 1], [j \in 1 .. n |-> j - 1][i])
                /\ Typed(u, d, k, first, n) = g[n]
<1>. DEFINE Is(F, m) == F = [s \in SUBSET (1 .. m) |->
                              IF s = {} THEN [doc |-> d, syms |-> << >>, thrown |-> FALSE]
                              ELSE TypeStep(u, k, first, F[s \ {Max(s)}], [j \in 1 .. n |-> j - 1][Max(s)])]
            S == {m \in Nat : \E F : Is(F, m)}
<1>0. n \in Nat /\ DOMAIN [i \in 1 .. n |-> i - 1] = 1 .. n
  OBVIOUS
<1>1. 0 \in S
  <2>. DEFINE F == [s \in SUBSET (1 .. 0) |-> [doc |-> d, syms |-> << >>, thrown |-> FALSE]]
  <2>1. \A s \in SUBSET (1 .. 0) : s = {}
    OBVIOUS
  <2>2. Is(F, 0)
    BY <2>1
  <2>3. QED
    BY <2>2
<1>2. ASSUME NEW m \in Nat, m \in S PROVE m + 1 \in S
  <2>1. PICK F : Is(F, m)
    BY <1>2
  <2>. DEFINE G == [s \in SUBSET (1 .. (m + 1)) |->
                     IF m + 1 \in s THEN TypeStep(u, k, first, F[s \ {m + 1}], [j \in 1 .. n |-> j - 1][(m + 1)]) ELSE F[s]]
  <2>2. ASSUME NEW s \in SUBSET (1 .. (m + 1))
        PROVE  G[s] = IF s = {} THEN [doc |-> d, syms |-> << >>, thrown |-> FALSE] ELSE TypeStep(u, k, first, G[s \ {Max(s)}], [j \in 1 .. n |-> j - 1][Max(s)])
    <3>1. CASE m + 1 \in s
      <4>1. Max(s) = m + 1 /\ s \ {m + 1} \in SUBSET (1 .. m)
            /\ s \ {m + 1} \in SUBSET (1 .. (m + 1)) /\ m + 1 \notin s \ {m + 1}
        BY <3>1, LargestIndex
      <4>2. G[s \ {m + 1}] = F[s \ {m + 1}]
        BY <4>1
      <4>3. G[s] = TypeStep(u, k, first, F[s \ {m + 1}], [j \in 1 .. n |-> j - 1][(m + 1)])
        BY <3>1
      <4>4. QED
        BY <3>1, <4>1, <4>2, <4>3
    <3>2. CASE m + 1 \notin s
      <4>1. s \in SUBSET (1 .. m) /\ G[s] = F[s]
        BY <3>2
      <4>2. CASE s = {}
        <5>1. F[s] = [doc |-> d, syms |-> << >>, thrown |-> FALSE]
          BY <2>1, <4>1, <4>2
        <5>2. QED
          BY <4>1, <4>2, <5>1
      <4>3. CASE s # {}
        <5>1. s \ {Max(s)} \in SUBSET (1 .. (m + 1)) /\ m + 1 \notin s \ {Max(s)}
          BY <3>2
        <5>2. G[s \ {Max(s)}] = F[s \ {Max(s)}]
          BY <5>1
        <5>3. F[s] = TypeStep(u, k, first, F[s \ {Max(s)}], [j \in 1 .. n |-> j - 1][Max(s)])
          BY <2>1, <4>1, <4>3
        <5>4. QED
          BY <4>1, <4>3, <5>2, <5>3
      <4>4. QED
        BY <4>2, <4>3
    <3>3. QED
      BY <3>1, <3>2
  <2>3. G = [s \in SUBSET (1 .. (m + 1)) |-> G[s]]
    OBVIOUS
  <2>. HIDE DEF G
  <2>4. Is(G, m + 1)
    BY <2>2, <2>3
  <2>. HIDE DEF Is
  <2>5. QED
    BY <2>4
<1>. HIDE DEF S
<1>3. Nat \subseteq S
  BY <1>1, <1>2, Counting
<1>4. \E G : Is(G, n)
  <2>. HIDE DEF Is
  <2>1. n \in S
    BY <1>0, <1>3
  <2>2. QED
    BY <2>1 DEF S
<1>. DEFINE F == CHOOSE F : Is(F, n)
            g == [c \in 0 .. n |-> F[1 .. c]]
<1>5. Is(F, n)
  <2>. HIDE DEF Is
  <2>1. QED
    BY <1>4
<1>6. Typed(u, d, k, first, n) = F[1 .. n]
  BY <1>0 DEF Typed, TypeStep, FoldLeft, MapThenFoldSet
<1>. HIDE DEF F
<1>7. ASSUME NEW s \in SUBSET (1 .. n)
      PROVE  F[s] = IF s = {} THEN [doc |-> d, syms |-> << >>, thrown |-> FALSE] ELSE TypeStep(u, k, first, F[s \ {Max(s)}], [j \in 1 .. n |-> j - 1][Max(s)])
  BY <1>5
<1>. HIDE DEF Is
<1>8. g[0] = [doc |-> d, syms |-> << >>, thrown |-> FALSE]
  <2>1. 1 .. 0 = {} /\ g[0] = F[1 .. 0]
    BY <1>0
  <2>2. QED
    BY <1>7, <2>1
<1>9. ASSUME NEW i \in 1 .. n PROVE g[i] = TypeStep(u, k, first, g[i - 1], [j \in 1 .. n |-> j - 1][i])
  <2>1. 1 .. i \in SUBSET (1 .. n) /\ 1 .. i # {} /\ i - 1 \in 0 .. n
        /\ (1 .. i) \ {i} = 1 .. (i - 1) /\ i \in 0 .. n /\ Max(1 .. i) = i
    BY <1>0, FirstNumbers
  <2>3. F[1 .. i] = TypeStep(u, k, first, F[(1 .. i) \ {i}], [j \in 1 .. n |-> j - 1][i])
    BY <1>7, <2>1
  <2>4. g[i] = F[1 .. i] /\ g[i - 1] = F[1 .. (i - 1)]
    BY <2>1
  <2>5. QED
    BY <2>1, <2>3, <2>4
<1>10. g[n] = F[1 .. n]
  BY <1>0
<1>11. QED
  BY <1>6, <1>8, <1>9, <1>10

\* A character is typed at a position between those of its neighbours.
LEMMA LocalInsertAt ==
  ASSUME NEW d \in Seq(Symbol), Increasing(d), NEW k \in 1 .. (Len(d) + 1),
         NEW id \in Nat \X Nat, ~ LocalInsert(d, k, id).thrown
  PROVE  LET r == LocalInsert(d, k, id)
         IN  /\ r.sym \in Symbol /\ r.sym.id = id
             /\ r.sym.pos[Len(r.sym.pos)].user = id[1]
             /\ r.thrown = FALSE
             /\ r.doc = Emplace(d, k, r.sym)
             /\ Increasing(r.doc)
<1>. DEFINE l == IF k > 1 THEN d[k - 1].pos ELSE << >>
            r == IF k <= Len(d) THEN d[k].pos ELSE << >>
            f == FindPosition[<<id[1], l, r>>]
            sym == [id |-> id, pos |-> f.position]
            res == LocalInsert(d, k, id)
<1>0. /\ Len(d) \in Nat /\ k \in Nat /\ id[1] \in Nat
      /\ \A j \in 1 .. Len(d) : d[j] \in Symbol /\ d[j].pos \in Position /\ d[j].pos \in Seq(Ident)
  BY SymbolOrder
<1>1. res = [thrown |-> f.thrown, sym |-> sym, doc |-> IF f.thrown THEN d ELSE Emplace(d, k, sym)]
  BY DEF LocalInsert
<1>2. k > 1 => k - 1 \in 1 .. Len(d)
  BY <1>0
<1>3. k <= Len(d) => k \in 1 .. Len(d)
  BY <1>0
<1>4. l \in Seq(Ident) /\ r \in Seq(Ident) /\ (l = << >> \/ l \in Position) /\ (r = << >> \/ r \in Position)
  BY <1>0, <1>2, <1>3
<1>5. l # << >> /\ r # << >> => PosLess(l, r)
  <2>1. SUFFICES ASSUME l # << >>, r # << >> PROVE PosLess(l, r)
    OBVIOUS
  <2>2. k > 1 /\ k <= Len(d)
    BY <2>1
  <2>3. PosLess(d[k - 1].pos, d[k].pos)
    BY <1>0, <1>2, <1>3, <2>2 DEF Increasing
  <2>4. QED
    BY <2>2, <2>3
<1>6. k <= Len(d) => r # << >>
  BY <1>0, <1>3 DEF Position
<1>7. k > 1 => l = d[k - 1].pos
  OBVIOUS
<1>8. k <= Len(d) => r = d[k].pos
  OBVIOUS
<1>. HIDE DEF l, r
<1>9. Neighbours(l, r)
  BY <1>4, <1>5 DEF Neighbours
<1>. DEFINE c == <<id[1], l, r>>
<1>10. c \in CallArgs
  BY <1>0, <1>4 DEF CallArgs
<1>11. f.thrown \in BOOLEAN
  BY <1>10, FindPositionTyped DEF Results
<1>12. f.thrown = FALSE
  BY <1>1, <1>11
<1>13. f.position \in Position /\ f.position[Len(f.position)].user = id[1]
       /\ Between(l, f.position, r)
  BY <1>0, <1>4, <1>9, <1>12, FindPositionBetween
<1>. HIDE DEF f
<1>14. sym \in Symbol /\ sym.pos = f.position
  BY <1>13 DEF Symbol
<1>. HIDE DEF sym
<1>15. res.sym = sym /\ res.thrown = FALSE /\ res.doc = Emplace(d, k, sym)
  BY <1>1, <1>12
<1>16. sym.id = id
  BY DEF sym
<1>. DEFINE e == Emplace(d, k, sym)
<1>17. /\ e \in Seq(Symbol) /\ Len(e) = Len(d) + 1
       /\ \A j \in 1 .. (k - 1) : e[j] = d[j]
       /\ e[k] = sym
       /\ \A j \in (k + 1) .. (Len(d) + 1) : e[j] = d[j - 1]
       /\ Range(e) = Range(d) \cup {sym}
  <2>1. sym \in Symbol
    BY <1>14
  <2>2. QED
    BY <2>1, EmplaceInDocument
<1>. HIDE DEF e
<1>18. ASSUME NEW j \in 1 .. (k - 1) PROVE PosLess(d[j].pos, sym.pos)
  <2>1. j \in 1 .. Len(d) /\ k - 1 \in 1 .. Len(d) /\ k > 1 /\ j <= k - 1
    BY <1>0
  <2>2. PosLess(d[k - 1].pos, sym.pos)
    BY <1>7, <1>13, <1>14, <2>1 DEF Between
  <2>3. j = k - 1 \/ PosLess(d[j].pos, d[k - 1].pos)
    BY <2>1 DEF Increasing
  <2>4. QED
    BY <1>0, <1>14, <2>1, <2>2, <2>3, SymbolOrder
<1>19. ASSUME NEW j \in k .. Len(d) PROVE PosLess(sym.pos, d[j].pos)
  <2>1. j \in 1 .. Len(d) /\ k \in 1 .. Len(d) /\ k <= Len(d) /\ k <= j
    BY <1>0
  <2>2. PosLess(sym.pos, d[k].pos)
    BY <1>6, <1>8, <1>13, <1>14, <2>1 DEF Between
  <2>3. j = k \/ PosLess(d[k].pos, d[j].pos)
    BY <2>1 DEF Increasing
  <2>4. QED
    BY <1>0, <1>14, <2>1, <2>2, <2>3, SymbolOrder
<1>20. Increasing(e)
  BY <1>14, <1>17, <1>18, <1>19, IncreasingAround
<1>21. QED
  BY <1>13, <1>14, <1>15, <1>16, <1>20 DEF e

\* What the loop over the typed characters has done after i of them.
TypedSoFar(d, k, u, first, at, i) ==
  /\ at.doc \in Seq(Symbol) /\ Increasing(at.doc) /\ Len(at.doc) = Len(d) + i
  /\ at.syms \in Seq(Symbol) /\ Len(at.syms) = i
  /\ \A j \in 1 .. i : /\ at.syms[j] = at.doc[k + j - 1]
                       /\ at.syms[j].id = <<u, first + j - 1>>
                       /\ at.syms[j].pos[Len(at.syms[j].pos)].user = u
  /\ \A j \in 1 .. (k - 1) : at.doc[j] = d[j]
  /\ \A j \in (k + i) .. (Len(d) + i) : at.doc[j] = d[j - i]

\* One more character typed keeps what is known of those typed so far.
LEMMA TypeOne ==
  ASSUME NEW d \in Seq(Symbol), NEW k \in 1 .. (Len(d) + 1), NEW u \in Nat, NEW first \in Nat,
         NEW i \in Nat, NEW at, TypedSoFar(d, k, u, first, at, i),
         ~ LocalInsert(at.doc, k + i, <<u, first + i>>).thrown
  PROVE  LET r == LocalInsert(at.doc, k + i, <<u, first + i>>)
         IN  /\ r.thrown = FALSE
             /\ TypedSoFar(d, k, u, first,
                           [doc |-> r.doc, syms |-> Append(at.syms, r.sym), thrown |-> r.thrown], i + 1)
<1>. DEFINE e == at.doc
            c == k + i
            id == <<u, first + i>>
            r == LocalInsert(e, c, id)
            sym == r.sym
            p == at.syms
            f == r.doc
            q == Append(p, sym)
<1>1. /\ e \in Seq(Symbol) /\ Increasing(e) /\ Len(e) = Len(d) + i
      /\ p \in Seq(Symbol) /\ Len(p) = i
      /\ \A j \in 1 .. i : /\ p[j] = e[k + j - 1]
                           /\ p[j].id = <<u, first + j - 1>>
                           /\ p[j].pos[Len(p[j].pos)].user = u
      /\ \A j \in 1 .. (k - 1) : e[j] = d[j]
      /\ \A j \in (k + i) .. (Len(d) + i) : e[j] = d[j - i]
  BY DEF TypedSoFar
<1>2. Len(d) \in Nat /\ k \in Nat /\ \A j \in 1 .. Len(d) : d[j] \in Symbol
  OBVIOUS
<1>3. c \in 1 .. (Len(e) + 1) /\ id \in Nat \X Nat /\ id[1] = u /\ ~ r.thrown
  BY <1>1, <1>2
<1>. HIDE DEF e, c, id, p
<1>4. /\ sym \in Symbol /\ sym.id = id
      /\ sym.pos[Len(sym.pos)].user = u
      /\ r.thrown = FALSE
      /\ f = Emplace(e, c, sym)
      /\ Increasing(f)
  BY <1>1, <1>3, LocalInsertAt
<1>. HIDE DEF sym, f, r
<1>14. e \in Seq(Symbol) /\ c \in 1 .. (Len(e) + 1) /\ sym \in Symbol /\ f = Emplace(e, c, sym)
      /\ p \in Seq(Symbol) /\ Len(p) = i
  BY <1>1, <1>3, <1>4
<1>5. /\ f \in Seq(Symbol) /\ Len(f) = Len(e) + 1
      /\ \A j \in 1 .. (c - 1) : f[j] = e[j]
      /\ f[c] = sym
      /\ \A j \in (c + 1) .. (Len(e) + 1) : f[j] = e[j - 1]
  <2>1. f \in Seq(Symbol) /\ Emplaced(e, c, sym, f)
    BY <1>14, EmplaceSymbol
  <2>2. QED
    BY <2>1 DEF Emplaced
<1>6. /\ q \in Seq(Symbol) /\ Len(q) = i + 1
      /\ \A j \in 1 .. i : q[j] = p[j]
      /\ q[i + 1] = sym
  BY <1>14
<1>. HIDE DEF q
<1>7. c = k + i /\ id = <<u, first + i>>
  BY DEF c, id
<1>8. ASSUME NEW j \in 1 .. (i + 1)
      PROVE  /\ q[j] = f[k + j - 1]
             /\ q[j].id = <<u, first + j - 1>>
             /\ q[j].pos[Len(q[j].pos)].user = u
  <2>1. CASE j = i + 1
    <3>1. q[j] = sym /\ k + j - 1 = c /\ first + j - 1 = first + i
      BY <1>2, <1>6, <1>7, <2>1
    <3>2. QED
      BY <1>4, <1>5, <1>7, <3>1
  <2>2. CASE j # i + 1
    <3>1. j \in 1 .. i /\ k + j - 1 \in 1 .. (c - 1)
      BY <1>2, <1>7, <2>2
    <3>2. q[j] = p[j] /\ p[j] = e[k + j - 1] /\ f[k + j - 1] = e[k + j - 1]
      BY <1>1, <1>5, <1>6, <3>1
    <3>3. QED
      BY <1>1, <3>1, <3>2
  <2>3. QED
    BY <2>1, <2>2
<1>9. ASSUME NEW j \in 1 .. (k - 1) PROVE f[j] = d[j]
  <2>1. j \in 1 .. (c - 1)
    BY <1>2, <1>7
  <2>2. QED
    BY <1>1, <1>5, <2>1
<1>10. ASSUME NEW j \in (k + (i + 1)) .. (Len(d) + (i + 1)) PROVE f[j] = d[j - (i + 1)]
  <2>1. j \in (c + 1) .. (Len(e) + 1) /\ j - 1 \in (k + i) .. (Len(d) + i)
        /\ (j - 1) - i = j - (i + 1)
    BY <1>1, <1>2, <1>7
  <2>2. f[j] = e[j - 1] /\ e[j - 1] = d[(j - 1) - i]
    BY <1>1, <1>5, <2>1
  <2>3. QED
    BY <2>1, <2>2
<1>11. Len(f) = Len(d) + (i + 1)
  BY <1>1, <1>2, <1>5
<1>12. TypedSoFar(d, k, u, first, [doc |-> f, syms |-> q, thrown |-> r.thrown], i + 1)
  BY <1>4, <1>5, <1>6, <1>8, <1>9, <1>10, <1>11 DEF TypedSoFar
<1>13. QED
  BY <1>4, <1>12 DEF e, c, id, r, sym, p, f, q

\* The list with n symbols put in one after the other from index k on.
IsSplice(d, k, n, e, q) ==
  /\ Len(e) = Len(d) + n /\ Len(q) = n
  /\ \A j \in 1 .. n : q[j] = e[k + j - 1]
  /\ \A j \in 1 .. (k - 1) : e[j] = d[j]
  /\ \A j \in (k + n) .. (Len(d) + n) : e[j] = d[j - n]

\* Of a list in order into which symbols were spliced, both the symbols spliced in and
\* the others are in order.
LEMMA Spliced ==
  ASSUME NEW d \in Seq(Symbol), NEW k \in 1 .. (Len(d) + 1), NEW n \in Nat,
         NEW e \in Seq(Symbol), NEW q \in Seq(Symbol), Increasing(e), IsSplice(d, k, n, e, q)
  PROVE  /\ Increasing(q) /\ Range(e) = Range(d) \cup Range(q)
         /\ \A s \in Range(d), x \in Range(q) : s.pos # x.pos
<1>. USE DEF IsSplice
<1>0. /\ Len(d) \in Nat /\ k \in Nat /\ Len(e) \in Nat
      /\ \A j \in 1 .. Len(e) : e[j] \in Symbol
  OBVIOUS
<1>1. Increasing(q)
  <2>1. SUFFICES ASSUME NEW i \in 1 .. n, NEW j \in 1 .. n, i < j
                 PROVE  PosLess(q[i].pos, q[j].pos)
    BY DEF Increasing
  <2>2. k + i - 1 \in 1 .. Len(e) /\ k + j - 1 \in 1 .. Len(e) /\ k + i - 1 < k + j - 1
    BY <1>0, <2>1
  <2>3. PosLess(e[k + i - 1].pos, e[k + j - 1].pos)
    BY <2>2 DEF Increasing
  <2>4. QED
    BY <2>3
<1>. DEFINE Old(l) == IF l < k THEN l ELSE l + n
<1>2. ASSUME NEW l \in 1 .. Len(d)
      PROVE  /\ Old(l) \in 1 .. Len(e) /\ e[Old(l)] = d[l]
             /\ \A j \in 1 .. n : Old(l) # k + j - 1
  <2>1. CASE l < k
    <3>1. l \in 1 .. (k - 1) /\ l \in 1 .. Len(e) /\ \A j \in 1 .. n : l # k + j - 1
      BY <1>0, <2>1
    <3>2. QED
      BY <2>1, <3>1
  <2>2. CASE ~ (l < k)
    <3>1. l + n \in (k + n) .. (Len(d) + n) /\ (l + n) - n = l /\ l + n \in 1 .. Len(e)
      BY <1>0, <2>2
    <3>4. \A j \in 1 .. n : l + n # k + j - 1
      BY <1>0, <2>2
    <3>2. e[l + n] = d[(l + n) - n]
      BY <3>1
    <3>3. QED
      BY <2>2, <3>1, <3>2, <3>4
  <2>3. QED
    BY <2>1, <2>2
<1>. HIDE DEF Old
<1>3. \A x : x \in Range(d) <=> \E l \in 1 .. Len(d) : d[l] = x
  BY InRange
<1>4. \A x : x \in Range(e) <=> \E l \in 1 .. Len(e) : e[l] = x
  BY InRange
<1>5. \A x : x \in Range(q) <=> \E j \in 1 .. n : q[j] = x
  <2>1. \A x : x \in Range(q) <=> \E j \in 1 .. Len(q) : q[j] = x
    BY InRange
  <2>2. QED
    BY <2>1
<1>6. ASSUME NEW l \in 1 .. Len(d), NEW j \in 1 .. n PROVE d[l].pos # q[j].pos
  <2>. DEFINE a == Old(l)
              b == k + j - 1
  <2>1. b \in 1 .. Len(e) /\ e[b] = q[j]
    BY <1>0
  <2>2. a \in 1 .. Len(e) /\ e[a] = d[l] /\ a # b
    BY <1>2
  <2>. HIDE DEF a, b
  <2>3. a < b \/ b < a
    BY <1>0, <2>1, <2>2
  <2>4. PosLess(e[a].pos, e[b].pos) \/ PosLess(e[b].pos, e[a].pos)
    BY <2>1, <2>2, <2>3 DEF Increasing
  <2>5. e[a] \in Symbol /\ e[b] \in Symbol
    BY <1>0, <2>1, <2>2
  <2>6. e[a].pos # e[b].pos
    BY <2>4, <2>5, SymbolOrder
  <2>7. QED
    BY <2>1, <2>2, <2>6
<1>7. ASSUME NEW l \in 1 .. Len(e) PROVE e[l] \in Range(d) \/ e[l] \in Range(q)
  <2>1. CASE l < k
    <3>1. l \in 1 .. (k - 1) /\ l \in 1 .. Len(d)
      BY <1>0, <2>1
    <3>2. QED
      BY <1>3, <3>1
  <2>2. CASE l >= k /\ l < k + n
    <3>1. l - k + 1 \in 1 .. n /\ k + (l - k + 1) - 1 = l
      BY <1>0, <2>2
    <3>2. q[l - k + 1] = e[l]
      BY <3>1
    <3>3. QED
      BY <1>5, <3>1, <3>2
  <2>3. CASE l >= k + n
    <3>1. l \in (k + n) .. (Len(d) + n) /\ l - n \in 1 .. Len(d)
      BY <1>0, <2>3
    <3>2. e[l] = d[l - n]
      BY <3>1
    <3>3. QED
      BY <1>3, <3>1, <3>2
  <2>4. QED
    BY <1>0, <2>1, <2>2, <2>3
<1>8. ASSUME NEW j \in 1 .. n PROVE q[j] \in Range(e)
  <2>1. k + j - 1 \in 1 .. Len(e) /\ q[j] = e[k + j - 1]
    BY <1>0
  <2>2. QED
    BY <1>4, <2>1
<1>9. \A x : x \in Range(e) <=> x \in Range(d) \/ x \in Range(q)
  BY <1>2, <1>3, <1>4, <1>5, <1>7, <1>8
<1>10. \A s \in Range(d), x \in Range(q) : s.pos # x.pos
  BY <1>3, <1>5, <1>6
<1>11. QED
  BY <1>1, <1>9, <1>10

\* What an edit adds, where findPosition does not throw: as many symbols as
\* characters, in order, with the identifiers that follow on the counter and
\* positions of the user's that the document does not have.
Enters(d, u, first, n, t) ==
  /\ t.doc \in Seq(Symbol) /\ Increasing(t.doc)
  /\ t.syms \in Seq(Symbol) /\ Increasing(t.syms) /\ Len(t.syms) = n
  /\ Range(t.doc) = Range(d) \cup Range(t.syms)
  /\ \A s \in Range(d), x \in Range(t.syms) : s.pos # x.pos
  /\ \A j \in 1 .. n : /\ t.syms[j].id = <<u, first + j - 1>>
                       /\ t.syms[j].pos[Len(t.syms[j].pos)].user = u

\* The loop over the characters of an edit enters all of them.
LEMMA TypedAll ==
  ASSUME NEW d \in Seq(Symbol), Increasing(d), NEW k \in 1 .. (Len(d) + 1),
         NEW u \in Nat, NEW first \in Nat, NEW n \in Nat,
         ~ Typed(u, d, k, first, n).thrown
  PROVE  Enters(d, u, first, n, Typed(u, d, k, first, n))
<1>1. PICK g : /\ g[0] = [doc |-> d, syms |-> << >>, thrown |-> FALSE]
               /\ \A i \in 1 .. n : g[i] = TypeStep(u, k, first, g[i - 1], [j \in 1 .. n |-> j - 1][i])
               /\ Typed(u, d, k, first, n) = g[n]
  BY TypedFold
<1>. DEFINE P(i) == g[i].thrown \/ (g[i].thrown = FALSE /\ TypedSoFar(d, k, u, first, g[i], i))
            S == {i \in Nat : i <= n => P(i)}
<1>2. Len(d) \in Nat /\ k \in Nat /\ \A j \in 1 .. Len(d) : d[j] \in Symbol
  OBVIOUS
<1>3. 0 \in S
  <2>1. g[0].doc = d /\ g[0].syms = << >> /\ g[0].thrown = FALSE
    BY <1>1
  <2>2. << >> \in Seq(Symbol) /\ Len(<< >>) = 0
    OBVIOUS
  <2>3. TypedSoFar(d, k, u, first, g[0], 0)
    BY <1>2, <2>1, <2>2 DEF TypedSoFar
  <2>4. QED
    BY <2>1, <2>3
<1>4. ASSUME NEW i \in Nat, i \in S PROVE i + 1 \in S
  <2>1. ASSUME i + 1 <= n PROVE P(i + 1)
    <3>1. P(i) /\ i + 1 \in 1 .. n /\ (i + 1) - 1 = i /\ [j \in 1 .. n |-> j - 1][i + 1] = i
      BY <1>4, <2>1
    <3>. DEFINE at == g[i]
                r == LocalInsert(at.doc, k + i, <<u, first + i>>)
                new == [doc |-> r.doc, syms |-> Append(at.syms, r.sym), thrown |-> r.thrown]
    <3>2. g[i + 1] = IF at.thrown THEN at ELSE new
      BY <1>1, <3>1 DEF TypeStep
    <3>3. new.thrown = r.thrown
      OBVIOUS
    <3>. HIDE DEF new
    <3>4. CASE at.thrown
      BY <3>2, <3>4
    <3>5. CASE ~ at.thrown /\ r.thrown
      BY <3>2, <3>3, <3>5
    <3>6. CASE ~ at.thrown /\ ~ r.thrown
      <4>1. TypedSoFar(d, k, u, first, at, i)
        BY <3>1, <3>6
      <4>. HIDE DEF at
      <4>2. r.thrown = FALSE /\ TypedSoFar(d, k, u, first, new, i + 1)
        BY <3>6, <4>1, TypeOne DEF new
      <4>. HIDE DEF r
      <4>3. QED
        BY <3>2, <3>3, <3>6, <4>2
    <3>7. QED
      BY <3>4, <3>5, <3>6
  <2>. HIDE DEF P
  <2>2. QED
    BY <2>1
<1>. DEFINE t == Typed(u, d, k, first, n)
<1>5. TypedSoFar(d, k, u, first, t, n)
  <2>1. Nat \subseteq S
    <3>. HIDE DEF S
    <3>1. QED
      BY <1>3, <1>4, Counting
  <2>2. n \in S
    BY <2>1
  <2>3. P(n)
    BY <2>2
  <2>4. QED
    BY <1>1, <2>3
<1>. HIDE DEF t
<1>6. /\ t.doc \in Seq(Symbol) /\ Increasing(t.doc) /\ Len(t.doc) = Len(d) + n
      /\ t.syms \in Seq(Symbol) /\ Len(t.syms) = n
      /\ \A j \in 1 .. n : /\ t.syms[j] = t.doc[k + j - 1]
                           /\ t.syms[j].id = <<u, first + j - 1>>
                           /\ t.syms[j].pos[Len(t.syms[j].pos)].user = u
      /\ \A j \in 1 .. (k - 1) : t.doc[j] = d[j]
      /\ \A j \in (k + n) .. (Len(d) + n) : t.doc[j] = d[j - n]
  BY <1>5 DEF TypedSoFar
<1>7. /\ Increasing(t.syms) /\ Range(t.doc) = Range(d) \cup Range(t.syms)
      /\ \A s \in Range(d), x \in Range(t.syms) : s.pos # x.pos
  <2>. DEFINE e == t.doc
              q == t.syms
  <2>1. /\ e \in Seq(Symbol) /\ q \in Seq(Symbol) /\ Increasing(e)
        /\ IsSplice(d, k, n, e, q)
    BY <1>6 DEF IsSplice
  <2>. HIDE DEF e, q
  <2>2. /\ Increasing(q) /\ Range(e) = Range(d) \cup Range(q)
        /\ \A s \in Range(d), x \in Range(q) : s.pos # x.pos
    BY <2>1, Spliced
  <2>3. QED
    BY <2>2 DEF e, q
<1>8. QED
  <2>1. Enters(d, u, first, n, t)
    BY <1>6, <1>7 DEF Enters
  <2>2. QED
    BY <2>1 DEF t

\* A document after one message.
Applied(at, m) == CASE m.type = "ins" -> RemoteInsertAll(at, m.syms)
                    [] m.type = "del" -> RemoteDeleteAll(at, m.ids).doc
                    [] OTHER -> at

\* The edits among the messages, applied one after the other.
LEMMA ApplyFold ==
  ASSUME NEW S, NEW d, NEW msgs \in Seq(S)
  PROVE  \E g : /\ g[0] = d
                /\ \A i \in 1 .. Len(msgs) : g[i] = Applied(g[i - 1], msgs[i])
                /\ ApplyEdits(d, msgs) = g[Len(msgs)]
<1>. DEFINE Is(F, n) == F = [s \in SUBSET (1 .. n) |->
                              IF s = {} THEN d
                              ELSE Applied(F[s \ {Max(s)}], msgs[Max(s)])]
            R == {n \in Nat : \E F : Is(F, n)}
<1>0. Len(msgs) \in Nat /\ DOMAIN msgs = 1 .. Len(msgs)
  OBVIOUS
<1>1. 0 \in R
  <2>. DEFINE F == [s \in SUBSET (1 .. 0) |-> d]
  <2>1. \A s \in SUBSET (1 .. 0) : s = {}
    OBVIOUS
  <2>2. Is(F, 0)
    BY <2>1
  <2>3. QED
    BY <2>2
<1>2. ASSUME NEW n \in Nat, n \in R PROVE n + 1 \in R
  <2>1. PICK F : Is(F, n)
    BY <1>2
  <2>. DEFINE G == [s \in SUBSET (1 .. (n + 1)) |->
                     IF n + 1 \in s THEN Applied(F[s \ {n + 1}], msgs[(n + 1)]) ELSE F[s]]
  <2>2. ASSUME NEW s \in SUBSET (1 .. (n + 1))
        PROVE  G[s] = IF s = {} THEN d ELSE Applied(G[s \ {Max(s)}], msgs[Max(s)])
    <3>1. CASE n + 1 \in s
      <4>1. Max(s) = n + 1 /\ s \ {n + 1} \in SUBSET (1 .. n)
            /\ s \ {n + 1} \in SUBSET (1 .. (n + 1)) /\ n + 1 \notin s \ {n + 1}
        BY <3>1, LargestIndex
      <4>2. G[s \ {n + 1}] = F[s \ {n + 1}]
        BY <4>1
      <4>3. G[s] = Applied(F[s \ {n + 1}], msgs[(n + 1)])
        BY <3>1
      <4>4. QED
        BY <3>1, <4>1, <4>2, <4>3
    <3>2. CASE n + 1 \notin s
      <4>1. s \in SUBSET (1 .. n) /\ G[s] = F[s]
        BY <3>2
      <4>2. CASE s = {}
        <5>1. F[s] = d
          BY <2>1, <4>1, <4>2
        <5>2. QED
          BY <4>1, <4>2, <5>1
      <4>3. CASE s # {}
        <5>1. s \ {Max(s)} \in SUBSET (1 .. (n + 1)) /\ n + 1 \notin s \ {Max(s)}
          BY <3>2
        <5>2. G[s \ {Max(s)}] = F[s \ {Max(s)}]
          BY <5>1
        <5>3. F[s] = Applied(F[s \ {Max(s)}], msgs[Max(s)])
          BY <2>1, <4>1, <4>3
        <5>4. QED
          BY <4>1, <4>3, <5>2, <5>3
      <4>4. QED
        BY <4>2, <4>3
    <3>3. QED
      BY <3>1, <3>2
  <2>3. G = [s \in SUBSET (1 .. (n + 1)) |-> G[s]]
    OBVIOUS
  <2>. HIDE DEF G
  <2>4. Is(G, n + 1)
    BY <2>2, <2>3
  <2>. HIDE DEF Is
  <2>5. QED
    BY <2>4
<1>. HIDE DEF R
<1>3. Nat \subseteq R
  BY <1>1, <1>2, Counting
<1>4. \E F : Is(F, Len(msgs))
  <2>. HIDE DEF Is
  <2>1. Len(msgs) \in R
    BY <1>0, <1>3
  <2>2. QED
    BY <2>1 DEF R
<1>. DEFINE F == CHOOSE F : Is(F, Len(msgs))
            g == [c \in 0 .. Len(msgs) |-> F[1 .. c]]
<1>5. Is(F, Len(msgs))
  <2>. HIDE DEF Is
  <2>1. QED
    BY <1>4
<1>6. ApplyEdits(d, msgs) = F[1 .. Len(msgs)]
  BY <1>0 DEF ApplyEdits, Applied, FoldLeft, MapThenFoldSet
<1>. HIDE DEF F
<1>7. ASSUME NEW s \in SUBSET (1 .. Len(msgs))
      PROVE  F[s] = IF s = {} THEN d ELSE Applied(F[s \ {Max(s)}], msgs[Max(s)])
  BY <1>5
<1>. HIDE DEF Is
<1>8. g[0] = d
  <2>1. 1 .. 0 = {} /\ g[0] = F[1 .. 0]
    BY <1>0
  <2>2. QED
    BY <1>7, <2>1
<1>9. ASSUME NEW i \in 1 .. Len(msgs) PROVE g[i] = Applied(g[i - 1], msgs[i])
  <2>1. 1 .. i \in SUBSET (1 .. Len(msgs)) /\ 1 .. i # {} /\ i - 1 \in 0 .. Len(msgs)
        /\ (1 .. i) \ {i} = 1 .. (i - 1) /\ i \in 0 .. Len(msgs) /\ Max(1 .. i) = i
    BY <1>0, FirstNumbers
  <2>3. F[1 .. i] = Applied(F[(1 .. i) \ {i}], msgs[i])
    BY <1>7, <2>1
  <2>4. g[i] = F[1 .. i] /\ g[i - 1] = F[1 .. (i - 1)]
    BY <2>1
  <2>5. QED
    BY <2>1, <2>3, <2>4
<1>10. g[Len(msgs)] = F[1 .. Len(msgs)]
  BY <1>0
<1>11. QED
  BY <1>6, <1>8, <1>9, <1>10

\* The symbols a message adds to a document, and those it takes from it: a file
\* takes the place of whatever there was.
Adds(m) == CASE m.type = "ins" -> Range(m.syms)
             [] m.type = "file" -> Range(m.doc)
             [] OTHER -> {}
Takes(m, s) == m.type = "file" \/ (m.type = "del" /\ s.id \in Range(m.ids))

Effect(X, m) == {s \in Symbol : s \in Adds(m) \/ (s \in X /\ ~ Takes(m, s))}

\* The symbols of X and of the first i messages of q that no later one of these
\* takes away.
After(X, q, i) ==
  {s \in Symbol : \E k \in 0 .. i : /\ s \in (IF k = 0 THEN X ELSE Adds(q[k]))
                                    /\ \A j \in (k + 1) .. i : ~ Takes(q[j], s)}

\* No insertion among the messages meets a symbol at one of its positions.
Clear(X, q) ==
  \A i \in 1 .. Len(q) : q[i].type = "ins" =>
     \A s \in Range(q[i].syms), t \in After(X, q, i - 1) : s.pos # t.pos

\* None of the first i messages takes a symbol of A away, or adds one of the
\* identifiers I.
Untaken(q, i, A) == \A j \in 1 .. i : \A a \in A : ~ Takes(q[j], a)
Unadded(q, i, I) == \A j \in 1 .. i : \A s \in Adds(q[j]) : s.id \notin I

Without(X, I) == {s \in X : s.id \notin I}

\* After is the effect of one message after the other.
LEMMA AfterNone ==
  ASSUME NEW X, X \subseteq Symbol, NEW q
  PROVE  After(X, q, 0) = X
<1>1. ASSUME NEW s PROVE s \in After(X, q, 0) <=> s \in X
  BY DEF After
<1>2. QED
  BY <1>1

\* One message more.
LEMMA AfterStep ==
  ASSUME NEW X, NEW q, NEW i \in Nat
  PROVE  After(X, q, i + 1) = Effect(After(X, q, i), q[i + 1])
<1>1. ASSUME NEW s PROVE s \in After(X, q, i + 1) <=> s \in Effect(After(X, q, i), q[i + 1])
  <2>. DEFINE In(k) == s \in (IF k = 0 THEN X ELSE Adds(q[k]))
  <2>1. s \in After(X, q, i + 1) <=>
          s \in Symbol /\ \E k \in 0 .. (i + 1) : In(k) /\ \A j \in (k + 1) .. (i + 1) : ~ Takes(q[j], s)
    BY DEF After
  <2>2. s \in After(X, q, i) <=>
          s \in Symbol /\ \E k \in 0 .. i : In(k) /\ \A j \in (k + 1) .. i : ~ Takes(q[j], s)
    BY DEF After
  <2>3. s \in Effect(After(X, q, i), q[i + 1]) <=>
          s \in Symbol /\ (In(i + 1) \/ (s \in After(X, q, i) /\ ~ Takes(q[i + 1], s)))
    BY DEF Effect
  <2>. HIDE DEF In
  <2>4. ASSUME NEW k \in 0 .. i
        PROVE  (\A j \in (k + 1) .. (i + 1) : ~ Takes(q[j], s))
                 <=> (\A j \in (k + 1) .. i : ~ Takes(q[j], s)) /\ ~ Takes(q[i + 1], s)
    <3>1. i + 1 \in (k + 1) .. (i + 1)
      OBVIOUS
    <3>2. \A j \in (k + 1) .. (i + 1) : j = i + 1 \/ j \in (k + 1) .. i
      OBVIOUS
    <3>3. \A j \in (k + 1) .. i : j \in (k + 1) .. (i + 1)
      OBVIOUS
    <3>4. QED
      BY <3>1, <3>2, <3>3
  <2>5. \A j \in ((i + 1) + 1) .. (i + 1) : FALSE
    OBVIOUS
  <2>6. \A k : k \in 0 .. (i + 1) <=> k \in 0 .. i \/ k = i + 1
    OBVIOUS
  <2>7. QED
    BY <2>1, <2>2, <2>3, <2>4, <2>5, <2>6
<1>2. QED
  BY <1>1

\* Only the messages up to i matter.
LEMMA AfterSame ==
  ASSUME NEW X, NEW q, NEW r, NEW i \in Nat, \A j \in 1 .. i : q[j] = r[j]
  PROVE  After(X, q, i) = After(X, r, i)
<1>1. ASSUME NEW s PROVE s \in After(X, q, i) <=> s \in After(X, r, i)
  <2>1. \A k \in 0 .. i : (IF k = 0 THEN X ELSE Adds(q[k])) = (IF k = 0 THEN X ELSE Adds(r[k]))
    <3>1. \A k \in 0 .. i : k = 0 \/ k \in 1 .. i
      OBVIOUS
    <3>2. QED
      BY <3>1
  <2>2. \A k \in 0 .. i : \A j \in (k + 1) .. i : q[j] = r[j]
    OBVIOUS
  <2>3. QED
    BY <2>1, <2>2 DEF After
<1>2. QED
  BY <1>1

\* A smaller set leaves a smaller set.
LEMMA AfterLess ==
  ASSUME NEW X, NEW Y, X \subseteq Y, NEW q, NEW i \in Nat
  PROVE  After(X, q, i) \subseteq After(Y, q, i)
  BY DEF After

\* The first message may be applied before the others are looked at.
LEMMA AfterTail ==
  ASSUME NEW X, X \subseteq Symbol, NEW S, NEW q \in Seq(S), q # << >>, NEW i \in 0 .. (Len(q) - 1)
  PROVE  After(Effect(X, q[1]), Tail(q), i) = After(X, q, i + 1)
<1>. DEFINE Y == Effect(X, q[1])
            Good == {n \in Nat : n <= Len(q) - 1 => After(Y, Tail(q), n) = After(X, q, n + 1)}
<1>1. Y \subseteq Symbol
  BY DEF Effect
<1>2. 0 \in Good
  <2>1. After(X, q, 0 + 1) = Effect(After(X, q, 0), q[0 + 1])
    BY AfterStep
  <2>2. After(X, q, 1) = Y
    BY <2>1, AfterNone
  <2>3. After(Y, Tail(q), 0) = Y
    BY <1>1, AfterNone
  <2>4. QED
    BY <2>2, <2>3
<1>3. ASSUME NEW n \in Nat, n \in Good PROVE n + 1 \in Good
  <2>. HIDE DEF Y
  <2>1. CASE n + 1 <= Len(q) - 1
    <3>1. Len(q) \in Nat /\ n + 1 \in 1 .. (Len(q) - 1) /\ Tail(q)[n + 1] = q[(n + 1) + 1]
      BY <2>1, TailFacts
    <3>2. After(Y, Tail(q), n) = After(X, q, n + 1)
      BY <1>3, <3>1
    <3>3. After(Y, Tail(q), n + 1) = Effect(After(Y, Tail(q), n), Tail(q)[n + 1])
      BY AfterStep
    <3>4. After(X, q, (n + 1) + 1) = Effect(After(X, q, n + 1), q[(n + 1) + 1])
      BY AfterStep
    <3>5. QED
      BY <3>1, <3>2, <3>3, <3>4
  <2>2. QED
    BY <2>1
<1>. HIDE DEF Good
<1>4. Nat \subseteq Good
  BY <1>2, <1>3, Counting
<1>5. i \in Nat /\ i \in Good
  BY <1>4
<1>6. QED
  BY <1>5 DEF Good

\* Symbols that no message takes away stay.
LEMMA AfterMore ==
  ASSUME NEW X, NEW A, A \subseteq Symbol, NEW q, NEW i \in Nat, Untaken(q, i, A)
  PROVE  After(X \cup A, q, i) = After(X, q, i) \cup A
<1>1. ASSUME NEW s PROVE s \in After(X \cup A, q, i) <=> s \in After(X, q, i) \/ s \in A
  <2>1. ASSUME s \in After(X \cup A, q, i) PROVE s \in After(X, q, i) \/ s \in A
    BY <2>1 DEF After
  <2>2. ASSUME s \in After(X, q, i) PROVE s \in After(X \cup A, q, i)
    BY <2>2, AfterLess
  <2>3. ASSUME s \in A PROVE s \in After(X \cup A, q, i)
    <3>1. s \in Symbol /\ 0 \in 0 .. i /\ \A j \in (0 + 1) .. i : ~ Takes(q[j], s)
      BY <2>3 DEF Untaken
    <3>2. s \in (IF 0 = 0 THEN X \cup A ELSE Adds(q[0]))
      BY <2>3
    <3>3. QED
      BY <3>1, <3>2 DEF After
  <2>4. QED
    BY <2>1, <2>2, <2>3
<1>2. QED
  BY <1>1

\* Identifiers that no message adds may be taken away first or last.
LEMMA AfterFewer ==
  ASSUME NEW X, NEW I, NEW q, NEW i \in Nat, Unadded(q, i, I)
  PROVE  After(Without(X, I), q, i) = Without(After(X, q, i), I)
<1>1. ASSUME NEW s PROVE s \in After(Without(X, I), q, i) <=> s \in After(X, q, i) /\ s.id \notin I
  <2>1. ASSUME s \in After(Without(X, I), q, i) PROVE s \in After(X, q, i) /\ s.id \notin I
    <3>1. PICK k \in 0 .. i : /\ s \in (IF k = 0 THEN Without(X, I) ELSE Adds(q[k]))
                              /\ \A j \in (k + 1) .. i : ~ Takes(q[j], s)
      BY <2>1 DEF After
    <3>2. s \in (IF k = 0 THEN X ELSE Adds(q[k])) /\ s.id \notin I
      <4>1. k # 0 => k \in 1 .. i
        OBVIOUS
      <4>2. QED
        BY <3>1, <4>1 DEF Without, Unadded
    <3>3. s \in Symbol
      BY <2>1 DEF After
    <3>4. QED
      BY <3>1, <3>2, <3>3 DEF After
  <2>2. ASSUME s \in After(X, q, i), s.id \notin I PROVE s \in After(Without(X, I), q, i)
    <3>1. PICK k \in 0 .. i : /\ s \in (IF k = 0 THEN X ELSE Adds(q[k]))
                              /\ \A j \in (k + 1) .. i : ~ Takes(q[j], s)
      BY <2>2 DEF After
    <3>2. s \in (IF k = 0 THEN Without(X, I) ELSE Adds(q[k]))
      BY <2>2, <3>1 DEF Without
    <3>3. s \in Symbol
      BY <2>2 DEF After
    <3>4. QED
      BY <3>1, <3>2, <3>3 DEF After
  <2>3. QED
    BY <2>1, <2>2
<1>2. QED
  BY <1>1 DEF Without

\* What the fields of a message are, and where its symbols are, or were: w is the
\* position every identifier has.
Valid(w, m) ==
  /\ m.type = "ins" => m.syms \in Seq(Symbol) /\ Increasing(m.syms)
  /\ m.type = "file" => m.doc \in Seq(Symbol) /\ Increasing(m.doc)
  /\ m.type = "del" => /\ m.ids \in Seq(Nat \X Nat)
                       /\ \A i, j \in 1 .. Len(m.ids) : i < j => PosLess(w[m.ids[i]], w[m.ids[j]])
  /\ \A s \in Adds(m) : s.pos = w[s.id]

Where == [Nat \X Nat -> Seq(Ident)]

\* What a message adds are symbols.
LEMMA AddsSymbols ==
  ASSUME NEW w, NEW m, Valid(w, m)
  PROVE  Adds(m) \subseteq Symbol
<1>1. CASE m.type = "ins"
  <2>1. Adds(m) = Range(m.syms) /\ m.syms \in Seq(Symbol)
    BY <1>1 DEF Adds, Valid
  <2>2. QED
    BY <2>1, InRange
<1>2. CASE m.type = "file"
  <2>1. Adds(m) = Range(m.doc) /\ m.doc \in Seq(Symbol)
    BY <1>2 DEF Adds, Valid
  <2>2. QED
    BY <2>1, InRange
<1>3. CASE m.type \notin {"ins", "file"}
  BY <1>3 DEF Adds
<1>4. QED
  BY <1>1, <1>2, <1>3

\* Clear messages remain clear: when the first has been applied, when one more is
\* sent, when the last are lost, when symbols appear elsewhere, or disappear.
LEMMA ClearTail ==
  ASSUME NEW X, X \subseteq Symbol, NEW S, NEW q \in Seq(S), q # << >>, Clear(X, q)
  PROVE  Clear(Effect(X, q[1]), Tail(q))
<1>1. SUFFICES ASSUME NEW i \in 1 .. Len(Tail(q)), Tail(q)[i].type = "ins",
                      NEW s \in Range(Tail(q)[i].syms),
                      NEW t \in After(Effect(X, q[1]), Tail(q), i - 1)
               PROVE  s.pos # t.pos
  BY DEF Clear
<1>2. i \in 1 .. (Len(q) - 1) /\ Tail(q)[i] = q[i + 1] /\ i + 1 \in 1 .. Len(q)
      /\ i - 1 \in 0 .. (Len(q) - 1) /\ (i - 1) + 1 = i /\ (i + 1) - 1 = i
  <2>1. Len(Tail(q)) = Len(q) - 1 /\ Len(q) \in Nat
    BY TailFacts
  <2>2. i \in 1 .. (Len(q) - 1)
    BY <2>1
  <2>3. Tail(q)[i] = q[i + 1] /\ i + 1 \in 1 .. Len(q)
    BY <2>2, TailFacts
  <2>4. QED
    BY <2>1, <2>2, <2>3
<1>3. After(Effect(X, q[1]), Tail(q), i - 1) = After(X, q, (i - 1) + 1)
  BY <1>2, AfterTail
<1>4. q[i + 1].type = "ins" /\ s \in Range(q[i + 1].syms) /\ t \in After(X, q, (i + 1) - 1)
  BY <1>1, <1>2, <1>3
<1>5. QED
  BY <1>2, <1>4 DEF Clear

\* When one more is sent.
LEMMA ClearAppend ==
  ASSUME NEW X, NEW S, NEW q \in Seq(S), Clear(X, q), NEW m,
         m.type = "ins" => \A s \in Range(m.syms), t \in After(X, q, Len(q)) : s.pos # t.pos
  PROVE  Clear(X, Append(q, m))
<1>. DEFINE r == Append(q, m)
<1>1. Len(q) \in Nat /\ Len(r) = Len(q) + 1 /\ r[Len(q) + 1] = m
      /\ \A i \in 1 .. Len(q) : r[i] = q[i]
  BY AppendFacts
<1>. HIDE DEF r
<1>2. ASSUME NEW i \in 1 .. Len(r)
      PROVE  /\ i - 1 \in Nat /\ i - 1 <= Len(q) /\ After(X, r, i - 1) = After(X, q, i - 1)
             /\ i \in 1 .. Len(q) \/ (i = Len(q) + 1 /\ i - 1 = Len(q))
  <2>1. i - 1 \in Nat /\ i - 1 <= Len(q) /\ (i \in 1 .. Len(q) \/ (i = Len(q) + 1 /\ i - 1 = Len(q)))
    BY <1>1
  <2>2. \A j \in 1 .. (i - 1) : r[j] = q[j]
    BY <1>1, <2>1
  <2>3. QED
    BY <2>1, <2>2, AfterSame
<1>3. ASSUME NEW i \in 1 .. Len(r), r[i].type = "ins", NEW s \in Range(r[i].syms),
             NEW t \in After(X, r, i - 1)
      PROVE  s.pos # t.pos
  <2>1. CASE i \in 1 .. Len(q)
    BY <1>1, <1>2, <1>3, <2>1 DEF Clear
  <2>2. CASE i = Len(q) + 1
    BY <1>1, <1>2, <1>3, <2>2
  <2>3. QED
    BY <1>2, <2>1, <2>2
<1>4. Clear(X, r)
  BY <1>3 DEF Clear
<1>5. QED
  BY <1>4 DEF r

\* When the last messages are lost.
LEMMA ClearPrefix ==
  ASSUME NEW X, NEW S, NEW q \in Seq(S), Clear(X, q), NEW n \in 0 .. Len(q)
  PROVE  Clear(X, SubSeq(q, 1, n))
<1>. DEFINE r == SubSeq(q, 1, n)
<1>1. Len(r) = n /\ n \in Nat /\ n <= Len(q) /\ Len(q) \in Nat /\ \A i \in 1 .. n : r[i] = q[i]
  OBVIOUS
<1>. HIDE DEF r
<1>2. ASSUME NEW i \in 1 .. n
      PROVE  i \in 1 .. Len(q) /\ After(X, r, i - 1) = After(X, q, i - 1)
  <2>1. i \in 1 .. Len(q) /\ i - 1 \in Nat /\ \A j \in 1 .. (i - 1) : r[j] = q[j]
    BY <1>1
  <2>2. QED
    BY <2>1, AfterSame
<1>3. Clear(X, r)
  BY <1>1, <1>2 DEF Clear
<1>4. QED
  BY <1>3 DEF r

\* When symbols appear elsewhere.
LEMMA ClearMore ==
  ASSUME NEW X, NEW A, A \subseteq Symbol, NEW S, NEW q \in Seq(S), Clear(X, q), Untaken(q, Len(q), A),
         \A j \in 1 .. Len(q) : q[j].type = "ins" =>
            \A s \in Range(q[j].syms), a \in A : s.pos # a.pos
  PROVE  Clear(X \cup A, q)
<1>1. ASSUME NEW i \in 1 .. Len(q)
      PROVE  After(X \cup A, q, i - 1) = After(X, q, i - 1) \cup A
  <2>1. i - 1 \in Nat /\ \A j \in 1 .. (i - 1) : j \in 1 .. Len(q)
    OBVIOUS
  <2>2. Untaken(q, i - 1, A)
    BY <2>1 DEF Untaken
  <2>3. QED
    BY <2>1, <2>2, AfterMore
<1>2. QED
  BY <1>1 DEF Clear

\* When symbols disappear.
LEMMA ClearLess ==
  ASSUME NEW X, NEW Y, X \subseteq Y, NEW S, NEW q \in Seq(S), Clear(Y, q)
  PROVE  Clear(X, q)
<1>1. \A i \in 1 .. Len(q) : After(X, q, i - 1) \subseteq After(Y, q, i - 1)
  <2>1. \A i \in 1 .. Len(q) : i - 1 \in Nat
    OBVIOUS
  <2>2. QED
    BY <2>1, AfterLess
<1>2. QED
  BY <1>1 DEF Clear

\* One message applied to a list in order gives a list in order, of the symbols
\* the message leaves.
LEMMA AppliedOne ==
  ASSUME NEW w \in Where, NEW d \in Seq(Symbol), Increasing(d),
         \A s \in Range(d) : s.pos = w[s.id],
         NEW m, Valid(w, m), m.type # "file",
         m.type = "ins" => \A s \in Range(m.syms), t \in Range(d) : s.pos # t.pos
  PROVE  /\ Applied(d, m) \in Seq(Symbol) /\ Increasing(Applied(d, m))
         /\ Range(Applied(d, m)) = Effect(Range(d), m)
         /\ \A s \in Range(Applied(d, m)) : s.pos = w[s.id]
<1>1. Range(d) \subseteq Symbol
  BY InRange
<1>2. CASE m.type = "ins"
  <2>1. m.syms \in Seq(Symbol) /\ Increasing(m.syms) /\ Adds(m) = Range(m.syms)
        /\ \A s : ~ Takes(m, s)
    BY <1>2 DEF Valid, Adds, Takes
  <2>2. Applied(d, m) = RemoteInsertAll(d, m.syms)
    BY <1>2 DEF Applied
  <2>3. \A t \in Range(d), s \in Range(m.syms) : t.pos # s.pos
    BY <1>2
  <2>4. LET e == RemoteInsertAll(d, m.syms)
        IN  e \in Seq(Symbol) /\ Increasing(e) /\ Range(e) = Range(d) \cup Range(m.syms)
    BY <2>1, <2>3, InsertAll
  <2>5. Range(m.syms) \subseteq Symbol
    BY <2>1, InRange
  <2>6. Effect(Range(d), m) = Range(d) \cup Range(m.syms)
    <3>1. \A s : s \in Effect(Range(d), m) <=> s \in Range(d) \cup Range(m.syms)
      BY <1>1, <2>1, <2>5 DEF Effect
    <3>2. QED
      BY <3>1
  <2>7. \A s \in Range(m.syms) : s.pos = w[s.id]
    BY <2>1 DEF Valid
  <2>8. QED
    BY <2>2, <2>4, <2>6, <2>7
<1>3. CASE m.type = "del"
  <2>1. /\ m.ids \in Seq(Nat \X Nat) /\ Adds(m) = {}
        /\ \A i, j \in 1 .. Len(m.ids) : i < j => PosLess(w[m.ids[i]], w[m.ids[j]])
        /\ \A s : Takes(m, s) <=> s.id \in Range(m.ids)
    BY <1>3 DEF Valid, Adds, Takes
  <2>2. Applied(d, m) = RemoteDeleteAll(d, m.ids).doc
    BY <1>3 DEF Applied
  <2>3. LET r == RemoteDeleteAll(d, m.ids)
        IN  /\ r \in Place /\ Increasing(r.doc)
            /\ Range(r.doc) = {s \in Range(d) : s.id \notin Range(m.ids)}
    BY <2>1, DeleteAll DEF Where
  <2>4. Applied(d, m) \in Seq(Symbol) /\ Increasing(Applied(d, m))
        /\ Range(Applied(d, m)) = {s \in Range(d) : s.id \notin Range(m.ids)}
    BY <2>2, <2>3 DEF Place
  <2>5. \A s : s \in Effect(Range(d), m) <=> s \in {x \in Range(d) : x.id \notin Range(m.ids)}
    BY <1>1, <2>1 DEF Effect
  <2>6. QED
    BY <2>4, <2>5
<1>4. CASE m.type \notin {"ins", "del"}
  <2>1. Applied(d, m) = d /\ Adds(m) = {} /\ \A s : ~ Takes(m, s)
    BY <1>4 DEF Applied, Adds, Takes
  <2>2. \A s : s \in Effect(Range(d), m) <=> s \in Range(d)
    BY <1>1, <2>1 DEF Effect
  <2>3. QED
    BY <2>1, <2>2
<1>5. QED
  BY <1>2, <1>3, <1>4

\* All the edits on the way, applied to a list in order, give a list in order of
\* the symbols they leave.
LEMMA AppliedAll ==
  ASSUME NEW w \in Where, NEW d \in Seq(Symbol), Increasing(d),
         \A s \in Range(d) : s.pos = w[s.id],
         NEW S, NEW q \in Seq(S), Clear(Range(d), q),
         \A i \in 1 .. Len(q) : Valid(w, q[i]) /\ q[i].type # "file"
  PROVE  /\ ApplyEdits(d, q) \in Seq(Symbol) /\ Increasing(ApplyEdits(d, q))
         /\ Range(ApplyEdits(d, q)) = After(Range(d), q, Len(q))
<1>1. PICK g : /\ g[0] = d
               /\ \A i \in 1 .. Len(q) : g[i] = Applied(g[i - 1], q[i])
               /\ ApplyEdits(d, q) = g[Len(q)]
  BY ApplyFold
<1>. DEFINE Fine(e, i) == /\ e \in Seq(Symbol) /\ Increasing(e)
                          /\ Range(e) = After(Range(d), q, i)
                          /\ \A s \in Range(e) : s.pos = w[s.id]
            Done == {i \in Nat : i <= Len(q) => Fine(g[i], i)}
<1>2. 0 \in Done
  <2>1. Range(d) \subseteq Symbol
    BY InRange
  <2>2. After(Range(d), q, 0) = Range(d)
    BY <2>1, AfterNone
  <2>3. QED
    BY <1>1, <2>2
<1>3. ASSUME NEW i \in Nat, i \in Done PROVE i + 1 \in Done
  <2>1. SUFFICES ASSUME i + 1 <= Len(q) PROVE Fine(g[i + 1], i + 1)
    OBVIOUS
  <2>2. i + 1 \in 1 .. Len(q) /\ (i + 1) - 1 = i /\ i <= Len(q)
    BY <2>1
  <2>3. Fine(g[i], i)
    BY <1>3, <2>2
  <2>4. g[i + 1] = Applied(g[i], q[i + 1]) /\ Valid(w, q[i + 1]) /\ q[i + 1].type # "file"
    BY <1>1, <2>2
  <2>5. q[i + 1].type = "ins" => \A s \in Range(q[i + 1].syms), t \in Range(g[i]) : s.pos # t.pos
    BY <2>2, <2>3 DEF Clear
  <2>6. /\ Applied(g[i], q[i + 1]) \in Seq(Symbol) /\ Increasing(Applied(g[i], q[i + 1]))
        /\ Range(Applied(g[i], q[i + 1])) = Effect(Range(g[i]), q[i + 1])
        /\ \A s \in Range(Applied(g[i], q[i + 1])) : s.pos = w[s.id]
    BY <2>3, <2>4, <2>5, AppliedOne
  <2>7. After(Range(d), q, i + 1) = Effect(After(Range(d), q, i), q[i + 1])
    BY AfterStep
  <2>8. QED
    BY <2>3, <2>4, <2>6, <2>7
<1>. HIDE DEF Done
<1>4. Nat \subseteq Done
  BY <1>2, <1>3, Counting
<1>5. Len(q) \in Nat /\ Len(q) \in Done
  BY <1>4
<1>6. Fine(g[Len(q)], Len(q))
  BY <1>5 DEF Done
<1>7. QED
  BY <1>1, <1>6

\* The author of a symbol's position.
Owner(s) == s.pos[Len(s.pos)].user

\* An identifier the server's rows have accounted for; one that u may know when its
\* own counter has come to n.
Old(row, x) == x[1] \in Users => x[2] < row[x[1]]
Older(row, u, n, x) == x[1] \in Users => x[2] < (IF x[1] = u THEN n ELSE row[x[1]])

\* A message of u, whose counter was a when it was written and b afterwards.
SentBy(row, u, m, a, b) ==
  /\ m.type # "file"
  /\ m.type = "ins" =>
       /\ b = a + Len(m.syms)
       /\ \A j \in 1 .. Len(m.syms) : m.syms[j].id = <<u, a + j - 1>> /\ Owner(m.syms[j]) = u
  /\ m.type # "ins" => b = a
  /\ m.type = "del" => \A x \in Range(m.ids) : Older(row, u, a, x)

\* c is the counter of u before and after each of its messages on the way; the row
\* is where it starts, n where it ends.
Counts(row, u, q, c, n) ==
  /\ c \in [Nat -> Nat] /\ c[0] = row[u] /\ c[Len(q)] = n
  /\ \A i \in 1 .. Len(q) : SentBy(row, u, q[i], c[i - 1], c[i])
  /\ \A i, j \in 0 .. Len(q) : i <= j => c[i] <= c[j]

\* What the server will receive from u fits its document, of the symbols X.
Sends(w, row, u, X, q, n) ==
  /\ Clear(X, q)
  /\ \A i \in 1 .. Len(q) : Valid(w, q[i])
  /\ \E c : Counts(row, u, q, c, n)

\* The symbols of a message of u are u's own, numbered between its counters.
LEMMA SentAdds ==
  ASSUME NEW w, NEW row, NEW u, NEW m, NEW a \in Nat, NEW b \in Nat,
         Valid(w, m), SentBy(row, u, m, a, b)
  PROVE  /\ a <= b
         /\ \A s \in Adds(m) : /\ s \in Symbol /\ s.id[1] = u /\ a <= s.id[2] /\ s.id[2] < b
                               /\ Owner(s) = u /\ s.pos = w[s.id]
<1>1. CASE m.type = "ins"
  <2>1. m.syms \in Seq(Symbol) /\ Adds(m) = Range(m.syms) /\ Len(m.syms) \in Nat
    BY <1>1 DEF Valid, Adds
  <2>2. ASSUME NEW s \in Range(m.syms)
        PROVE  s \in Symbol /\ s.id[1] = u /\ a <= s.id[2] /\ s.id[2] < b /\ Owner(s) = u
    <3>1. PICK j \in 1 .. Len(m.syms) : m.syms[j] = s
      BY <2>1, InRange
    <3>2. m.syms[j].id = <<u, a + j - 1>> /\ Owner(m.syms[j]) = u /\ b = a + Len(m.syms)
      BY <1>1 DEF SentBy
    <3>3. s.id[1] = u /\ s.id[2] = a + j - 1 /\ s \in Symbol
      BY <2>1, <3>1, <3>2
    <3>4. QED
      BY <2>1, <3>1, <3>2, <3>3
  <2>3. a <= b
    BY <1>1, <2>1 DEF SentBy
  <2>4. QED
    BY <2>1, <2>2, <2>3 DEF Valid
<1>2. CASE m.type # "ins"
  BY <1>2 DEF SentBy, Adds
<1>3. QED
  BY <1>1, <1>2

\* The server has received the first message.
LEMMA SendsTail ==
  ASSUME NEW w, NEW row, NEW u \in Users, NEW X, X \subseteq Symbol, NEW S, NEW q \in Seq(S),
         NEW n, Sends(w, row, u, X, q, n), q # << >>, NEW row2 \in [Users -> Nat],
         \A v \in Users \ {u} : row2[v] = row[v], row \in [Users -> Nat],
         row2[u] = row[u] + (IF q[1].type = "ins" THEN Len(q[1].syms) ELSE 0)
  PROVE  Sends(w, row2, u, Effect(X, q[1]), Tail(q), n)
<1>1. /\ Len(q) \in Nat \ {0} /\ Len(Tail(q)) = Len(q) - 1 /\ Tail(q) \in Seq(S)
      /\ \A i \in 1 .. (Len(q) - 1) : Tail(q)[i] = q[i + 1] /\ i + 1 \in 1 .. Len(q)
  BY TailFacts
<1>2. Clear(Effect(X, q[1]), Tail(q))
  BY ClearTail DEF Sends
<1>3. \A i \in 1 .. Len(Tail(q)) : Valid(w, Tail(q)[i])
  BY <1>1 DEF Sends
<1>4. PICK c : Counts(row, u, q, c, n)
  BY DEF Sends
<1>. DEFINE c2 == [i \in Nat |-> c[i + 1]]
<1>5. c2 \in [Nat -> Nat] /\ \A i \in Nat : c2[i] = c[i + 1]
  <2>1. c \in [Nat -> Nat]
    BY <1>4 DEF Counts
  <2>2. ASSUME NEW i \in Nat PROVE c[i + 1] \in Nat
    <3>1. i + 1 \in Nat
      OBVIOUS
    <3>2. QED
      BY <2>1, <3>1
  <2>3. QED
    BY <2>2
<1>. HIDE DEF c2
<1>6. c2[0] = row2[u]
  <2>1. SentBy(row, u, q[1], c[1 - 1], c[1]) /\ c[0] = row[u] /\ c[0] \in Nat
    BY <1>1, <1>4 DEF Counts
  <2>2. c[1] = c[0] + (IF q[1].type = "ins" THEN Len(q[1].syms) ELSE 0)
    BY <2>1 DEF SentBy
  <2>3. c2[0] = c[1]
    BY <1>5
  <2>. DEFINE more == IF q[1].type = "ins" THEN Len(q[1].syms) ELSE 0
  <2>4. c[1] = c[0] + more /\ row2[u] = row[u] + more
    BY <2>2
  <2>. HIDE DEF more
  <2>5. QED
    BY <2>1, <2>3, <2>4
<1>7. c2[Len(Tail(q))] = n
  BY <1>1, <1>4, <1>5 DEF Counts
<1>8. ASSUME NEW i \in 1 .. Len(Tail(q))
      PROVE  SentBy(row2, u, Tail(q)[i], c2[i - 1], c2[i])
  <2>1. i \in 1 .. (Len(q) - 1) /\ i - 1 \in Nat /\ (i - 1) + 1 = i /\ (i + 1) - 1 = i
        /\ i \in Nat
    BY <1>1
  <2>2. SentBy(row, u, q[i + 1], c[(i + 1) - 1], c[i + 1])
    BY <1>1, <1>4, <2>1 DEF Counts
  <2>3. SentBy(row, u, Tail(q)[i], c2[i - 1], c2[i])
    BY <1>1, <1>5, <2>1, <2>2
  <2>4. \A x : Older(row, u, c2[i - 1], x) => Older(row2, u, c2[i - 1], x)
    BY DEF Older
  <2>5. QED
    BY <2>3, <2>4 DEF SentBy
<1>9. \A i, j \in 0 .. Len(Tail(q)) : i <= j => c2[i] <= c2[j]
  <2>1. ASSUME NEW i \in 0 .. Len(Tail(q)), NEW j \in 0 .. Len(Tail(q)), i <= j
        PROVE  c2[i] <= c2[j]
    <3>1. i + 1 \in 0 .. Len(q) /\ j + 1 \in 0 .. Len(q) /\ i + 1 <= j + 1 /\ i \in Nat /\ j \in Nat
      BY <1>1, <2>1
    <3>2. c[i + 1] <= c[j + 1]
      BY <1>4, <3>1 DEF Counts
    <3>3. QED
      BY <1>5, <3>1, <3>2
  <2>2. QED
    BY <2>1
<1>10. Counts(row2, u, Tail(q), c2, n)
  BY <1>5, <1>6, <1>7, <1>8, <1>9 DEF Counts
<1>11. QED
  BY <1>2, <1>3, <1>10 DEF Sends

\* A message of u on the way, by which its counter has come to at most n.
OwnMessage(w, row, u, m, n) ==
  /\ m.type # "file" /\ Valid(w, m)
  /\ \A s \in Adds(m) : /\ s \in Symbol /\ s.id[1] = u /\ row[u] <= s.id[2] /\ s.id[2] < n
                        /\ Owner(s) = u /\ s.pos = w[s.id]
  /\ m.type = "del" => \A x \in Range(m.ids) : Older(row, u, n, x)

\* The bounds of the counters on the way.
LEMMA SendsBounds ==
  ASSUME NEW w, NEW row \in [Users -> Nat], NEW u \in Users, NEW X, NEW S, NEW q \in Seq(S),
         NEW n, Sends(w, row, u, X, q, n)
  PROVE  /\ n \in Nat /\ row[u] <= n
         /\ \A i \in 1 .. Len(q) : OwnMessage(w, row, u, q[i], n)
<1>1. PICK c : Counts(row, u, q, c, n)
  BY DEF Sends
<1>2. Len(q) \in Nat /\ 0 \in 0 .. Len(q) /\ Len(q) \in 0 .. Len(q) /\ 0 <= Len(q)
  OBVIOUS
<1>3. n \in Nat /\ row[u] <= n
  BY <1>1, <1>2 DEF Counts
<1>4. ASSUME NEW i \in 1 .. Len(q)
      PROVE  OwnMessage(w, row, u, q[i], n)
  <2>1. /\ i - 1 \in 0 .. Len(q) /\ i \in 0 .. Len(q) /\ i <= Len(q) /\ 0 <= i - 1
        /\ i - 1 <= Len(q) /\ i - 1 \in Nat /\ i \in Nat
    BY <1>2
  <2>2. SentBy(row, u, q[i], c[i - 1], c[i]) /\ Valid(w, q[i])
    BY <1>1 DEF Counts, Sends
  <2>3. c[i - 1] \in Nat /\ c[i] \in Nat /\ row[u] <= c[i - 1] /\ c[i] <= n /\ c[i - 1] <= n
    BY <1>1, <1>2, <2>1 DEF Counts
  <2>4. \A s \in Adds(q[i]) : /\ s \in Symbol /\ s.id[1] = u /\ c[i - 1] <= s.id[2] /\ s.id[2] < c[i]
                              /\ Owner(s) = u /\ s.pos = w[s.id]
    BY <2>2, <2>3, SentAdds
  <2>5. \A s \in Adds(q[i]) : row[u] <= s.id[2] /\ s.id[2] < n
    <3>1. SUFFICES ASSUME NEW s \in Adds(q[i]) PROVE row[u] <= s.id[2] /\ s.id[2] < n
      OBVIOUS
    <3>2. s.id[2] \in Nat /\ c[i - 1] <= s.id[2] /\ s.id[2] < c[i] /\ row[u] \in Nat
      BY <2>4 DEF Symbol
    <3>3. QED
      BY <1>3, <2>3, <3>2
  <2>6. ASSUME q[i].type = "del" PROVE \A x \in Range(q[i].ids) : Older(row, u, n, x)
    <3>1. \A x \in Range(q[i].ids) : Older(row, u, c[i - 1], x) /\ x \in Nat \X Nat
      <4>1. q[i].ids \in Seq(Nat \X Nat)
        BY <2>2, <2>6 DEF Valid
      <4>2. Range(q[i].ids) \subseteq Nat \X Nat
        BY <4>1, InRange
      <4>3. QED
        BY <2>2, <2>6, <4>2 DEF SentBy
    <3>2. QED
      BY <1>3, <2>3, <3>1 DEF Older
  <2>7. QED
    BY <2>2, <2>4, <2>5, <2>6 DEF SentBy, OwnMessage
<1>5. QED
  BY <1>3, <1>4

\* The server has received an insertion of somebody else.
LEMMA SendsOther ==
  ASSUME NEW w, NEW row \in [Users -> Nat], NEW v \in Users, NEW X, NEW S, NEW q \in Seq(S),
         NEW n, Sends(w, row, v, X, q, n), NEW u \in Users \ {v},
         NEW row2 \in [Users -> Nat], row2[v] = row[v], \A x \in Users : row[x] <= row2[x],
         NEW A, A \subseteq Symbol,
         \A a \in A : a.id[1] = u /\ row[u] <= a.id[2] /\ Owner(a) = u
  PROVE  Sends(w, row2, v, X \cup A, q, n)
<1>1. ASSUME NEW i \in 1 .. Len(q)
      PROVE  /\ q[i].type # "file" /\ Valid(w, q[i])
             /\ \A s \in Adds(q[i]) : Owner(s) = v
             /\ q[i].type = "del" => \A x \in Range(q[i].ids) : Older(row, v, n, x)
  <2>1. OwnMessage(w, row, v, q[i], n)
    BY SendsBounds
  <2>2. QED
    BY <2>1 DEF OwnMessage
<1>2. Untaken(q, Len(q), A)
  <2>1. SUFFICES ASSUME NEW j \in 1 .. Len(q), NEW a \in A, Takes(q[j], a) PROVE FALSE
    BY DEF Untaken
  <2>2. q[j].type = "del" /\ a.id \in Range(q[j].ids)
    BY <1>1, <2>1 DEF Takes
  <2>3. Older(row, v, n, a.id) /\ a.id[1] = u /\ row[u] <= a.id[2]
    BY <1>1, <2>2
  <2>4. a.id[2] < row[u] /\ a.id[2] \in Nat /\ row[u] \in Nat
    BY <2>3 DEF Older, Symbol
  <2>5. QED
    BY <2>3, <2>4
<1>3. \A j \in 1 .. Len(q) : q[j].type = "ins" =>
         \A s \in Range(q[j].syms), a \in A : s.pos # a.pos
  <2>1. SUFFICES ASSUME NEW j \in 1 .. Len(q), q[j].type = "ins",
                        NEW s \in Range(q[j].syms), NEW a \in A, s.pos = a.pos
                 PROVE  FALSE
    OBVIOUS
  <2>2. s \in Adds(q[j])
    BY <2>1 DEF Adds
  <2>3. Owner(s) = v /\ Owner(a) = u
    BY <1>1, <2>2
  <2>4. QED
    BY <2>1, <2>3 DEF Owner
<1>4. Clear(X \cup A, q)
  BY <1>2, <1>3, ClearMore DEF Sends
<1>5. PICK c : Counts(row, v, q, c, n)
  BY DEF Sends
<1>6. Counts(row2, v, q, c, n)
  <2>1. ASSUME NEW i \in 1 .. Len(q)
        PROVE  SentBy(row2, v, q[i], c[i - 1], c[i])
    <3>1. SentBy(row, v, q[i], c[i - 1], c[i]) /\ Valid(w, q[i])
      BY <1>1, <1>5 DEF Counts
    <3>2. ASSUME q[i].type = "del", NEW x \in Range(q[i].ids)
          PROVE  Older(row2, v, c[i - 1], x)
      <4>1. x \in Nat \X Nat
        <5>1. q[i].ids \in Seq(Nat \X Nat)
          BY <3>1, <3>2 DEF Valid
        <5>2. QED
          BY <3>2, <5>1, InRange
      <4>2. Older(row, v, c[i - 1], x)
        BY <3>1, <3>2 DEF SentBy
      <4>3. QED
        BY <4>1, <4>2 DEF Older
    <3>3. QED
      BY <3>1, <3>2 DEF SentBy
  <2>2. QED
    BY <1>5, <2>1 DEF Counts
<1>7. QED
  BY <1>1, <1>4, <1>6 DEF Sends

\* Symbols have left the document.
LEMMA SendsLess ==
  ASSUME NEW w, NEW row, NEW u, NEW X, NEW Y, Y \subseteq X, NEW S, NEW q \in Seq(S),
         NEW n, Sends(w, row, u, X, q, n)
  PROVE  Sends(w, row, u, Y, q, n)
  BY ClearLess DEF Sends

\* One more message.
LEMMA SendsAppend ==
  ASSUME NEW w, NEW row, NEW u, NEW X, NEW S, NEW q \in Seq(S), NEW n \in Nat,
         Sends(w, row, u, X, q, n), NEW m, NEW k \in Nat, n <= k,
         Valid(w, m), SentBy(row, u, m, n, k),
         m.type = "ins" => \A s \in Range(m.syms), t \in After(X, q, Len(q)) : s.pos # t.pos
  PROVE  Sends(w, row, u, X, Append(q, m), k)
<1>. DEFINE r == Append(q, m)
<1>1. Len(q) \in Nat /\ Len(r) = Len(q) + 1 /\ r[Len(q) + 1] = m
      /\ \A i \in 1 .. Len(q) : r[i] = q[i]
  BY AppendFacts
<1>2. Clear(X, r)
  BY ClearAppend DEF Sends
<1>. HIDE DEF r
<1>3. \A i \in 1 .. Len(r) : i \in 1 .. Len(q) \/ i = Len(q) + 1
  BY <1>1
<1>4. \A i \in 1 .. Len(r) : Valid(w, r[i])
  BY <1>1, <1>3 DEF Sends
<1>5. PICK c : Counts(row, u, q, c, n)
  BY DEF Sends
<1>. DEFINE c2 == [i \in Nat |-> IF i <= Len(q) THEN c[i] ELSE k]
<1>6. c \in [Nat -> Nat] /\ c[0] = row[u] /\ c[Len(q)] = n
      /\ \A i, j \in 0 .. Len(q) : i <= j => c[i] <= c[j]
  BY <1>5 DEF Counts
<1>7. c2 \in [Nat -> Nat] /\ \A i \in Nat : c2[i] = IF i <= Len(q) THEN c[i] ELSE k
  BY <1>6
<1>. HIDE DEF c2
<1>8. c2[0] = row[u] /\ c2[Len(r)] = k
  <2>1. 0 <= Len(q) /\ Len(r) \in Nat /\ ~ (Len(r) <= Len(q)) /\ 0 \in Nat
    BY <1>1
  <2>2. c2[0] = c[0] /\ c2[Len(r)] = k
    BY <1>7, <2>1
  <2>3. QED
    BY <1>6, <2>2
<1>9. ASSUME NEW i \in 1 .. Len(r)
      PROVE  SentBy(row, u, r[i], c2[i - 1], c2[i])
  <2>1. CASE i \in 1 .. Len(q)
    <3>1. i - 1 \in Nat /\ i - 1 <= Len(q) /\ i \in Nat /\ i <= Len(q)
      BY <1>1, <2>1
    <3>2. c2[i - 1] = c[i - 1] /\ c2[i] = c[i] /\ r[i] = q[i]
      BY <1>1, <1>7, <2>1, <3>1
    <3>3. SentBy(row, u, q[i], c[i - 1], c[i])
      BY <1>5, <2>1 DEF Counts
    <3>4. QED
      BY <3>2, <3>3
  <2>2. CASE i = Len(q) + 1
    <3>1. i - 1 = Len(q) /\ i \in Nat /\ ~ (i <= Len(q)) /\ i - 1 \in Nat /\ i - 1 <= Len(q)
      BY <1>1, <2>2
    <3>2. c2[i - 1] = n /\ c2[i] = k /\ r[i] = m
      BY <1>1, <1>6, <1>7, <2>2, <3>1
    <3>3. QED
      BY <3>2
  <2>3. QED
    BY <1>3, <2>1, <2>2
<1>10. ASSUME NEW i \in 0 .. Len(r), NEW j \in 0 .. Len(r), i <= j
       PROVE  c2[i] <= c2[j]
  <2>1. i \in Nat /\ j \in Nat
    BY <1>1
  <2>2. CASE j <= Len(q)
    <3>1. i \in 0 .. Len(q) /\ j \in 0 .. Len(q) /\ i <= Len(q)
      BY <1>1, <1>10, <2>1, <2>2
    <3>2. QED
      BY <1>6, <1>7, <1>10, <2>1, <2>2, <3>1
  <2>3. CASE ~ (j <= Len(q))
    <3>1. c2[j] = k
      BY <1>7, <2>1, <2>3
    <3>2. CASE i <= Len(q)
      <4>1. i \in 0 .. Len(q) /\ Len(q) \in 0 .. Len(q)
        BY <1>1, <2>1, <3>2
      <4>2. c2[i] = c[i] /\ c[i] <= n /\ c[i] \in Nat
        BY <1>6, <1>7, <2>1, <3>2, <4>1
      <4>3. QED
        BY <3>1, <4>2
    <3>3. CASE ~ (i <= Len(q))
      BY <1>7, <2>1, <3>1, <3>3
    <3>4. QED
      BY <3>2, <3>3
  <2>4. QED
    BY <2>2, <2>3
<1>11. Counts(row, u, r, c2, k)
  BY <1>7, <1>8, <1>9, <1>10 DEF Counts
<1>12. Sends(w, row, u, X, r, k)
  BY <1>2, <1>4, <1>11 DEF Sends
<1>13. QED
  BY <1>12 DEF r

\* The last messages are lost.
LEMMA SendsPrefix ==
  ASSUME NEW w, NEW row, NEW u, NEW X, NEW S, NEW q \in Seq(S), NEW n,
         Sends(w, row, u, X, q, n), NEW k \in 0 .. Len(q)
  PROVE  \E j \in Nat : Sends(w, row, u, X, SubSeq(q, 1, k), j)
<1>. DEFINE r == SubSeq(q, 1, k)
<1>1. Len(r) = k /\ k \in Nat /\ k <= Len(q) /\ Len(q) \in Nat /\ \A i \in 1 .. k : r[i] = q[i]
  OBVIOUS
<1>2. Clear(X, r)
  BY ClearPrefix DEF Sends
<1>. HIDE DEF r
<1>3. \A i \in 1 .. Len(r) : Valid(w, r[i])
  BY <1>1 DEF Sends
<1>4. PICK c : Counts(row, u, q, c, n)
  BY DEF Sends
<1>5. Counts(row, u, r, c, c[k])
  <2>1. /\ c \in [Nat -> Nat] /\ c[0] = row[u]
        /\ \A i \in 1 .. Len(q) : SentBy(row, u, q[i], c[i - 1], c[i])
        /\ \A i, j \in 0 .. Len(q) : i <= j => c[i] <= c[j]
    BY <1>4 DEF Counts
  <2>2. ASSUME NEW i \in 1 .. Len(r) PROVE SentBy(row, u, r[i], c[i - 1], c[i])
    <3>1. i \in 1 .. Len(q) /\ r[i] = q[i]
      BY <1>1
    <3>2. QED
      BY <2>1, <3>1
  <2>3. \A i \in 0 .. Len(r) : i \in 0 .. Len(q)
    BY <1>1
  <2>4. \A i, j \in 0 .. Len(r) : i <= j => c[i] <= c[j]
    BY <2>1, <2>3
  <2>5. QED
    BY <1>1, <2>1, <2>2, <2>4 DEF Counts
<1>6. Sends(w, row, u, X, r, c[k]) /\ c[k] \in Nat
  BY <1>1, <1>2, <1>3, <1>4, <1>5 DEF Sends, Counts
<1>7. QED
  BY <1>6 DEF r

\* New identifiers get their positions.
LEMMA ValidMoved ==
  ASSUME NEW w, NEW w2, NEW m, Valid(w, m), \A s \in Adds(m) : w2[s.id] = w[s.id],
         m.type = "del" => \A x \in Range(m.ids) : w2[x] = w[x]
  PROVE  Valid(w2, m)
<1>1. ASSUME m.type = "del", NEW i \in 1 .. Len(m.ids), NEW j \in 1 .. Len(m.ids), i < j
      PROVE  PosLess(w2[m.ids[i]], w2[m.ids[j]])
  <2>1. m.ids \in Seq(Nat \X Nat)
    BY <1>1 DEF Valid
  <2>2. m.ids[i] \in Range(m.ids) /\ m.ids[j] \in Range(m.ids)
    BY <2>1, InRange
  <2>3. w2[m.ids[i]] = w[m.ids[i]] /\ w2[m.ids[j]] = w[m.ids[j]]
    BY <1>1, <2>2
  <2>4. PosLess(w[m.ids[i]], w[m.ids[j]])
    BY <1>1 DEF Valid
  <2>5. QED
    BY <2>3, <2>4
<1>2. \A s \in Adds(m) : s.pos = w2[s.id]
  BY DEF Valid
<1>3. QED
  BY <1>1, <1>2 DEF Valid

\* What is on the way from u does not see it.
LEMMA SendsMoved ==
  ASSUME NEW w, NEW w2, NEW row \in [Users -> Nat], NEW u \in Users, NEW X, NEW S,
         NEW q \in Seq(S), NEW n, Sends(w, row, u, X, q, n),
         \A x \in Nat \X Nat : Older(row, u, n, x) => w2[x] = w[x]
  PROVE  Sends(w2, row, u, X, q, n)
<1>1. ASSUME NEW i \in 1 .. Len(q)
      PROVE  Valid(w2, q[i])
  <2>1. /\ Valid(w, q[i])
        /\ \A s \in Adds(q[i]) : s \in Symbol /\ s.id[1] = u /\ s.id[2] < n
        /\ q[i].type = "del" => \A x \in Range(q[i].ids) : Older(row, u, n, x)
    <3>1. OwnMessage(w, row, u, q[i], n)
      BY SendsBounds
    <3>2. QED
      BY <3>1 DEF OwnMessage
  <2>2. \A s \in Adds(q[i]) : s.id \in Nat \X Nat /\ Older(row, u, n, s.id)
    BY <2>1 DEF Older, Symbol
  <2>3. \A s \in Adds(q[i]) : w2[s.id] = w[s.id]
    BY <2>2
  <2>4. ASSUME q[i].type = "del", NEW x \in Range(q[i].ids) PROVE w2[x] = w[x]
    <3>1. q[i].ids \in Seq(Nat \X Nat)
      BY <2>1, <2>4 DEF Valid
    <3>2. x \in Nat \X Nat
      BY <2>4, <3>1, InRange
    <3>3. QED
      BY <2>1, <2>4, <3>2
  <2>5. QED
    BY <2>1, <2>3, <2>4, ValidMoved
<1>2. QED
  BY <1>1 DEF Sends

\* A message the server has passed on to u.
Passed(row, u, m) ==
  /\ \A s \in Adds(m) : Old(row, s.id)
  /\ m.type = "ins" => \A s \in Adds(m) : s.id[1] # u /\ Owner(s) # u
  /\ m.type = "del" => \A x \in Range(m.ids) : Old(row, x)
  /\ m.type = "file" => m.charId = row[u]

\* The symbols D in the editor of u, whose counter is n.
Held(w, row, u, D, n) ==
  /\ D \subseteq Symbol
  /\ \A s \in D : s.pos = w[s.id] /\ Older(row, u, n, s.id)

\* No insertion brings an identifier that was there, or came, before.
Fresh(D, r) ==
  \A i \in 1 .. Len(r) : r[i].type = "ins" =>
     \A s \in Adds(r[i]) :
        /\ \A t \in D : s.id # t.id
        /\ \A j \in 1 .. (i - 1) : \A t \in Adds(r[j]) : s.id # t.id

\* What the client of u will receive fits its document, of the symbols D.
Gets(w, row, u, D, r, n) ==
  /\ Held(w, row, u, D, n) /\ Clear(D, r) /\ Fresh(D, r)
  /\ \A i \in 1 .. Len(r) : Valid(w, r[i]) /\ Passed(row, u, r[i])

\* The client has received the first message.
LEMMA GetsTail ==
  ASSUME NEW w, NEW row, NEW u \in Users, NEW D, NEW S, NEW r \in Seq(S), r # << >>, NEW n,
         Gets(w, row, u, D, r, n)
  PROVE  Gets(w, row, u, Effect(D, r[1]), Tail(r), IF r[1].type = "file" THEN r[1].charId ELSE n)
<1>1. /\ Len(r) \in Nat \ {0} /\ Len(Tail(r)) = Len(r) - 1 /\ Tail(r) \in Seq(S)
      /\ \A i \in 1 .. (Len(r) - 1) : Tail(r)[i] = r[i + 1] /\ i + 1 \in 1 .. Len(r)
      /\ 1 \in 1 .. Len(r)
  BY TailFacts
<1>2. Valid(w, r[1]) /\ Passed(row, u, r[1]) /\ Held(w, row, u, D, n)
  BY <1>1 DEF Gets
<1>3. ASSUME NEW s \in Effect(D, r[1])
      PROVE  s \in Symbol /\ (s \in Adds(r[1]) \/ (s \in D /\ r[1].type # "file"))
  BY DEF Effect, Takes
<1>. DEFINE k == IF r[1].type = "file" THEN r[1].charId ELSE n
<1>4. Held(w, row, u, Effect(D, r[1]), k)
  <2>1. ASSUME NEW s \in Adds(r[1]) PROVE s.pos = w[s.id] /\ Older(row, u, k, s.id)
    <3>1. s.pos = w[s.id] /\ Old(row, s.id)
      BY <1>2 DEF Valid, Passed
    <3>2. CASE r[1].type = "file"
      BY <1>2, <3>1, <3>2 DEF Passed, Old, Older
    <3>3. CASE r[1].type = "ins"
      BY <1>2, <3>1, <3>3 DEF Passed, Old, Older
    <3>4. CASE r[1].type \notin {"ins", "file"}
      BY <3>4 DEF Adds
    <3>5. QED
      BY <3>2, <3>3, <3>4
  <2>2. ASSUME NEW s \in D, r[1].type # "file" PROVE s.pos = w[s.id] /\ Older(row, u, k, s.id)
    BY <1>2, <2>2 DEF Held
  <2>. HIDE DEF k
  <2>3. QED
    BY <1>3, <2>1, <2>2 DEF Held
<1>5. Clear(Effect(D, r[1]), Tail(r))
  <2>1. D \subseteq Symbol /\ Clear(D, r)
    BY <1>2 DEF Held, Gets
  <2>2. QED
    BY <2>1, ClearTail
<1>6. Fresh(Effect(D, r[1]), Tail(r))
  <2>1. SUFFICES ASSUME NEW i \in 1 .. Len(Tail(r)), Tail(r)[i].type = "ins",
                        NEW s \in Adds(Tail(r)[i])
                 PROVE  /\ \A t \in Effect(D, r[1]) : s.id # t.id
                        /\ \A j \in 1 .. (i - 1) : \A t \in Adds(Tail(r)[j]) : s.id # t.id
    BY DEF Fresh
  <2>2. i + 1 \in 1 .. Len(r) /\ Tail(r)[i] = r[i + 1] /\ 1 \in 1 .. ((i + 1) - 1)
    BY <1>1
  <2>3. /\ \A t \in D : s.id # t.id
        /\ \A j \in 1 .. ((i + 1) - 1) : \A t \in Adds(r[j]) : s.id # t.id
    BY <2>1, <2>2 DEF Gets, Fresh
  <2>4. \A t \in Adds(r[1]) : s.id # t.id
    BY <2>2, <2>3
  <2>5. ASSUME NEW j \in 1 .. (i - 1) PROVE \A t \in Adds(Tail(r)[j]) : s.id # t.id
    <3>1. j + 1 \in 1 .. ((i + 1) - 1) /\ Tail(r)[j] = r[j + 1]
      BY <1>1
    <3>2. QED
      BY <2>3, <3>1
  <2>6. QED
    BY <1>3, <2>3, <2>4, <2>5
<1>7. \A i \in 1 .. Len(Tail(r)) : Valid(w, Tail(r)[i]) /\ Passed(row, u, Tail(r)[i])
  BY <1>1 DEF Gets
<1>8. QED
  BY <1>4, <1>5, <1>6, <1>7 DEF Gets

\* The user has typed the symbols A: the counter has come from n to k.
LEMMA GetsMore ==
  ASSUME NEW w, NEW row \in [Users -> Nat], NEW u \in Users, NEW D, NEW S, NEW r \in Seq(S),
         NEW n \in Nat, NEW k \in Nat, Gets(w, row, u, D, r, n), row[u] <= n, n <= k,
         \A i \in 1 .. Len(r) : r[i].type # "file",
         NEW A, A \subseteq Symbol,
         \A a \in A : /\ a.id[1] = u /\ n <= a.id[2] /\ a.id[2] < k /\ Owner(a) = u
                      /\ a.pos = w[a.id]
  PROVE  Gets(w, row, u, D \cup A, r, k)
<1>1. Held(w, row, u, D, n) /\ Clear(D, r) /\ Fresh(D, r)
      /\ \A i \in 1 .. Len(r) : Valid(w, r[i]) /\ Passed(row, u, r[i])
  BY DEF Gets
<1>2. Held(w, row, u, D \cup A, k)
  <2>1. ASSUME NEW s \in D PROVE s \in Symbol /\ s.pos = w[s.id] /\ Older(row, u, k, s.id)
    <3>1. s \in Symbol /\ s.pos = w[s.id] /\ Older(row, u, n, s.id) /\ s.id[2] \in Nat
      BY <1>1 DEF Held, Symbol
    <3>2. QED
      BY <3>1 DEF Older
  <2>2. ASSUME NEW s \in A PROVE s \in Symbol /\ s.pos = w[s.id] /\ Older(row, u, k, s.id)
    BY DEF Older
  <2>3. QED
    BY <2>1, <2>2 DEF Held
<1>3. Untaken(r, Len(r), A)
  <2>1. SUFFICES ASSUME NEW j \in 1 .. Len(r), NEW a \in A, Takes(r[j], a) PROVE FALSE
    BY DEF Untaken
  <2>2. r[j].type = "del" /\ a.id \in Range(r[j].ids)
    BY <2>1 DEF Takes
  <2>3. Old(row, a.id)
    BY <1>1, <2>2 DEF Passed
  <2>4. a.id[2] < row[u] /\ a.id[2] \in Nat /\ row[u] \in Nat /\ n <= a.id[2]
    BY <2>3 DEF Old, Symbol
  <2>5. QED
    BY <2>4
<1>4. \A j \in 1 .. Len(r) : r[j].type = "ins" =>
         \A s \in Range(r[j].syms), a \in A : s.pos # a.pos
  <2>1. SUFFICES ASSUME NEW j \in 1 .. Len(r), r[j].type = "ins",
                        NEW s \in Range(r[j].syms), NEW a \in A, s.pos = a.pos
                 PROVE  FALSE
    OBVIOUS
  <2>2. s \in Adds(r[j])
    BY <2>1 DEF Adds
  <2>3. Owner(s) # u /\ Owner(a) = u
    BY <1>1, <2>1, <2>2 DEF Passed
  <2>4. QED
    BY <2>1, <2>3 DEF Owner
<1>5. Clear(D \cup A, r)
  BY <1>1, <1>3, <1>4, ClearMore
<1>6. Fresh(D \cup A, r)
  <2>1. ASSUME NEW i \in 1 .. Len(r), r[i].type = "ins", NEW s \in Adds(r[i]), NEW t \in A
        PROVE  s.id # t.id
    <3>1. s.id[1] # u
      BY <1>1, <2>1 DEF Passed
    <3>2. QED
      BY <3>1
  <2>2. QED
    BY <1>1, <2>1 DEF Fresh
<1>7. QED
  BY <1>1, <1>2, <1>5, <1>6 DEF Gets

\* Symbols have left the editor.
LEMMA GetsLess ==
  ASSUME NEW w, NEW row, NEW u, NEW D, NEW E, E \subseteq D, NEW S, NEW r \in Seq(S), NEW n,
         Gets(w, row, u, D, r, n)
  PROVE  Gets(w, row, u, E, r, n)
<1>1. Held(w, row, u, E, n)
  BY DEF Gets, Held
<1>2. Clear(E, r)
  BY ClearLess DEF Gets
<1>3. Fresh(E, r)
  BY DEF Gets, Fresh
<1>4. QED
  BY <1>1, <1>2, <1>3 DEF Gets

\* The server's rows have grown.
LEMMA GetsRow ==
  ASSUME NEW w, NEW row \in [Users -> Nat], NEW row2 \in [Users -> Nat],
         \A x \in Users : row[x] <= row2[x],
         NEW u \in Users, NEW D, NEW S, NEW r \in Seq(S), NEW n, Gets(w, row, u, D, r, n),
         row2[u] = row[u] \/ \A i \in 1 .. Len(r) : r[i].type # "file"
  PROVE  Gets(w, row2, u, D, r, n)
<1>1. Held(w, row, u, D, n) /\ Clear(D, r) /\ Fresh(D, r)
      /\ \A i \in 1 .. Len(r) : Valid(w, r[i]) /\ Passed(row, u, r[i])
  BY DEF Gets
<1>2. ASSUME NEW x \in Nat \X Nat
      PROVE  /\ Old(row, x) => Old(row2, x)
             /\ Older(row, u, n, x) => Older(row2, u, n, x)
  BY DEF Old, Older
<1>3. Held(w, row2, u, D, n)
  <2>1. \A s \in D : s.id \in Nat \X Nat
    BY <1>1 DEF Held, Symbol
  <2>2. QED
    BY <1>1, <1>2, <2>1 DEF Held
<1>4. ASSUME NEW i \in 1 .. Len(r) PROVE Passed(row2, u, r[i])
  <2>1. Valid(w, r[i]) /\ Passed(row, u, r[i])
    BY <1>1
  <2>2. \A s \in Adds(r[i]) : s.id \in Nat \X Nat
    BY <2>1, AddsSymbols DEF Symbol
  <2>3. r[i].type = "del" => \A x \in Range(r[i].ids) : x \in Nat \X Nat
    <3>1. r[i].type = "del" => r[i].ids \in Seq(Nat \X Nat)
      BY <2>1 DEF Valid
    <3>2. QED
      BY <3>1, InRange
  <2>4. QED
    BY <1>2, <2>1, <2>2, <2>3 DEF Passed
<1>5. QED
  BY <1>1, <1>3, <1>4 DEF Gets

\* The server has passed on one more message.
LEMMA GetsAppend ==
  ASSUME NEW w, NEW row, NEW u, NEW D, NEW S, NEW r \in Seq(S), NEW n, Gets(w, row, u, D, r, n),
         NEW m, Valid(w, m), Passed(row, u, m),
         m.type = "ins" => \A s \in Range(m.syms), t \in After(D, r, Len(r)) : s.pos # t.pos,
         m.type = "ins" => \A s \in Adds(m) :
            /\ \A t \in D : s.id # t.id
            /\ \A j \in 1 .. Len(r) : \A t \in Adds(r[j]) : s.id # t.id
  PROVE  Gets(w, row, u, D, Append(r, m), n)
<1>. DEFINE q == Append(r, m)
<1>1. Len(r) \in Nat /\ Len(q) = Len(r) + 1 /\ q[Len(r) + 1] = m
      /\ \A i \in 1 .. Len(r) : q[i] = r[i]
  BY AppendFacts
<1>2. Clear(D, q)
  BY ClearAppend DEF Gets
<1>. HIDE DEF q
<1>3. \A i \in 1 .. Len(q) : i \in 1 .. Len(r) \/ i = Len(r) + 1
  BY <1>1
<1>4. Fresh(D, q)
  <2>1. SUFFICES ASSUME NEW i \in 1 .. Len(q), q[i].type = "ins", NEW s \in Adds(q[i])
                 PROVE  /\ \A t \in D : s.id # t.id
                        /\ \A j \in 1 .. (i - 1) : \A t \in Adds(q[j]) : s.id # t.id
    BY DEF Fresh
  <2>2. \A j \in 1 .. (i - 1) : j \in 1 .. Len(r) /\ q[j] = r[j]
    BY <1>1
  <2>3. CASE i \in 1 .. Len(r)
    BY <1>1, <2>1, <2>2, <2>3 DEF Gets, Fresh
  <2>4. CASE i = Len(r) + 1
    BY <1>1, <2>1, <2>2, <2>4
  <2>5. QED
    BY <1>3, <2>3, <2>4
<1>5. \A i \in 1 .. Len(q) : Valid(w, q[i]) /\ Passed(row, u, q[i])
  BY <1>1, <1>3 DEF Gets
<1>6. Gets(w, row, u, D, q, n)
  BY <1>2, <1>4, <1>5 DEF Gets
<1>7. QED
  BY <1>6 DEF q

\* New identifiers have got their positions.
LEMMA GetsMoved ==
  ASSUME NEW w, NEW w2, NEW row, NEW u, NEW D, NEW S, NEW r \in Seq(S), NEW n,
         Gets(w, row, u, D, r, n),
         \A x \in Nat \X Nat : Older(row, u, n, x) \/ Old(row, x) => w2[x] = w[x]
  PROVE  Gets(w2, row, u, D, r, n)
<1>1. ASSUME NEW i \in 1 .. Len(r) PROVE Valid(w2, r[i])
  <2>1. Valid(w, r[i]) /\ Passed(row, u, r[i])
    BY DEF Gets
  <2>2. ASSUME NEW s \in Adds(r[i]) PROVE w2[s.id] = w[s.id]
    <3>1. s.id \in Nat \X Nat
      BY <2>1, AddsSymbols DEF Symbol
    <3>2. QED
      BY <2>1, <3>1 DEF Passed
  <2>3. ASSUME r[i].type = "del", NEW x \in Range(r[i].ids) PROVE w2[x] = w[x]
    <3>1. r[i].ids \in Seq(Nat \X Nat)
      BY <2>1, <2>3 DEF Valid
    <3>2. x \in Nat \X Nat
      BY <2>3, <3>1, InRange
    <3>3. QED
      BY <2>1, <2>3, <3>2 DEF Passed
  <2>4. QED
    BY <2>1, <2>2, <2>3, ValidMoved
<1>2. Held(w2, row, u, D, n)
  <2>1. Held(w, row, u, D, n)
    BY DEF Gets
  <2>2. \A s \in D : s.id \in Nat \X Nat
    BY <2>1 DEF Held, Symbol
  <2>3. QED
    BY <2>1, <2>2 DEF Held
<1>3. QED
  BY <1>1, <1>2 DEF Gets

\* A client with an empty editor to which nothing is on the way.
LEMMA GetsNone ==
  ASSUME NEW w, NEW row, NEW u, NEW n
  PROVE  Gets(w, row, u, {}, << >>, n)
<1>1. Len(<< >>) = 0 /\ \A i \in 1 .. 0 : FALSE
  OBVIOUS
<1>2. QED
  BY <1>1 DEF Gets, Held, Clear, Fresh

\* The symbols X of the server's document.
Base(w, row, X) == X \subseteq Symbol /\ \A s \in X : s.pos = w[s.id] /\ Old(row, s.id)

\* A message without symbols.
Quiet(m) == m.type \notin {"ins", "del", "file"}

\* Such a message fits everywhere and changes nothing.
LEMMA QuietMessage ==
  ASSUME NEW m, Quiet(m)
  PROVE  /\ Adds(m) = {} /\ \A s : ~ Takes(m, s)
         /\ \A w : Valid(w, m)
         /\ \A row, u, n : SentBy(row, u, m, n, n) /\ Passed(row, u, m)
         /\ \A X : X \subseteq Symbol => Effect(X, m) = X
<1>1. Adds(m) = {} /\ \A s : ~ Takes(m, s)
  BY DEF Quiet, Adds, Takes
<1>2. \A w : Valid(w, m)
  BY <1>1 DEF Quiet, Valid
<1>3. \A row, u, n : SentBy(row, u, m, n, n) /\ Passed(row, u, m)
  BY <1>1 DEF Quiet, SentBy, Passed
<1>4. ASSUME NEW X, X \subseteq Symbol PROVE Effect(X, m) = X
  <2>1. \A s : s \in Effect(X, m) <=> s \in X
    BY <1>1, <1>4 DEF Effect
  <2>2. QED
    BY <2>1
<1>5. QED
  BY <1>1, <1>2, <1>3, <1>4

\* What all messages leave, when one more is sent and when the first is received.
LEMMA AfterAppend ==
  ASSUME NEW X, NEW S, NEW q \in Seq(S), NEW m
  PROVE  /\ After(X, q, Len(q)) \subseteq Symbol
         /\ After(X, Append(q, m), Len(Append(q, m))) = Effect(After(X, q, Len(q)), m)
<1>. DEFINE r == Append(q, m)
<1>1. Len(q) \in Nat /\ Len(r) = Len(q) + 1 /\ r[Len(q) + 1] = m
      /\ \A i \in 1 .. Len(q) : r[i] = q[i]
  BY AppendFacts
<1>. HIDE DEF r
<1>2. After(X, r, Len(q) + 1) = Effect(After(X, r, Len(q)), r[Len(q) + 1])
  BY <1>1, AfterStep
<1>3. After(X, r, Len(q)) = After(X, q, Len(q))
  BY <1>1, AfterSame
<1>4. After(X, r, Len(r)) = Effect(After(X, q, Len(q)), m)
  BY <1>1, <1>2, <1>3
<1>5. After(X, q, Len(q)) \subseteq Symbol
  BY DEF After
<1>6. QED
  BY <1>4, <1>5 DEF r

\* The first message received leaves the rest the same to do.
LEMMA AfterFirst ==
  ASSUME NEW X, X \subseteq Symbol, NEW S, NEW q \in Seq(S), q # << >>
  PROVE  After(Effect(X, q[1]), Tail(q), Len(Tail(q))) = After(X, q, Len(q))
<1>1. Len(Tail(q)) = Len(q) - 1 /\ Len(q) \in Nat \ {0}
  BY TailFacts
<1>2. Len(q) - 1 \in 0 .. (Len(q) - 1) /\ (Len(q) - 1) + 1 = Len(q)
  BY <1>1
<1>3. After(Effect(X, q[1]), Tail(q), Len(q) - 1) = After(X, q, (Len(q) - 1) + 1)
  BY <1>2, AfterTail
<1>4. QED
  BY <1>1, <1>2, <1>3

\* Where the symbols come from that messages leave.
LEMMA SentOrigin ==
  ASSUME NEW w, NEW row \in [Users -> Nat], NEW u \in Users, NEW X, NEW S, NEW q \in Seq(S),
         NEW n, Sends(w, row, u, X, q, n), NEW s \in After(X, q, Len(q))
  PROVE  s \in X \/ Owner(s) = u
<1>1. PICK k \in 0 .. Len(q) : s \in (IF k = 0 THEN X ELSE Adds(q[k]))
  BY DEF After
<1>2. CASE k # 0
  <2>1. k \in 1 .. Len(q) /\ s \in Adds(q[k])
    BY <1>1, <1>2
  <2>2. OwnMessage(w, row, u, q[k], n)
    BY <2>1, SendsBounds
  <2>3. QED
    BY <2>1, <2>2 DEF OwnMessage
<1>3. QED
  BY <1>1, <1>2

\* Messages to u bring no symbol of u's own.
LEMMA GotOrigin ==
  ASSUME NEW w, NEW row, NEW u, NEW D, NEW S, NEW r \in Seq(S), NEW n, Gets(w, row, u, D, r, n),
         \A i \in 1 .. Len(r) : r[i].type # "file", NEW s \in After(D, r, Len(r))
  PROVE  s \in D \/ Owner(s) # u
<1>1. PICK k \in 0 .. Len(r) : s \in (IF k = 0 THEN D ELSE Adds(r[k]))
  BY DEF After
<1>2. CASE k # 0
  <2>1. k \in 1 .. Len(r) /\ s \in Adds(r[k])
    BY <1>1, <1>2
  <2>2. r[k].type = "ins"
    BY <2>1 DEF Adds
  <2>3. Passed(row, u, r[k])
    BY <2>1 DEF Gets
  <2>4. QED
    BY <2>1, <2>2, <2>3 DEF Passed
<1>3. QED
  BY <1>1, <1>2

\* What the row of u grows by when the server receives m.
Grown(row, row2, u, m) ==
  /\ row \in [Users -> Nat] /\ row2 \in [Users -> Nat]
  /\ \A v \in Users \ {u} : row2[v] = row[v]
  /\ row2[u] = row[u] + (IF m.type = "ins" THEN Len(m.syms) ELSE 0)

\* The first message of u on the way.
LEMMA SendsHead ==
  ASSUME NEW w, NEW row, NEW row2, NEW u \in Users, NEW X, NEW S, NEW q \in Seq(S), NEW n,
         Sends(w, row, u, X, q, n), q # << >>, Grown(row, row2, u, q[1])
  PROVE  /\ Valid(w, q[1]) /\ SentBy(row, u, q[1], row[u], row2[u])
         /\ q[1].type = "ins" => \A s \in Range(q[1].syms), t \in After(X, q, 0) : s.pos # t.pos
<1>1. 1 \in 1 .. Len(q) /\ 1 - 1 = 0
  BY TailFacts
<1>2. Valid(w, q[1]) /\ Clear(X, q)
  BY <1>1 DEF Sends
<1>3. PICK c : Counts(row, u, q, c, n)
  BY DEF Sends
<1>4. SentBy(row, u, q[1], c[1 - 1], c[1]) /\ c[0] = row[u] /\ row[u] \in Nat
  BY <1>1, <1>3 DEF Counts, Grown
<1>5. c[1] = row2[u]
  BY <1>4 DEF SentBy, Grown
<1>6. SentBy(row, u, q[1], row[u], row2[u])
  BY <1>4, <1>5
<1>7. q[1].type = "ins" => \A s \in Range(q[1].syms), t \in After(X, q, 1 - 1) : s.pos # t.pos
  BY <1>1, <1>2 DEF Clear
<1>8. QED
  BY <1>2, <1>6, <1>7

\* The server, whose document has the symbols X, receives the message h of u.
Arrives(w, row, row2, u, X, h) ==
  /\ Valid(w, h) /\ SentBy(row, u, h, row[u], row2[u]) /\ Grown(row, row2, u, h)
  /\ h.type = "ins" => \A s \in Range(h.syms), t \in X : s.pos # t.pos

\* It passes an edit on as m, and tells of the user otherwise.
Forwards(h, m) ==
  /\ h.type = "ins" => m.type = "ins" /\ m.syms = h.syms
  /\ h.type = "del" => m.type = "del" /\ m.ids = h.ids
  /\ h.type \notin {"ins", "del"} => Quiet(m)

\* The row then accounts for what the message brings.
Accounted(w, row, row2, u, h) ==
  /\ \A x \in Users : row[x] <= row2[x] /\ row[x] \in Nat /\ row2[x] \in Nat
  /\ \A s \in Adds(h) : /\ s \in Symbol /\ s.id[1] = u /\ row[u] <= s.id[2]
                        /\ s.id[2] < row2[u] /\ Owner(s) = u /\ s.pos = w[s.id]
  /\ h.type = "del" => \A x \in Range(h.ids) : x \in Nat \X Nat /\ Old(row, x)
  /\ h.type # "ins" => row2 = row

\* What an arriving message brings is accounted for by the row that it makes grow.
LEMMA ArrivesFacts ==
  ASSUME NEW w, NEW row, NEW row2, NEW u \in Users, NEW X, NEW h, Arrives(w, row, row2, u, X, h)
  PROVE  Accounted(w, row, row2, u, h)
<1>1. /\ Valid(w, h) /\ SentBy(row, u, h, row[u], row2[u])
      /\ row \in [Users -> Nat] /\ row2 \in [Users -> Nat]
      /\ \A v \in Users \ {u} : row2[v] = row[v]
      /\ row2[u] = row[u] + (IF h.type = "ins" THEN Len(h.syms) ELSE 0)
  BY DEF Arrives, Grown
<1>2. \A s \in Adds(h) : /\ s \in Symbol /\ s.id[1] = u /\ row[u] <= s.id[2]
                         /\ s.id[2] < row2[u] /\ Owner(s) = u /\ s.pos = w[s.id]
  BY <1>1, SentAdds
<1>3. row[u] <= row2[u]
  BY <1>1, SentAdds
<1>4. ASSUME h.type = "del", NEW x \in Range(h.ids) PROVE x \in Nat \X Nat /\ Old(row, x)
  <2>1. h.ids \in Seq(Nat \X Nat)
    BY <1>1, <1>4 DEF Valid
  <2>2. x \in Nat \X Nat
    BY <1>4, <2>1, InRange
  <2>3. Older(row, u, row[u], x)
    BY <1>1, <1>4 DEF SentBy
  <2>4. QED
    BY <2>2, <2>3 DEF Older, Old
<1>5. ASSUME h.type # "ins" PROVE row2 = row
  <2>1. row2[u] = row[u]
    BY <1>1, <1>5
  <2>2. \A v \in Users : row2[v] = row[v]
    BY <1>1, <2>1
  <2>3. QED
    BY <1>1, <2>2
<1>6. \A x \in Users : row[x] <= row2[x] /\ row[x] \in Nat /\ row2[x] \in Nat
  <2>1. ASSUME NEW x \in Users PROVE row[x] <= row2[x] /\ row[x] \in Nat /\ row2[x] \in Nat
    <3>1. CASE x = u
      BY <1>1, <1>3, <3>1
    <3>2. CASE x # u
      BY <1>1, <3>2
    <3>3. QED
      BY <3>1, <3>2
  <2>2. QED
    BY <2>1
<1>7. QED
  BY <1>2, <1>4, <1>5, <1>6 DEF Accounted

\* Two messages with the same symbols.
Alike(h, m) ==
  /\ Adds(m) = Adds(h) /\ m.type # "file"
  /\ \A X : Effect(X, m) = Effect(X, h)
  /\ \A w : Valid(w, h) => Valid(w, m)
  /\ m.type = "ins" => h.type = "ins" /\ m.syms = h.syms
  /\ m.type = "del" => h.type = "del" /\ m.ids = h.ids

\* What is passed on has the effect of what has arrived.
LEMMA ForwardsFacts ==
  ASSUME NEW h, NEW m, Forwards(h, m), h.type # "file"
  PROVE  Alike(h, m)
<1>1. CASE h.type = "ins"
  <2>1. m.type = "ins" /\ m.syms = h.syms
    BY <1>1 DEF Forwards
  <2>2. Adds(m) = Adds(h) /\ \A s : Takes(m, s) <=> Takes(h, s)
    BY <1>1, <2>1 DEF Adds, Takes
  <2>3. \A w : Valid(w, h) => Valid(w, m)
    BY <1>1, <2>1, <2>2 DEF Valid
  <2>4. QED
    BY <1>1, <2>1, <2>2, <2>3 DEF Effect, Alike
<1>2. CASE h.type = "del"
  <2>1. m.type = "del" /\ m.ids = h.ids
    BY <1>2 DEF Forwards
  <2>2. Adds(m) = Adds(h) /\ \A s : Takes(m, s) <=> Takes(h, s)
    BY <1>2, <2>1 DEF Adds, Takes
  <2>3. \A w : Valid(w, h) => Valid(w, m)
    BY <1>2, <2>1, <2>2 DEF Valid
  <2>4. QED
    BY <1>2, <2>1, <2>2, <2>3 DEF Effect, Alike
<1>3. CASE h.type \notin {"ins", "del"}
  <2>1. Quiet(h) /\ Quiet(m)
    BY <1>3 DEF Forwards, Quiet
  <2>2. Adds(m) = Adds(h) /\ (\A s : Takes(m, s) <=> Takes(h, s)) /\ \A w : Valid(w, m)
    BY <2>1, QuietMessage
  <2>3. QED
    BY <2>1, <2>2 DEF Effect, Quiet, Alike
<1>4. QED
  BY <1>1, <1>2, <1>3

\* The three kinds of effect.
LEMMA Effects ==
  ASSUME NEW X, X \subseteq Symbol, NEW h, h.type # "file"
  PROVE  /\ h.type = "ins" /\ Adds(h) \subseteq Symbol => Effect(X, h) = X \cup Adds(h)
         /\ h.type = "del" => Effect(X, h) = Without(X, Range(h.ids))
         /\ h.type \notin {"ins", "del"} => Effect(X, h) = X
<1>1. ASSUME h.type = "ins", Adds(h) \subseteq Symbol PROVE Effect(X, h) = X \cup Adds(h)
  <2>1. \A s : s \in Effect(X, h) <=> s \in X \cup Adds(h)
    BY <1>1 DEF Effect, Takes
  <2>2. QED
    BY <2>1
<1>2. ASSUME h.type = "del" PROVE Effect(X, h) = Without(X, Range(h.ids))
  <2>1. \A s : s \in Effect(X, h) <=> s \in Without(X, Range(h.ids))
    BY <1>2 DEF Effect, Takes, Adds, Without
  <2>2. QED
    BY <2>1
<1>3. ASSUME h.type \notin {"ins", "del"} PROVE Effect(X, h) = X
  <2>1. Quiet(h)
    BY <1>3 DEF Quiet
  <2>2. QED
    BY <2>1, QuietMessage
<1>4. QED
  BY <1>1, <1>2, <1>3

\* The server's document afterwards.
LEMMA ServerBase ==
  ASSUME NEW w, NEW row, NEW row2, NEW u \in Users, NEW X, NEW h, h.type # "file",
         Base(w, row, X), Arrives(w, row, row2, u, X, h)
  PROVE  Base(w, row2, Effect(X, h))
<1>1. /\ \A x \in Users : row[x] <= row2[x] /\ row[x] \in Nat /\ row2[x] \in Nat
      /\ \A s \in Adds(h) : /\ s \in Symbol /\ s.id[1] = u /\ row[u] <= s.id[2]
                            /\ s.id[2] < row2[u] /\ Owner(s) = u /\ s.pos = w[s.id]
  <2>1. Accounted(w, row, row2, u, h)
    BY ArrivesFacts
  <2>2. QED
    BY <2>1 DEF Accounted
<1>2. ASSUME NEW s \in Adds(h) PROVE s.pos = w[s.id] /\ Old(row2, s.id)
  BY <1>1 DEF Old
<1>3. ASSUME NEW s \in X PROVE s.pos = w[s.id] /\ Old(row2, s.id)
  <2>1. s.pos = w[s.id] /\ Old(row, s.id) /\ s.id[2] \in Nat
    BY DEF Base, Symbol
  <2>2. QED
    BY <1>1, <2>1 DEF Old
<1>4. \A s \in Effect(X, h) : s \in Symbol /\ (s \in Adds(h) \/ s \in X)
  BY DEF Effect
<1>5. QED
  BY <1>2, <1>3, <1>4 DEF Base

\* What another user has on the way fits it.
LEMMA ServerSends ==
  ASSUME NEW w, NEW row, NEW row2, NEW u \in Users, NEW X, X \subseteq Symbol, NEW h,
         h.type # "file", Arrives(w, row, row2, u, X, h),
         NEW v \in Users \ {u}, NEW S, NEW q \in Seq(S), NEW n, Sends(w, row, v, X, q, n)
  PROVE  Sends(w, row2, v, Effect(X, h), q, n)
<1>1. /\ \A x \in Users : row[x] <= row2[x]
      /\ \A s \in Adds(h) : s \in Symbol /\ s.id[1] = u /\ row[u] <= s.id[2] /\ Owner(s) = u
      /\ h.type # "ins" => row2 = row
  <2>1. Accounted(w, row, row2, u, h)
    BY ArrivesFacts
  <2>2. QED
    BY <2>1 DEF Accounted
<1>2. row \in [Users -> Nat] /\ row2 \in [Users -> Nat] /\ row2[v] = row[v] /\ u \in Users \ {v}
  BY DEF Arrives, Grown
<1>3. CASE h.type = "ins"
  <2>1. Adds(h) \subseteq Symbol /\ Effect(X, h) = X \cup Adds(h)
    BY <1>1, <1>3, Effects
  <2>2. Sends(w, row2, v, X \cup Adds(h), q, n)
    BY <1>1, <1>2, <2>1, SendsOther
  <2>3. QED
    BY <2>1, <2>2
<1>4. CASE h.type # "ins"
  <2>1. Effect(X, h) \subseteq X
    BY <1>4 DEF Effect, Adds
  <2>2. Sends(w, row, v, Effect(X, h), q, n)
    BY <2>1, SendsLess
  <2>3. QED
    BY <1>1, <1>4, <2>2
<1>5. QED
  BY <1>3, <1>4

\* The other documents will follow: the message has the same effect before and
\* after what other users have on the way.
LEMMA ServerMeets ==
  ASSUME NEW w, NEW row, NEW row2, NEW u \in Users, NEW X, X \subseteq Symbol, NEW h,
         h.type # "file", Arrives(w, row, row2, u, X, h),
         NEW v \in Users \ {u}, NEW S, NEW q \in Seq(S), NEW n, Sends(w, row, v, X, q, n)
  PROVE  After(Effect(X, h), q, Len(q)) = Effect(After(X, q, Len(q)), h)
<1>. DEFINE Y == After(X, q, Len(q))
<1>1. /\ \A x \in Users : row[x] <= row2[x] /\ row[x] \in Nat /\ row2[x] \in Nat
      /\ \A s \in Adds(h) : /\ s \in Symbol /\ s.id[1] = u /\ row[u] <= s.id[2]
                            /\ s.id[2] < row2[u] /\ Owner(s) = u /\ s.pos = w[s.id]
      /\ h.type = "del" => \A x \in Range(h.ids) : x \in Nat \X Nat /\ Old(row, x)
      /\ h.type # "ins" => row2 = row
  <2>1. Accounted(w, row, row2, u, h)
    BY ArrivesFacts
  <2>2. QED
    BY <2>1 DEF Accounted
<1>2. row \in [Users -> Nat] /\ v \in Users /\ Len(q) \in Nat
  BY DEF Arrives, Grown
<1>3. Y \subseteq Symbol
  BY DEF After
<1>4. ASSUME NEW i \in 1 .. Len(q) PROVE OwnMessage(w, row, v, q[i], n)
  BY <1>2, SendsBounds
<1>. HIDE DEF Y
<1>5. CASE h.type = "ins"
  <2>1. Adds(h) \subseteq Symbol /\ Effect(X, h) = X \cup Adds(h) /\ Effect(Y, h) = Y \cup Adds(h)
    BY <1>1, <1>3, <1>5, Effects
  <2>2. Untaken(q, Len(q), Adds(h))
    <3>1. SUFFICES ASSUME NEW j \in 1 .. Len(q), NEW a \in Adds(h), Takes(q[j], a) PROVE FALSE
      BY DEF Untaken
    <3>2. q[j].type = "del" /\ a.id \in Range(q[j].ids) /\ Older(row, v, n, a.id)
      BY <1>4, <3>1 DEF Takes, OwnMessage
    <3>3. a.id[2] < row[u] /\ a.id[2] \in Nat /\ row[u] <= a.id[2] /\ row[u] \in Nat
      BY <1>1, <3>2 DEF Older, Symbol
    <3>4. QED
      BY <3>3
  <2>3. After(X \cup Adds(h), q, Len(q)) = After(X, q, Len(q)) \cup Adds(h)
    BY <1>2, <2>1, <2>2, AfterMore
  <2>4. QED
    BY <2>1, <2>3 DEF Y
<1>6. CASE h.type = "del"
  <2>1. Effect(X, h) = Without(X, Range(h.ids)) /\ Effect(Y, h) = Without(Y, Range(h.ids))
    BY <1>3, <1>6, Effects
  <2>2. Unadded(q, Len(q), Range(h.ids))
    <3>1. SUFFICES ASSUME NEW j \in 1 .. Len(q), NEW s \in Adds(q[j]), s.id \in Range(h.ids)
                   PROVE  FALSE
      BY DEF Unadded
    <3>2. s \in Symbol /\ s.id[1] = v /\ row[v] <= s.id[2]
      BY <1>4 DEF OwnMessage
    <3>3. s.id[2] < row[v] /\ s.id[2] \in Nat /\ row[v] \in Nat
      BY <1>1, <1>2, <1>6, <3>1, <3>2 DEF Old, Symbol
    <3>4. QED
      BY <3>2, <3>3
  <2>3. After(Without(X, Range(h.ids)), q, Len(q)) = Without(After(X, q, Len(q)), Range(h.ids))
    BY <1>2, <2>2, AfterFewer
  <2>4. QED
    BY <2>1, <2>3 DEF Y
<1>7. CASE h.type \notin {"ins", "del"}
  <2>1. Effect(X, h) = X /\ Effect(Y, h) = Y
    BY <1>3, <1>7, Effects
  <2>2. QED
    BY <2>1 DEF Y
<1>8. QED
  BY <1>5, <1>6, <1>7

\* The client of another user in the file can take the message.
LEMMA ServerTells ==
  ASSUME NEW w, NEW row, NEW row2, NEW u \in Users, NEW X, X \subseteq Symbol, NEW h,
         h.type # "file", Arrives(w, row, row2, u, X, h), NEW m, Forwards(h, m),
         NEW v \in Users \ {u}, NEW S, NEW q \in Seq(S), NEW n, Sends(w, row, v, X, q, n),
         NEW D, NEW T, NEW r \in Seq(T), NEW k, Gets(w, row, v, D, r, k),
         After(X, q, Len(q)) = After(D, r, Len(r))
  PROVE  Gets(w, row2, v, D, Append(r, m), k)
<1>1. /\ \A x \in Users : row[x] <= row2[x] /\ row[x] \in Nat /\ row2[x] \in Nat
      /\ \A s \in Adds(h) : /\ s \in Symbol /\ s.id[1] = u /\ row[u] <= s.id[2]
                            /\ s.id[2] < row2[u] /\ Owner(s) = u /\ s.pos = w[s.id]
      /\ h.type = "del" => \A x \in Range(h.ids) : x \in Nat \X Nat /\ Old(row, x)
  <2>1. Accounted(w, row, row2, u, h)
    BY ArrivesFacts
  <2>2. QED
    BY <2>1 DEF Accounted
<1>2. row \in [Users -> Nat] /\ row2 \in [Users -> Nat] /\ row2[v] = row[v] /\ u # v
  BY DEF Arrives, Grown
<1>3. Gets(w, row2, v, D, r, k)
  BY <1>1, <1>2, GetsRow
<1>4. /\ Adds(m) = Adds(h) /\ m.type # "file" /\ Valid(w, m)
      /\ m.type = "ins" => h.type = "ins" /\ m.syms = h.syms
      /\ m.type = "del" => h.type = "del" /\ m.ids = h.ids
  <2>1. Alike(h, m) /\ Valid(w, h)
    BY ForwardsFacts DEF Arrives
  <2>2. QED
    BY <2>1 DEF Alike
<1>5. Passed(row2, v, m)
  <2>1. \A s \in Adds(m) : Old(row2, s.id) /\ s.id[1] # v /\ Owner(s) # v
    BY <1>1, <1>2, <1>4 DEF Old
  <2>2. ASSUME m.type = "del", NEW x \in Range(m.ids) PROVE Old(row2, x)
    <3>1. x \in Nat \X Nat /\ Old(row, x)
      BY <1>1, <1>4, <2>2
    <3>2. QED
      BY <1>1, <3>1 DEF Old
  <2>3. QED
    BY <1>4, <2>1, <2>2 DEF Passed
<1>6. ASSUME m.type = "ins", NEW s \in Range(m.syms), NEW t \in After(D, r, Len(r))
      PROVE  s.pos # t.pos
  <2>1. h.type = "ins" /\ s \in Range(h.syms) /\ s \in Adds(h)
    BY <1>4, <1>6 DEF Adds
  <2>2. t \in X \/ Owner(t) = v
    BY <1>2, <1>6, SentOrigin
  <2>3. t \in X => s.pos # t.pos
    BY <2>1 DEF Arrives
  <2>4. Owner(s) = u
    BY <1>1, <2>1
  <2>5. QED
    BY <1>2, <2>2, <2>3, <2>4 DEF Owner
<1>7. ASSUME NEW s \in Adds(m)
      PROVE  /\ \A t \in D : s.id # t.id
             /\ \A j \in 1 .. Len(r) : \A t \in Adds(r[j]) : s.id # t.id
  <2>1. s \in Symbol /\ s.id[1] = u /\ row[u] <= s.id[2] /\ row[u] \in Nat /\ s.id[2] \in Nat
    BY <1>1, <1>4 DEF Symbol
  <2>2. ASSUME NEW t \in D PROVE s.id # t.id
    <3>1. Older(row, v, k, t.id)
      BY DEF Gets, Held
    <3>2. QED
      BY <1>2, <2>1, <3>1 DEF Older
  <2>3. ASSUME NEW j \in 1 .. Len(r), NEW t \in Adds(r[j]) PROVE s.id # t.id
    <3>1. Old(row, t.id)
      BY DEF Gets, Passed
    <3>2. QED
      BY <2>1, <3>1 DEF Old
  <2>4. QED
    BY <2>2, <2>3
<1>8. QED
  BY <1>3, <1>4, <1>5, <1>6, <1>7, GetsAppend

\* The connection of u, with q and r on the way, lets the documents at its ends
\* meet.
Meets(w, row, u, X, q, D, r, n) ==
  /\ Sends(w, row, u, X, q, n) /\ Gets(w, row, u, D, r, n)
  /\ After(X, q, Len(q)) = After(D, r, Len(r))
NoFile(r) == \A i \in 1 .. Len(r) : r[i].type # "file"

\* Identifiers of symbols of D, in the order of their positions.
Names(w, D, ids) ==
  /\ ids \in Seq(Nat \X Nat)
  /\ \A i, j \in 1 .. Len(ids) : i < j => PosLess(w[ids[i]], w[ids[j]])
  /\ \A x \in Range(ids) : \E s \in D : s.id = x

\* The client writes the deletion of symbols it shows.
LEMMA EditDeletes ==
  ASSUME NEW w \in Where, NEW row \in [Users -> Nat], NEW u \in Users,
         NEW X, NEW S, NEW q \in Seq(S), NEW n \in Nat,
         NEW D, NEW T, NEW r \in Seq(T), Meets(w, row, u, X, q, D, r, n), NoFile(r),
         NEW ids, Names(w, D, ids)
  PROVE  Meets(w, row, u, X, Append(q, Del(ids)), Without(D, Range(ids)), r, n)
<1>0. /\ Sends(w, row, u, X, q, n) /\ Gets(w, row, u, D, r, n)
      /\ After(X, q, Len(q)) = After(D, r, Len(r))
      /\ \A i \in 1 .. Len(r) : r[i].type # "file"
      /\ ids \in Seq(Nat \X Nat)
      /\ \A i, j \in 1 .. Len(ids) : i < j => PosLess(w[ids[i]], w[ids[j]])
      /\ \A x \in Range(ids) : \E s \in D : s.id = x
  BY DEF Meets, NoFile, Names
<1>. DEFINE m == Del(ids)
<1>1. m.type = "del" /\ m.ids = ids /\ m.type # "file" /\ m.type # "ins"
  BY DEF Del
<1>. HIDE DEF m
<1>2. Adds(m) = {} /\ \A s : Takes(m, s) <=> s.id \in Range(ids)
  BY <1>1 DEF Adds, Takes
<1>3. Valid(w, m)
  BY <1>0, <1>1, <1>2 DEF Valid
<1>4. Held(w, row, u, D, n) /\ Fresh(D, r)
  BY <1>0 DEF Gets
<1>5. SentBy(row, u, m, n, n)
  <2>1. \A x \in Range(ids) : Older(row, u, n, x)
    BY <1>0, <1>4 DEF Held
  <2>2. QED
    BY <1>1, <2>1 DEF SentBy
<1>6. Sends(w, row, u, X, Append(q, m), n)
  BY <1>0, <1>1, <1>3, <1>5, SendsAppend
<1>7. Gets(w, row, u, Without(D, Range(ids)), r, n)
  <2>1. Without(D, Range(ids)) \subseteq D
    BY DEF Without
  <2>2. QED
    BY <1>0, <2>1, GetsLess
<1>8. After(X, q, Len(q)) \subseteq Symbol
      /\ After(X, Append(q, m), Len(Append(q, m))) = Effect(After(X, q, Len(q)), m)
  BY AfterAppend
<1>9. Effect(After(X, q, Len(q)), m) = Without(After(X, q, Len(q)), Range(ids))
  BY <1>1, <1>8, Effects
<1>10. Unadded(r, Len(r), Range(ids))
  <2>1. SUFFICES ASSUME NEW j \in 1 .. Len(r), NEW s \in Adds(r[j]), s.id \in Range(ids) PROVE FALSE
    BY DEF Unadded
  <2>2. r[j].type = "ins"
    BY <1>0, <2>1 DEF Adds
  <2>3. \A t \in D : s.id # t.id
    BY <1>4, <2>2 DEF Fresh
  <2>4. QED
    BY <1>0, <2>1, <2>3
<1>11. Len(r) \in Nat
  OBVIOUS
<1>12. After(Without(D, Range(ids)), r, Len(r)) = Without(After(D, r, Len(r)), Range(ids))
  BY <1>10, <1>11, AfterFewer
<1>13. QED
  BY <1>0, <1>6, <1>7, <1>8, <1>9, <1>12 DEF Meets, m

\* The positions with those of new symbols.
Placing(w, A) ==
  [x \in Nat \X Nat |-> IF \E s \in A : s.id = x THEN (CHOOSE s \in A : s.id = x).pos ELSE w[x]]

\* New symbols have their positions, all other identifiers the ones they had.
LEMMA PlacingFacts ==
  ASSUME NEW w \in Where, NEW A, A \subseteq Symbol, \A s, t \in A : s.id = t.id => s = t
  PROVE  /\ Placing(w, A) \in Where
         /\ \A s \in A : Placing(w, A)[s.id] = s.pos
         /\ \A x \in Nat \X Nat : (\A s \in A : s.id # x) => Placing(w, A)[x] = w[x]
<1>1. \A s \in A : s.pos \in Seq(Ident) /\ s.id \in Nat \X Nat
  BY SymbolOrder
<1>2. ASSUME NEW x \in Nat \X Nat, NEW s \in A, s.id = x
      PROVE  (CHOOSE t \in A : t.id = x) = s
  BY <1>2
<1>3. \A x \in Nat \X Nat :
         (IF \E s \in A : s.id = x THEN (CHOOSE s \in A : s.id = x).pos ELSE w[x]) \in Seq(Ident)
  <2>1. SUFFICES ASSUME NEW x \in Nat \X Nat
                 PROVE  (IF \E s \in A : s.id = x THEN (CHOOSE s \in A : s.id = x).pos ELSE w[x]) \in Seq(Ident)
    OBVIOUS
  <2>2. w[x] \in Seq(Ident)
    BY DEF Where
  <2>3. ASSUME NEW s \in A, s.id = x PROVE (CHOOSE t \in A : t.id = x).pos \in Seq(Ident)
    BY <1>1, <1>2, <2>3
  <2>4. QED
    BY <2>2, <2>3
<1>4. Placing(w, A) \in Where
  BY <1>3 DEF Placing, Where
<1>5. ASSUME NEW s \in A PROVE Placing(w, A)[s.id] = s.pos
  <2>1. s.id \in Nat \X Nat /\ (CHOOSE t \in A : t.id = s.id) = s
    BY <1>1, <1>2
  <2>2. QED
    BY <2>1 DEF Placing
<1>6. \A x \in Nat \X Nat : (\A s \in A : s.id # x) => Placing(w, A)[x] = w[x]
  BY DEF Placing
<1>7. QED
  BY <1>4, <1>5, <1>6

\* Symbols typed by u from the counter n on: none has been known before.
TypedBy(u, n, syms) ==
  /\ syms \in Seq(Symbol) /\ Increasing(syms)
  /\ \A j \in 1 .. Len(syms) : syms[j].id = <<u, n + j - 1>> /\ Owner(syms[j]) = u

\* By them the counter comes from n to k, and the positions from w to w2.
Entered(w, w2, u, n, A, k) ==
  /\ A \subseteq Symbol
  /\ \A a \in A : /\ a.id[1] = u /\ n <= a.id[2] /\ a.id[2] < k
                 /\ Owner(a) = u /\ a.pos = w2[a.id]
  /\ w2 \in Where
  /\ \A x \in Nat \X Nat : (x[1] = u => x[2] < n) => w2[x] = w[x]

\* Symbols typed extend the positions.
LEMMA TypedFacts ==
  ASSUME NEW w \in Where, NEW u, NEW n \in Nat, NEW syms, TypedBy(u, n, syms)
  PROVE  Entered(w, Placing(w, Range(syms)), u, n, Range(syms), n + Len(syms))
<1>1. syms \in Seq(Symbol) /\ Len(syms) \in Nat
      /\ \A j \in 1 .. Len(syms) : syms[j].id = <<u, n + j - 1>> /\ Owner(syms[j]) = u
  BY DEF TypedBy
<1>2. Range(syms) \subseteq Symbol
      /\ \A x : x \in Range(syms) <=> \E j \in 1 .. Len(syms) : syms[j] = x
  BY <1>1, InRange
<1>3. ASSUME NEW a \in Range(syms)
      PROVE  a.id[1] = u /\ n <= a.id[2] /\ a.id[2] < n + Len(syms) /\ Owner(a) = u
  <2>1. PICK j \in 1 .. Len(syms) : syms[j] = a
    BY <1>2
  <2>2. a.id[1] = u /\ a.id[2] = n + j - 1 /\ Owner(a) = u
    BY <1>1, <2>1
  <2>3. QED
    BY <1>1, <2>2
<1>4. ASSUME NEW s \in Range(syms), NEW t \in Range(syms), s.id = t.id PROVE s = t
  <2>1. PICK i \in 1 .. Len(syms) : syms[i] = s
    BY <1>2
  <2>2. PICK j \in 1 .. Len(syms) : syms[j] = t
    BY <1>2
  <2>3. <<u, n + i - 1>> = <<u, n + j - 1>>
    BY <1>1, <1>4, <2>1, <2>2
  <2>4. n + i - 1 = n + j - 1
    BY <2>3
  <2>5. i = j
    BY <2>4
  <2>6. QED
    BY <2>1, <2>2, <2>5
<1>5. /\ Placing(w, Range(syms)) \in Where
      /\ \A s \in Range(syms) : Placing(w, Range(syms))[s.id] = s.pos
      /\ \A x \in Nat \X Nat : (\A s \in Range(syms) : s.id # x) => Placing(w, Range(syms))[x] = w[x]
  <2>. DEFINE A == Range(syms)
  <2>1. A \subseteq Symbol /\ \A s, t \in A : s.id = t.id => s = t
    BY <1>2, <1>4
  <2>. HIDE DEF A
  <2>2. /\ Placing(w, A) \in Where
        /\ \A s \in A : Placing(w, A)[s.id] = s.pos
        /\ \A x \in Nat \X Nat : (\A s \in A : s.id # x) => Placing(w, A)[x] = w[x]
    BY <2>1, PlacingFacts
  <2>3. QED
    BY <2>2 DEF A
<1>6. ASSUME NEW x \in Nat \X Nat, x[1] = u => x[2] < n
      PROVE  \A s \in Range(syms) : s.id # x
  <2>1. SUFFICES ASSUME NEW s \in Range(syms), s.id = x PROVE FALSE
    OBVIOUS
  <2>2. x[1] = u /\ n <= x[2] /\ x[2] \in Nat
    BY <1>3, <2>1
  <2>3. QED
    BY <1>6, <2>2
<1>7. QED
  BY <1>1, <1>2, <1>3, <1>5, <1>6 DEF Entered

\* The client writes the insertion of symbols it has typed.
LEMMA EditInserts ==
  ASSUME NEW w \in Where, NEW row \in [Users -> Nat], NEW u \in Users,
         NEW X, NEW S, NEW q \in Seq(S), NEW n \in Nat,
         NEW D, NEW T, NEW r \in Seq(T), Meets(w, row, u, X, q, D, r, n), NoFile(r),
         NEW syms, TypedBy(u, n, syms), \A s \in D, t \in Range(syms) : s.pos # t.pos,
         NEW w2, w2 = Placing(w, Range(syms)), NEW k, k = n + Len(syms)
  PROVE  Meets(w2, row, u, X, Append(q, Ins(syms)), D \cup Range(syms), r, k)
<1>0. /\ Sends(w, row, u, X, q, n) /\ Gets(w, row, u, D, r, n)
      /\ After(X, q, Len(q)) = After(D, r, Len(r))
      /\ \A i \in 1 .. Len(r) : r[i].type # "file"
  BY DEF Meets, NoFile
<1>. DEFINE A == Range(syms)
            m == Ins(syms)
<1>1. /\ A \subseteq Symbol /\ Len(syms) \in Nat
      /\ \A a \in A : /\ a.id[1] = u /\ n <= a.id[2] /\ a.id[2] < k
                      /\ Owner(a) = u /\ a.pos = w2[a.id]
      /\ w2 \in Where
      /\ \A x \in Nat \X Nat : (x[1] = u => x[2] < n) => w2[x] = w[x]
  <2>1. Entered(w, Placing(w, Range(syms)), u, n, Range(syms), n + Len(syms))
    BY TypedFacts
  <2>2. Entered(w, w2, u, n, A, k) /\ Len(syms) \in Nat
    BY <2>1 DEF TypedBy
  <2>3. QED
    BY <2>2 DEF Entered
<1>2. k \in Nat /\ n <= k /\ row[u] <= n /\ row[u] \in Nat
  BY <1>0, <1>1, SendsBounds
<1>3. /\ syms \in Seq(Symbol) /\ Increasing(syms)
      /\ \A j \in 1 .. Len(syms) : syms[j].id = <<u, n + j - 1>> /\ Owner(syms[j]) = u
  BY DEF TypedBy
<1>4. m.type = "ins" /\ m.syms = syms /\ m.type # "file"
  BY DEF Ins
<1>. HIDE DEF m
<1>5. Adds(m) = A /\ \A s : ~ Takes(m, s)
  BY <1>4 DEF Adds, Takes
<1>. HIDE DEF A
<1>6. Valid(w2, m)
  BY <1>1, <1>3, <1>4, <1>5 DEF Valid
<1>7. SentBy(row, u, m, n, k)
  BY <1>3, <1>4 DEF SentBy
<1>8. \A x \in Nat \X Nat : Older(row, u, n, x) \/ Old(row, x) => w2[x] = w[x]
  <2>1. SUFFICES ASSUME NEW x \in Nat \X Nat, Older(row, u, n, x) \/ Old(row, x)
                 PROVE  x[1] = u => x[2] < n
    BY <1>1
  <2>2. QED
    BY <1>2, <2>1 DEF Older, Old
<1>9. Sends(w2, row, u, X, q, n)
  BY <1>0, <1>8, SendsMoved
<1>10. Gets(w2, row, u, D, r, n)
  BY <1>0, <1>8, GetsMoved
<1>11. ASSUME NEW s \in Range(m.syms), NEW t \in After(X, q, Len(q)) PROVE s.pos # t.pos
  <2>1. s \in A /\ Owner(s) = u
    BY <1>1, <1>4, <1>11 DEF A
  <2>2. t \in D \/ Owner(t) # u
    BY <1>0, <1>11, GotOrigin
  <2>3. t \in D => s.pos # t.pos
    BY <2>1 DEF A
  <2>4. QED
    BY <2>1, <2>2, <2>3 DEF Owner
<1>12. Sends(w2, row, u, X, Append(q, m), k)
  BY <1>2, <1>6, <1>7, <1>9, <1>11, SendsAppend
<1>13. Gets(w2, row, u, D \cup A, r, k)
  BY <1>0, <1>1, <1>2, <1>10, GetsMore
<1>14. After(X, q, Len(q)) \subseteq Symbol
       /\ After(X, Append(q, m), Len(Append(q, m))) = Effect(After(X, q, Len(q)), m)
  BY AfterAppend
<1>15. Effect(After(X, q, Len(q)), m) = After(X, q, Len(q)) \cup A
  BY <1>1, <1>4, <1>5, <1>14, Effects
<1>16. Untaken(r, Len(r), A)
  <2>1. SUFFICES ASSUME NEW j \in 1 .. Len(r), NEW a \in A, Takes(r[j], a) PROVE FALSE
    BY DEF Untaken
  <2>2. r[j].type = "del" /\ a.id \in Range(r[j].ids)
    BY <1>0, <2>1 DEF Takes
  <2>3. Old(row, a.id)
    BY <1>0, <2>2 DEF Gets, Passed
  <2>4. a.id[2] < row[u] /\ a.id[2] \in Nat /\ n <= a.id[2]
    BY <1>1, <2>3 DEF Old, Symbol
  <2>5. QED
    BY <1>2, <2>4
<1>17. Len(r) \in Nat
  OBVIOUS
<1>18. After(D \cup A, r, Len(r)) = After(D, r, Len(r)) \cup A
  BY <1>1, <1>16, <1>17, AfterMore
<1>19. After(X, Append(q, m), Len(Append(q, m))) = After(D \cup A, r, Len(r))
  BY <1>0, <1>14, <1>15, <1>18
<1>20. QED
  BY <1>12, <1>13, <1>19 DEF Meets, m, A
-----------------------------------------------------------------------------
Statuses == {"absent", "online", "offline"}

\* The messages of the two directions are sequences over some set.
Channels(S) == up \in [Users -> Seq(S)] /\ down \in [Users -> Seq(S)]

TypeInv ==
  /\ users \in [Users -> Statuses] /\ inFile \subseteq Users
  /\ window \in [Users -> {"closed", "opening", "open", "down"}]
  /\ peers \in [Users -> [Users -> Statuses]]
  /\ \E S : Channels(S)

\* The server has u in the file when it comes to the i-th message of u.
InAt(u, i) == IF i = 1 THEN u \in inFile ELSE up[u][i - 1].type \in {"get", "ins", "del"}

\* The messages on the way from u are those of sessions with the file, one after
\* the other; the end of the connection is the last.
UpOf(u) ==
  \A i \in 1 .. Len(up[u]) :
     LET t == up[u][i].type
     IN  /\ t \in {"get", "ins", "del", "close", "gone"}
         /\ t = "get" => ~ InAt(u, i)
         /\ t \in {"ins", "del", "close"} => InAt(u, i)
         /\ t = "gone" => i = Len(up[u]) /\ window[u] = "down"
         /\ t = "get" /\ Alive(u) => i = Len(up[u]) /\ window[u] = "opening"
         /\ t = "close" => window[u] # "open"

\* The window of a client and what the server will have of it once it has
\* received everything agree.
WindowOf(u) ==
  LET n == Len(up[u])
  IN  /\ window[u] = "down" =>
           down[u] = << >> /\ (IF n = 0 THEN u \notin inFile ELSE up[u][n].type = "gone")
      /\ window[u] = "closed" => ~ InAt(u, n + 1)
      /\ window[u] = "opening" => InAt(u, n + 1) /\ (n > 0 => up[u][n].type = "get")
      /\ window[u] = "open" => InAt(u, n + 1) /\ u \in inFile

\* A file is on the way only to a client that waits for it, and only once.
FileOf(u) ==
  \A i \in 1 .. Len(down[u]) : down[u][i].type = "file" =>
     /\ window[u] = "opening" /\ Len(up[u]) = 0
     /\ \A j \in 1 .. Len(down[u]) : down[u][j].type = "file" => j = i

Session(u) == UpOf(u) /\ WindowOf(u) /\ FileOf(u)

\* After message m, the client that receives it knows of v; m says of v.
Introduces(m, v) ==
  \/ m.type = "on" /\ m.user = v
  \/ m.type = "file" /\ m.users[v] # "absent"
Informs(m, v) == (m.type \in {"on", "off"} /\ m.user = v) \/ m.type = "file"
Told(m, v) == IF m.type = "file" THEN m.users[v] ELSE Status(m)

KnownBefore(u, i, v) ==
  peers[u][v] # "absent" \/ \E j \in 1 .. (i - 1) : Introduces(down[u][j], v)

\* A message that names a user comes after one that introduces the user, and a
\* file leaves out nobody the client knew.
MessageOf(u, i) ==
  LET m == down[u][i]
  IN  /\ m.type \in {"ins", "del", "on", "off", "file"}
      /\ m.type # "file" => m.user \in Users \ {u} /\ users[m.user] # "absent"
      /\ m.type \in {"ins", "del", "off"} => KnownBefore(u, i, m.user)
      /\ m.type = "file" =>
           /\ m.users \in [Users -> Statuses]
           /\ \A v \in Users \ {u} : /\ KnownBefore(u, i, v) => m.users[v] # "absent"
                                     /\ m.users[v] # "absent" => users[v] # "absent"

\* The client of u hears of everyone the server has had in the file.
Hears(u) == u \in inFile /\ Alive(u)
KnownOf(u, v) ==
  /\ peers[u][v] # "absent" => users[v] # "absent"
  /\ Hears(u) /\ users[v] # "absent" => KnownBefore(u, Len(down[u]) + 1, v)

\* The last news of v on the way to u is what the server has of v.
LatestOf(u, v) ==
  Hears(u) =>
     /\ (\A i \in 1 .. Len(down[u]) : ~ Informs(down[u][i], v)) => peers[u][v] = users[v]
     /\ \A i \in 1 .. Len(down[u]) :
           Informs(down[u][i], v) /\ (\A j \in (i + 1) .. Len(down[u]) : ~ Informs(down[u][j], v))
           => Told(down[u][i], v) = users[v]

News(u) ==
  /\ \A i \in 1 .. Len(down[u]) : MessageOf(u, i)
  /\ \A v \in Users \ {u} : KnownOf(u, v) /\ LatestOf(u, v)

OnlineInv == \A u \in Users : (users[u] = "online") = (u \in inFile)

IInv == TypeInv /\ OnlineInv /\ \A u \in Users : Session(u) /\ News(u)
-----------------------------------------------------------------------------
\* A client that a step does not concern, but for news it is sent.
LEMMA OtherSession ==
  ASSUME TypeInv, NEW v \in Users, Session(v),
         window'[v] = window[v], up'[v] = up[v], v \in inFile' <=> v \in inFile,
         down'[v] = down[v]
           \/ (Alive(v) /\ \E m : m.type # "file" /\ down'[v] = Append(down[v], m))
  PROVE  Session(v)'
<1>1. UpOf(v)'
  BY DEF Session, UpOf, InAt, Alive
<1>2. WindowOf(v)'
  BY DEF Session, WindowOf, InAt, Alive
<1>3. FileOf(v)'
  <2>1. CASE down'[v] = down[v]
    BY <2>1 DEF Session, FileOf
  <2>2. ASSUME NEW m, m.type # "file", down'[v] = Append(down[v], m)
        PROVE  FileOf(v)'
    <3>1. PICK S : Channels(S)
      BY DEF TypeInv
    <3>2. down[v] \in Seq(S)
      BY <3>1 DEF Channels
    <3>3. /\ Len(down'[v]) = Len(down[v]) + 1 /\ Len(down[v]) \in Nat
          /\ \A i \in 1 .. Len(down[v]) : down'[v][i] = down[v][i]
          /\ down'[v][Len(down[v]) + 1] = m
      BY <2>2, <3>2, AppendFacts
    <3>4. \A i \in 1 .. Len(down'[v]) :
             down'[v][i].type = "file" => i \in 1 .. Len(down[v]) /\ down[v][i].type = "file"
      BY <2>2, <3>3
    <3>5. QED
      BY <3>3, <3>4 DEF Session, FileOf
  <2>3. QED
    BY <2>1, <2>2
<1>4. QED
  BY <1>1, <1>2, <1>3 DEF Session

\* The server takes the first message of u: it has u in the file afterwards if
\* that message belongs inside a session. A file is sent for a get only.
LEMMA ConsumedSession ==
  ASSUME TypeInv, NEW u \in Users, Session(u), up[u] # << >>, Consume(u), window' = window,
         u \in inFile' <=> Head(up[u]).type \in {"get", "ins", "del"},
         down'[u] = down[u]
           \/ (Head(up[u]).type = "get" /\ Alive(u) /\ \E m : down'[u] = Append(down[u], m))
  PROVE  Session(u)'
<1>1. PICK S : Channels(S)
  BY DEF TypeInv
<1>2. PICK n \in Nat \ {0} :
         /\ Len(up[u]) = n /\ Len(up'[u]) = n - 1
         /\ \A i \in 1 .. (n - 1) : up'[u][i] = up[u][i + 1] /\ i + 1 \in 1 .. n
         /\ n > 1 => n - 1 \in 1 .. (n - 1) /\ up'[u][n - 1] = up[u][n]
         /\ Head(up[u]) = up[u][1]
  BY <1>1, TailFacts DEF Channels, Consume
<1>3. \A i \in 1 .. n : InAt(u, i)' <=> InAt(u, i + 1)
  <2>1. InAt(u, 1)' <=> InAt(u, 2)
    BY <1>2 DEF InAt
  <2>2. ASSUME NEW i \in 1 .. n, i # 1
        PROVE  InAt(u, i)' <=> InAt(u, i + 1)
    <3>1. i - 1 \in 1 .. (n - 1) /\ i + 1 # 1 /\ (i + 1) - 1 = i /\ (i - 1) + 1 = i
      BY <2>2
    <3>2. up'[u][i - 1] = up[u][i]
      BY <1>2, <3>1
    <3>3. QED
      BY <2>2, <3>1, <3>2 DEF InAt
  <2>3. QED
    BY <2>1, <2>2
<1>4. UpOf(u)'
  <2>1. ASSUME NEW i \in 1 .. Len(up'[u])
        PROVE  /\ i + 1 \in 1 .. Len(up[u]) /\ i \in 1 .. Len(up[u])
               /\ up'[u][i] = up[u][i + 1]
               /\ (InAt(u, i)' <=> InAt(u, i + 1))
               /\ (i = Len(up'[u]) <=> i + 1 = Len(up[u]))
    <3>1. i \in 1 .. (n - 1) /\ i \in 1 .. n
      BY <1>2
    <3>2. InAt(u, i)' <=> InAt(u, i + 1)
      BY <1>3, <3>1
    <3>3. i = n - 1 <=> i + 1 = n
      BY <3>1
    <3>4. QED
      BY <1>2, <3>1, <3>2, <3>3
  <2>2. QED
    BY <2>1 DEF Session, UpOf, Alive
<1>5. WindowOf(u)'
  <2>1. /\ window[u] = "down" =>
              down[u] = << >> /\ up[u][n].type = "gone"
        /\ window[u] = "closed" => ~ InAt(u, n + 1)
        /\ window[u] = "opening" => InAt(u, n + 1) /\ up[u][n].type = "get"
        /\ window[u] = "open" => InAt(u, n + 1) /\ u \in inFile
    BY <1>2 DEF Session, WindowOf
  <2>2. InAt(u, n)' <=> InAt(u, n + 1)
    BY <1>3
  <2>3. 1 \in 1 .. n
    BY <1>2
  <2>4. window[u] = "open" => u \in inFile'
    BY <1>2, <2>3 DEF Session, UpOf, Alive
  <2>5. window[u] = "down" => down'[u] = << >> /\ (n = 1 => u \notin inFile')
    BY <1>2, <2>1 DEF Alive
  <2>6. ASSUME NEW k, k = n - 1
        PROVE  /\ window[u] = "down" => (IF k = 0 THEN u \notin inFile' ELSE up'[u][k].type = "gone")
               /\ window[u] = "opening" => (k > 0 => up'[u][k].type = "get")
               /\ k + 1 = n
    BY <1>2, <2>1, <2>5, <2>6
  <2>7. QED
    BY <1>2, <2>1, <2>2, <2>4, <2>5, <2>6 DEF WindowOf
<1>6. FileOf(u)'
  <2>1. \A i \in 1 .. Len(down[u]) : down[u][i].type # "file"
    BY <1>2 DEF Session, FileOf
  <2>2. CASE down'[u] = down[u]
    BY <2>1, <2>2 DEF FileOf
  <2>3. ASSUME NEW m, Head(up[u]).type = "get", Alive(u), down'[u] = Append(down[u], m)
        PROVE  FileOf(u)'
    <3>1. up[u][1].type = "get" /\ 1 \in 1 .. Len(up[u]) /\ down[u] \in Seq(S)
      BY <1>1, <1>2, <2>3 DEF Channels
    <3>2. window[u] = "opening" /\ 1 = Len(up[u])
      BY <2>3, <3>1 DEF Session, UpOf
    <3>3. Len(up'[u]) = 0
      BY <1>2, <3>2
    <3>4. /\ Len(down'[u]) = Len(down[u]) + 1 /\ Len(down[u]) \in Nat
          /\ \A i \in 1 .. Len(down[u]) : down'[u][i] = down[u][i]
      BY <2>3, <3>1, AppendFacts
    <3>5. \A i \in 1 .. Len(down'[u]) : down'[u][i].type = "file" => i = Len(down'[u])
      BY <2>1, <3>4
    <3>6. QED
      BY <3>2, <3>3, <3>5 DEF FileOf
  <2>4. QED
    BY <2>2, <2>3
<1>7. QED
  BY <1>4, <1>5, <1>6 DEF Session

\* The client of u receives a message: only a file changes its window.
LEMMA DroppedSession ==
  ASSUME TypeInv, NEW u \in Users, Session(u), down[u] # << >>, Drop(u),
         UNCHANGED <<up, inFile>>,
         window' = IF Head(down[u]).type = "file" THEN [window EXCEPT ![u] = "open"] ELSE window
  PROVE  Session(u)'
<1>1. PICK S : Channels(S)
  BY DEF TypeInv
<1>2. /\ Len(down[u]) \in Nat \ {0} /\ Len(down'[u]) = Len(down[u]) - 1
      /\ \A i \in 1 .. (Len(down[u]) - 1) :
            down'[u][i] = down[u][i + 1] /\ i + 1 \in 1 .. Len(down[u])
      /\ Head(down[u]) = down[u][1]
      /\ window[u] # "down" /\ up[u] \in Seq(S)
  BY <1>1, TailFacts DEF Channels, Drop, Session, WindowOf
<1>3. CASE Head(down[u]).type = "file"
  <2>1. /\ window[u] = "opening" /\ Len(up[u]) = 0 /\ window'[u] = "open"
        /\ \A j \in 1 .. Len(down[u]) : down[u][j].type = "file" => j = 1
    BY <1>2, <1>3 DEF Session, FileOf, TypeInv
  <2>2. \A j \in 1 .. Len(down'[u]) : down'[u][j].type # "file"
    BY <1>2, <2>1
  <2>3. u \in inFile
    BY <2>1 DEF Session, WindowOf, InAt
  <2>4. QED
    BY <1>2, <2>1, <2>2, <2>3 DEF Session, UpOf, WindowOf, FileOf, InAt
<1>4. CASE Head(down[u]).type # "file"
  <2>1. window'[u] = window[u] /\ up'[u] = up[u] /\ (u \in inFile' <=> u \in inFile)
    BY <1>4
  <2>2. UpOf(u)' /\ WindowOf(u)'
    BY <1>2, <2>1 DEF Session, UpOf, WindowOf, InAt, Alive
  <2>3. FileOf(u)'
    <3>1. ASSUME NEW i \in 1 .. Len(down'[u])
          PROVE  i + 1 \in 1 .. Len(down[u]) /\ down'[u][i] = down[u][i + 1]
      BY <1>2
    <3>2. QED
      BY <1>2, <2>1, <3>1 DEF Session, FileOf
  <2>4. QED
    BY <2>2, <2>3 DEF Session
<1>5. QED
  BY <1>3, <1>4
-----------------------------------------------------------------------------
\* The client of u writes messages behind those on the way.
LEMMA Extended ==
  ASSUME TypeInv, NEW u \in Users, NEW T, NEW t \in Seq(T), SendUp(u, t), inFile' = inFile
  PROVE  /\ Len(up[u]) \in Nat /\ Len(t) \in Nat /\ Len(up'[u]) = Len(up[u]) + Len(t)
         /\ \A i \in 1 .. Len(up[u]) : up'[u][i] = up[u][i]
         /\ \A i \in (Len(up[u]) + 1) .. (Len(up[u]) + Len(t)) : up'[u][i] = t[i - Len(up[u])]
         /\ \A i \in 1 .. (Len(up[u]) + 1) : InAt(u, i)' <=> InAt(u, i)
<1>1. PICK S : Channels(S)
  BY DEF TypeInv
<1>2. up[u] \in Seq(S) /\ up'[u] = up[u] \o t
  BY <1>1 DEF Channels, SendUp
<1>3. /\ Len(up[u]) \in Nat /\ Len(t) \in Nat /\ Len(up'[u]) = Len(up[u]) + Len(t)
      /\ \A i \in 1 .. Len(up[u]) : up'[u][i] = up[u][i]
      /\ \A i \in (Len(up[u]) + 1) .. (Len(up[u]) + Len(t)) : up'[u][i] = t[i - Len(up[u])]
  BY <1>2, ConcatFacts
<1>4. ASSUME NEW i \in 1 .. (Len(up[u]) + 1)
      PROVE  InAt(u, i)' <=> InAt(u, i)
  <2>1. i # 1 => i - 1 \in 1 .. Len(up[u])
    BY <1>3
  <2>2. i # 1 => up'[u][i - 1] = up[u][i - 1]
    BY <1>3, <2>1
  <2>3. QED
    BY <2>2 DEF InAt
<1>5. QED
  BY <1>3, <1>4

\* An edit: the deletion and the insertion of a client in the editor.
LEMMA EditSession ==
  ASSUME TypeInv, NEW u \in Users, Session(u), window[u] = "open",
         NEW T, NEW t \in Seq(T), SendUp(u, t), \A i \in 1 .. Len(t) : t[i].type \in {"ins", "del"},
         UNCHANGED <<inFile, window, down>>
  PROVE  Session(u)'
<1>1. PICK n \in Nat, k \in Nat :
         /\ Len(up[u]) = n /\ Len(t) = k /\ Len(up'[u]) = n + k
         /\ \A i \in 1 .. n : up'[u][i] = up[u][i]
         /\ \A i \in (n + 1) .. (n + k) : up'[u][i] = t[i - n]
         /\ \A i \in 1 .. (n + 1) : InAt(u, i)' <=> InAt(u, i)
  BY Extended
<1>2. \A i \in (n + 1) .. (n + k) : i - n \in 1 .. k
  OBVIOUS
<1>3. \A i \in (n + 1) .. (n + k) : up'[u][i].type \in {"ins", "del"}
  BY <1>1, <1>2
<1>4. InAt(u, n + 1) /\ u \in inFile
  BY <1>1 DEF Session, WindowOf
<1>5. ASSUME NEW i \in (n + 1) .. (n + k + 1)
      PROVE  InAt(u, i)'
  <2>1. CASE i = n + 1
    BY <1>1, <1>4, <2>1
  <2>2. CASE i # n + 1
    <3>1. i - 1 \in (n + 1) .. (n + k) /\ i # 1
      BY <2>2
    <3>2. QED
      BY <1>3, <3>1 DEF InAt
  <2>3. QED
    BY <2>1, <2>2
<1>6. UpOf(u)'
  <2>1. ASSUME NEW i \in 1 .. n
        PROVE  /\ i \in 1 .. Len(up[u]) /\ up'[u][i] = up[u][i]
               /\ (InAt(u, i)' <=> InAt(u, i))
               /\ up[u][i].type \in {"ins", "del"}
    <3>1. i \in 1 .. (n + 1)
      OBVIOUS
    <3>2. InAt(u, i)' <=> InAt(u, i)
      BY <1>1, <3>1
    <3>3. up[u][i].type \in {"ins", "del", "close"} /\ up[u][i].type # "close"
      BY <1>1 DEF Session, UpOf, Alive
    <3>4. QED
      BY <1>1, <3>2, <3>3
  <2>2. ASSUME NEW i \in 1 .. (n + k)
        PROVE  up'[u][i].type \in {"ins", "del"} /\ InAt(u, i)'
    <3>1. CASE i \in 1 .. n
      BY <2>1, <3>1 DEF Session, UpOf
    <3>2. CASE i \in (n + 1) .. (n + k)
      <4>1. i \in (n + 1) .. (n + k + 1)
        BY <3>2
      <4>2. QED
        BY <1>3, <1>5, <3>2, <4>1
    <3>3. QED
      BY <3>1, <3>2
  <2>3. QED
    BY <1>1, <2>2 DEF UpOf
<1>7. WindowOf(u)'
  <2>1. n + k + 1 \in (n + 1) .. (n + k + 1)
    OBVIOUS
  <2>2. InAt(u, n + k + 1)'
    BY <1>5, <2>1
  <2>3. QED
    BY <1>1, <1>4, <2>2 DEF WindowOf
<1>8. FileOf(u)'
  BY DEF Session, FileOf
<1>9. QED
  BY <1>6, <1>7, <1>8 DEF Session

\* The document is opened from the browser, or left for it.
LEMMA WindowSession ==
  ASSUME TypeInv, NEW u \in Users, Session(u), UNCHANGED <<inFile, down>>,
         NEW m, SendUp(u, <<m>>),
         \/ m.type = "get" /\ window[u] = "closed" /\ window' = [window EXCEPT ![u] = "opening"]
         \/ m.type = "close" /\ window[u] = "open" /\ window' = [window EXCEPT ![u] = "closed"]
  PROVE  Session(u)'
<1>1. <<m>> \in Seq({m}) /\ Len(<<m>>) = 1 /\ <<m>>[1] = m
  OBVIOUS
<1>2. PICK n \in Nat :
         /\ Len(up[u]) = n /\ Len(up'[u]) = n + 1
         /\ \A i \in 1 .. n : up'[u][i] = up[u][i]
         /\ up'[u][n + 1] = m
         /\ \A i \in 1 .. (n + 1) : InAt(u, i)' <=> InAt(u, i)
  <2>1. PICK n \in Nat, k \in Nat :
           /\ Len(up[u]) = n /\ Len(<<m>>) = k /\ Len(up'[u]) = n + k
           /\ \A i \in 1 .. n : up'[u][i] = up[u][i]
           /\ \A i \in (n + 1) .. (n + k) : up'[u][i] = <<m>>[i - n]
           /\ \A i \in 1 .. (n + 1) : InAt(u, i)' <=> InAt(u, i)
    BY <1>1, Extended
  <2>2. k = 1 /\ n + 1 \in (n + 1) .. (n + k) /\ (n + 1) - n = 1
    BY <1>1, <2>1
  <2>3. up'[u][n + 1] = m
    BY <1>1, <2>1, <2>2
  <2>4. QED
    BY <2>1, <2>2, <2>3
<1>3. \A i \in 1 .. n : up[u][i].type \in {"ins", "del", "close"}
  BY <1>2 DEF Session, UpOf, Alive
<1>4. InAt(u, n + 1)' <=> InAt(u, n + 1)
  <2>1. n + 1 \in 1 .. (n + 1)
    OBVIOUS
  <2>2. QED
    BY <1>2, <2>1
<1>5. InAt(u, n + 2)' <=> m.type \in {"get", "ins", "del"}
  BY <1>2 DEF InAt
<1>6. window \in [Users -> {"closed", "opening", "open", "down"}]
  BY DEF TypeInv
<1>7. CASE m.type = "get" /\ window[u] = "closed" /\ window'[u] = "opening"
  <2>1. ~ InAt(u, n + 1)'
    BY <1>2, <1>4, <1>7 DEF Session, WindowOf
  <2>2. ASSUME NEW i \in 1 .. n
        PROVE  /\ up'[u][i].type \in {"ins", "del", "close"} /\ InAt(u, i)'
    <3>1. i \in 1 .. (n + 1)
      OBVIOUS
    <3>2. InAt(u, i)
      BY <1>2, <1>3 DEF Session, UpOf
    <3>3. QED
      BY <1>2, <1>3, <3>1, <3>2
  <2>3. UpOf(u)'
    BY <1>2, <1>7, <2>1, <2>2 DEF UpOf, Alive
  <2>4. WindowOf(u)'
    BY <1>2, <1>5, <1>7 DEF WindowOf
  <2>5. FileOf(u)'
    BY <1>7 DEF Session, FileOf
  <2>6. QED
    BY <2>3, <2>4, <2>5 DEF Session
<1>8. CASE m.type = "close" /\ window[u] = "open" /\ window'[u] = "closed"
  <2>1. InAt(u, n + 1)'
    BY <1>2, <1>4, <1>8 DEF Session, WindowOf
  <2>2. ASSUME NEW i \in 1 .. n
        PROVE  /\ up'[u][i].type \in {"ins", "del"} /\ InAt(u, i)'
    <3>1. i \in 1 .. (n + 1)
      OBVIOUS
    <3>2. InAt(u, i) /\ up[u][i].type # "close"
      BY <1>2, <1>3, <1>8 DEF Session, UpOf
    <3>3. QED
      BY <1>2, <1>3, <3>1, <3>2
  <2>3. UpOf(u)'
    BY <1>2, <1>8, <2>1, <2>2 DEF UpOf, Alive
  <2>4. WindowOf(u)'
    BY <1>2, <1>5, <1>8 DEF WindowOf
  <2>5. FileOf(u)'
    BY <1>8 DEF Session, FileOf
  <2>6. QED
    BY <2>3, <2>4, <2>5 DEF Session
<1>9. QED
  BY <1>6, <1>7, <1>8
-----------------------------------------------------------------------------
\* Messages that follow each other as UpOf asks of those on the way, before the end
\* of the connection.
InSeq(u, q, i) == IF i = 1 THEN u \in inFile ELSE q[i - 1].type \in {"get", "ins", "del"}
Orderly(u, q) ==
  \A i \in 1 .. Len(q) :
     /\ q[i].type \in {"get", "ins", "del", "close"}
     /\ q[i].type = "get" <=> ~ InSeq(u, q, i)

\* The messages of a client that lives are orderly, and so are they with the
\* deletion of an edit behind them.
LEMMA UpOrderly ==
  ASSUME NEW u \in Users, Session(u), Alive(u)
  PROVE  Orderly(u, up[u])
  BY DEF Session, UpOf, Orderly, InAt, InSeq, Alive

\* Those on the way still do when a deletion is written behind them.
LEMMA EditOrderly ==
  ASSUME TypeInv, NEW u \in Users, Session(u), window[u] = "open", NEW m, m.type = "del"
  PROVE  /\ Orderly(u, up[u] \o <<m>>)
         /\ \E T : up[u] \o <<m>> \in Seq(T)
<1>1. PICK S : up[u] \in Seq(S)
  BY DEF TypeInv, Channels
<1>2. <<m>> \in Seq({m}) /\ Len(<<m>>) = 1 /\ <<m>>[1] = m
  OBVIOUS
<1>3. /\ up[u] \o <<m>> \in Seq(S \cup {m}) /\ Len(up[u]) \in Nat
      /\ Len(up[u] \o <<m>>) = Len(up[u]) + 1
      /\ \A i \in 1 .. Len(up[u]) : (up[u] \o <<m>>)[i] = up[u][i]
      /\ (up[u] \o <<m>>)[Len(up[u]) + 1] = m
  BY <1>1, <1>2, ConcatFacts
<1>4. PICK n \in Nat, q \in Seq(S \cup {m}) : n = Len(up[u]) /\ q = up[u] \o <<m>>
  BY <1>3
<1>5. /\ Len(q) = n + 1 /\ q[n + 1] = m
      /\ \A i \in 1 .. n : q[i] = up[u][i]
  BY <1>3, <1>4
<1>6. Orderly(u, up[u])
  BY UpOrderly DEF Alive
<1>7. ASSUME NEW i \in 1 .. (n + 1)
      PROVE  InSeq(u, q, i) <=> InSeq(u, up[u], i)
  <2>1. i # 1 => i - 1 \in 1 .. n
    OBVIOUS
  <2>2. i # 1 => q[i - 1] = up[u][i - 1]
    BY <1>5, <2>1
  <2>3. QED
    BY <2>2 DEF InSeq
<1>8. InSeq(u, q, n + 1)
  <2>1. InSeq(u, up[u], n + 1)
    BY <1>4 DEF Session, WindowOf, InAt, InSeq
  <2>2. n + 1 \in 1 .. (n + 1)
    OBVIOUS
  <2>3. QED
    BY <1>7, <2>1, <2>2
<1>9. ASSUME NEW i \in 1 .. Len(q)
      PROVE  /\ q[i].type \in {"get", "ins", "del", "close"}
             /\ q[i].type = "get" <=> ~ InSeq(u, q, i)
  <2>1. CASE i \in 1 .. n
    <3>1. i \in 1 .. (n + 1)
      BY <2>1
    <3>2. QED
      BY <1>4, <1>5, <1>6, <1>7, <2>1, <3>1 DEF Orderly
  <2>2. CASE i = n + 1
    BY <1>5, <1>8, <2>2
  <2>3. QED
    BY <1>5, <2>1, <2>2
<1>10. QED
  BY <1>3, <1>4, <1>9 DEF Orderly

\* A client dies: the server sees some of its messages and the end of them.
LEMMA CutSession ==
  ASSUME TypeInv, NEW u \in Users, NEW T, NEW q \in Seq(T), Orderly(u, q),
         Die(u), CutOff(u, q), inFile' = inFile
  PROVE  Session(u)'
<1>1. PICK k \in 0 .. Len(q) : up' = [up EXCEPT ![u] = Append(SubSeq(q, 1, k), Gone)]
  BY DEF CutOff
<1>2. /\ SubSeq(q, 1, k) \in Seq(T) /\ Len(SubSeq(q, 1, k)) = k /\ k \in Nat
      /\ \A i \in 1 .. k : SubSeq(q, 1, k)[i] = q[i] /\ i \in 1 .. Len(q)
  BY <1>1
<1>3. up'[u] = Append(SubSeq(q, 1, k), Gone)
  BY <1>1 DEF TypeInv, Channels
<1>4. /\ Len(up'[u]) = k + 1 /\ up'[u][k + 1].type = "gone"
      /\ \A i \in 1 .. k : up'[u][i] = q[i] /\ i \in 1 .. Len(q)
  BY <1>2, <1>3, AppendFacts DEF Gone
<1>5. window'[u] = "down" /\ down'[u] = << >>
  BY DEF Die, TypeInv, Channels
<1>6. ASSUME NEW i \in 1 .. (k + 1)
      PROVE  InAt(u, i)' <=> InSeq(u, q, i)
  <2>1. i # 1 => i - 1 \in 1 .. k
    OBVIOUS
  <2>2. i # 1 => up'[u][i - 1] = q[i - 1]
    BY <1>4, <2>1
  <2>3. QED
    BY <2>2 DEF InAt, InSeq
<1>7. UpOf(u)'
  <2>1. ASSUME NEW i \in 1 .. k
        PROVE  /\ up'[u][i].type \in {"get", "ins", "del", "close"}
               /\ up'[u][i].type = "get" <=> ~ InAt(u, i)'
    <3>1. i \in 1 .. (k + 1) /\ i \in 1 .. Len(q) /\ up'[u][i] = q[i]
      BY <1>4
    <3>2. InAt(u, i)' <=> InSeq(u, q, i)
      BY <1>6, <3>1
    <3>3. QED
      BY <3>1, <3>2 DEF Orderly
  <2>2. ASSUME NEW i \in 1 .. Len(up'[u])
        PROVE  i \in 1 .. k \/ (i = Len(up'[u]) /\ up'[u][i].type = "gone")
    BY <1>2, <1>4
  <2>3. QED
    BY <1>5, <2>1, <2>2 DEF UpOf, Alive
<1>8. WindowOf(u)'
  BY <1>2, <1>4, <1>5 DEF WindowOf
<1>9. FileOf(u)'
  BY <1>5 DEF FileOf
<1>10. QED
  BY <1>7, <1>8, <1>9 DEF Session

\* The user of a client that died logs in again.
LEMMA RestartSession ==
  ASSUME TypeInv, NEW u \in Users, Session(u), ~ Alive(u), up[u] = << >>,
         window' = [window EXCEPT ![u] = "closed"], UNCHANGED <<up, down, inFile>>
  PROVE  Session(u)'
<1>1. window'[u] = "closed" /\ Len(up[u]) = 0
  BY DEF TypeInv
<1>2. u \notin inFile /\ down[u] = << >>
  BY <1>1 DEF Session, WindowOf, Alive
<1>3. QED
  BY <1>1, <1>2 DEF Session, UpOf, WindowOf, FileOf, InAt
-----------------------------------------------------------------------------
\* What the client of u hears stays what it is when nothing is sent to it, and
\* nothing changes of the others.
LEMMA QuietNews ==
  ASSUME NEW u \in Users, News(u), down'[u] = down[u], peers'[u] = peers[u],
         \A v \in Users \ {u} : users'[v] = users[v], Hears(u)' => Hears(u)
  PROVE  News(u)'
<1>1. \A i, v : KnownBefore(u, i, v)' <=> KnownBefore(u, i, v)
  BY DEF KnownBefore
<1>2. ASSUME NEW i \in 1 .. Len(down[u])
      PROVE  MessageOf(u, i)'
  BY <1>1 DEF News, MessageOf
<1>3. ASSUME NEW v \in Users \ {u}
      PROVE  KnownOf(u, v)' /\ LatestOf(u, v)'
  <2>1. KnownOf(u, v)'
    BY DEF News, KnownOf, KnownBefore
  <2>2. LatestOf(u, v)'
    BY DEF News, LatestOf
  <2>3. QED
    BY <2>1, <2>2
<1>4. QED
  BY <1>2, <1>3 DEF News

\* A message that is sent to u comes last. It says of the others what the server
\* has of them now, and names only users the client hears of before.
LEMMA SentNews ==
  ASSUME TypeInv, NEW u \in Users, News(u), NEW m, down'[u] = Append(down[u], m),
         peers'[u] = peers[u],
         \A v \in Users \ {u} : /\ Informs(m, v) => Told(m, v) = users'[v]
                                /\ ~ Informs(m, v) => users'[v] = users[v]
                                /\ users[v] # "absent" => users'[v] # "absent",
         m.type \in {"ins", "del", "on", "off", "file"},
         m.type # "file" =>
            m.user \in Users \ {u} /\ users'[m.user] # "absent" /\ Hears(u)
            /\ (m.type # "on" => users[m.user] # "absent"),
         m.type = "file" => m.users \in [Users -> Statuses],
         Hears(u)' => Hears(u) \/ m.type = "file"
  PROVE  News(u)'
<1>1. PICK n \in Nat :
         /\ Len(down[u]) = n /\ Len(down'[u]) = n + 1 /\ down'[u][n + 1] = m
         /\ \A i \in 1 .. n : down'[u][i] = down[u][i]
  <2>1. PICK S : Channels(S)
    BY DEF TypeInv
  <2>2. down[u] \in Seq(S)
    BY <2>1 DEF Channels
  <2>3. QED
    BY <2>2, AppendFacts
<1>2. ASSUME NEW i \in 1 .. (n + 1), NEW v
      PROVE  KnownBefore(u, i, v)' <=> KnownBefore(u, i, v)
  <2>1. \A j \in 1 .. (i - 1) : j \in 1 .. n
    OBVIOUS
  <2>2. QED
    BY <1>1, <2>1 DEF KnownBefore
<1>3. ASSUME NEW v \in Users \ {u}, KnownBefore(u, n + 1, v)
      PROVE  users[v] # "absent"
  <2>1. CASE peers[u][v] # "absent"
    BY <2>1 DEF News, KnownOf
  <2>2. ASSUME NEW j \in 1 .. n, Introduces(down[u][j], v)
        PROVE  users[v] # "absent"
    BY <1>1, <2>2 DEF News, MessageOf, Introduces
  <2>3. QED
    BY <1>3, <2>1, <2>2 DEF KnownBefore
<1>4. ASSUME NEW i \in 1 .. n
      PROVE  MessageOf(u, i)'
  <2>1. down'[u][i] = down[u][i] /\ i \in 1 .. (n + 1)
    BY <1>1
  <2>2. \A v : KnownBefore(u, i, v)' <=> KnownBefore(u, i, v)
    BY <1>2, <2>1
  <2>3. MessageOf(u, i)
    BY <1>1 DEF News
  <2>4. QED
    BY <2>1, <2>2, <2>3 DEF MessageOf
<1>5. MessageOf(u, n + 1)'
  <2>1. n + 1 \in 1 .. (n + 1)
    OBVIOUS
  <2>2. \A v : KnownBefore(u, n + 1, v)' <=> KnownBefore(u, n + 1, v)
    BY <1>2, <2>1
  <2>3. CASE m.type = "file"
    <3>1. \A v \in Users \ {u} : m.users[v] = users'[v]
      BY <2>3 DEF Informs, Told
    <3>2. QED
      BY <1>1, <1>3, <2>2, <2>3, <3>1 DEF MessageOf
  <2>4. CASE m.type # "file"
    <3>1. m.type # "on" => KnownBefore(u, n + 1, m.user)
      BY <1>1, <2>4 DEF News, KnownOf
    <3>2. QED
      BY <1>1, <2>2, <2>4, <3>1 DEF MessageOf
  <2>5. QED
    BY <2>3, <2>4
<1>6. ASSUME NEW v \in Users \ {u}
      PROVE  KnownOf(u, v)'
  <2>1. peers'[u][v] # "absent" => users'[v] # "absent"
    BY DEF News, KnownOf
  <2>2. ASSUME Hears(u)', users'[v] # "absent"
        PROVE  KnownBefore(u, n + 2, v)'
    <3>1. CASE Introduces(m, v)
      <4>1. n + 1 \in 1 .. ((n + 2) - 1)
        OBVIOUS
      <4>2. QED
        BY <1>1, <3>1, <4>1 DEF KnownBefore
    <3>2. CASE ~ Introduces(m, v)
      <4>1. Hears(u) /\ users[v] # "absent"
        BY <2>2, <3>2 DEF Introduces, Informs, Told
      <4>2. KnownBefore(u, n + 1, v)
        BY <1>1, <4>1 DEF News, KnownOf
      <4>3. \A j \in 1 .. ((n + 1) - 1) : j \in 1 .. ((n + 2) - 1) /\ j \in 1 .. n
        OBVIOUS
      <4>4. QED
        BY <1>1, <4>2, <4>3 DEF KnownBefore
    <3>3. QED
      BY <3>1, <3>2
  <2>3. Len(down'[u]) + 1 = n + 2
    BY <1>1
  <2>4. QED
    BY <2>1, <2>2, <2>3 DEF KnownOf, KnownBefore
<1>7. ASSUME NEW v \in Users \ {u}, Hears(u)'
      PROVE  LatestOf(u, v)'
  <2>1. CASE Informs(m, v)
    <3>1. n + 1 \in 1 .. Len(down'[u]) /\ Informs(down'[u][n + 1], v)
      BY <1>1, <2>1
    <3>2. ASSUME NEW i \in 1 .. (n + 1), \A j \in (i + 1) .. (n + 1) : ~ Informs(down'[u][j], v)
          PROVE  i = n + 1
      <4>1. i # n + 1 => n + 1 \in (i + 1) .. (n + 1)
        BY <3>2
      <4>2. QED
        BY <3>1, <3>2, <4>1
    <3>3. Told(down'[u][n + 1], v) = users'[v]
      BY <1>1, <2>1
    <3>4. QED
      BY <1>1, <3>1, <3>2, <3>3 DEF LatestOf, Informs, Told, Status
  <2>2. CASE ~ Informs(m, v)
    <3>1. Hears(u) /\ users'[v] = users[v]
      BY <1>7, <2>2 DEF Informs
    <3>2. LatestOf(u, v)
      BY DEF News
    <3>3. ASSUME NEW i \in 1 .. (n + 1), Informs(down'[u][i], v)
          PROVE  i \in 1 .. n /\ down'[u][i] = down[u][i]
      <4>1. i # n + 1
        BY <1>1, <2>2, <3>3
      <4>2. QED
        BY <1>1, <4>1
    <3>4. (\A i \in 1 .. (n + 1) : ~ Informs(down'[u][i], v)) => peers'[u][v] = users'[v]
      <4>1. \A i \in 1 .. n : i \in 1 .. (n + 1)
        OBVIOUS
      <4>2. QED
        BY <1>1, <3>1, <3>2, <4>1 DEF LatestOf
    <3>5. ASSUME NEW i \in 1 .. (n + 1), Informs(down'[u][i], v),
                 \A j \in (i + 1) .. (n + 1) : ~ Informs(down'[u][j], v)
          PROVE  Told(down'[u][i], v) = users'[v]
      <4>1. i \in 1 .. n /\ down'[u][i] = down[u][i]
        BY <3>3, <3>5
      <4>2. \A j \in (i + 1) .. n : j \in (i + 1) .. (n + 1) /\ down'[u][j] = down[u][j]
        BY <1>1, <4>1
      <4>3. QED
        BY <1>1, <3>1, <3>2, <3>5, <4>1, <4>2 DEF LatestOf
    <3>6. QED
      BY <1>1, <3>4, <3>5 DEF LatestOf, Informs, Told, Status
  <2>3. QED
    BY <2>1, <2>2
<1>8. \A i \in 1 .. Len(down'[u]) : i \in 1 .. n \/ i = n + 1
  BY <1>1
<1>9. \A v \in Users \ {u} : LatestOf(u, v)'
  BY <1>7 DEF LatestOf
<1>10. QED
  BY <1>4, <1>5, <1>6, <1>8, <1>9 DEF News
\* The client of u takes in the first message: what it says of the others is in
\* the client's map now.
LEMMA TakenNews ==
  ASSUME TypeInv, NEW u \in Users, News(u), down[u] # << >>, Drop(u), users' = users,
         Hears(u)' => Hears(u),
         \A v \in Users \ {u} :
            peers'[u][v] = IF Informs(Head(down[u]), v) THEN Told(Head(down[u]), v)
                           ELSE peers[u][v]
  PROVE  News(u)'
<1>1. PICK n \in Nat :
         /\ Len(down[u]) = n + 1 /\ Len(down'[u]) = n
         /\ \A i \in 1 .. n : down'[u][i] = down[u][i + 1] /\ i + 1 \in 1 .. (n + 1)
         /\ Head(down[u]) = down[u][1]
  <2>1. PICK S : Channels(S)
    BY DEF TypeInv
  <2>2. down[u] \in Seq(S) /\ down'[u] = Tail(down[u])
    BY <2>1 DEF Channels, Drop
  <2>3. PICK k \in Nat \ {0} : k = Len(down[u])
    BY <2>2, TailFacts
  <2>4. k - 1 \in Nat /\ (k - 1) + 1 = k
    OBVIOUS
  <2>5. QED
    BY <2>2, <2>3, <2>4, TailFacts
<1>. DEFINE m == down[u][1]
<1>2. MessageOf(u, 1)
  BY <1>1 DEF News
<1>3. ASSUME NEW v \in Users \ {u}
      PROVE  /\ Introduces(m, v) => peers'[u][v] # "absent"
             /\ peers[u][v] # "absent" => peers'[u][v] # "absent"
             /\ peers'[u][v] # "absent" => peers[u][v] # "absent" \/ Introduces(m, v)
             /\ peers'[u][v] # "absent" => users[v] # "absent"
  <2>1. \A w : KnownBefore(u, 1, w) <=> peers[u][w] # "absent"
    BY DEF KnownBefore
  <2>2. peers[u][v] # "absent" => users[v] # "absent"
    BY DEF News, KnownOf
  <2>3. peers'[u][v] = IF Informs(m, v) THEN Told(m, v) ELSE peers[u][v]
    BY <1>1
  <2>4. QED
    BY <1>2, <2>1, <2>2, <2>3 DEF MessageOf, Introduces, Informs, Told, Status
<1>4. ASSUME NEW i \in 1 .. (n + 1), NEW v \in Users \ {u}
      PROVE  KnownBefore(u, i, v)' <=> KnownBefore(u, i + 1, v)
  <2>1. ASSUME KnownBefore(u, i, v)'
        PROVE  KnownBefore(u, i + 1, v)
    <3>1. CASE peers'[u][v] # "absent"
      <4>1. 1 \in 1 .. ((i + 1) - 1)
        OBVIOUS
      <4>2. QED
        BY <1>3, <3>1, <4>1 DEF KnownBefore
    <3>2. ASSUME NEW j \in 1 .. (i - 1), Introduces(down'[u][j], v)
          PROVE  KnownBefore(u, i + 1, v)
      <4>1. j \in 1 .. n /\ j + 1 \in 1 .. ((i + 1) - 1)
        BY <3>2
      <4>2. Introduces(down[u][j + 1], v)
        BY <1>1, <3>2, <4>1
      <4>3. QED
        BY <4>1, <4>2 DEF KnownBefore
    <3>3. QED
      BY <2>1, <3>1, <3>2 DEF KnownBefore, Introduces
  <2>2. ASSUME KnownBefore(u, i + 1, v)
        PROVE  KnownBefore(u, i, v)'
    <3>1. CASE peers[u][v] # "absent"
      BY <1>3, <3>1 DEF KnownBefore
    <3>2. ASSUME NEW j \in 1 .. ((i + 1) - 1), Introduces(down[u][j], v)
          PROVE  KnownBefore(u, i, v)'
      <4>1. CASE j = 1
        BY <1>3, <3>2, <4>1 DEF KnownBefore
      <4>2. CASE j # 1
        <5>1. j - 1 \in 1 .. (i - 1) /\ j - 1 \in 1 .. n /\ (j - 1) + 1 = j
          BY <4>2
        <5>2. down'[u][j - 1] = down[u][j]
          BY <1>1, <5>1
        <5>3. QED
          BY <3>2, <5>1, <5>2 DEF KnownBefore, Introduces
      <4>3. QED
        BY <4>1, <4>2
    <3>3. QED
      BY <2>2, <3>1, <3>2 DEF KnownBefore
  <2>3. QED
    BY <2>1, <2>2
<1>5. ASSUME NEW i \in 1 .. n
      PROVE  MessageOf(u, i)'
  <2>1. down'[u][i] = down[u][i + 1] /\ i + 1 \in 1 .. (n + 1) /\ i \in 1 .. (n + 1)
    BY <1>1
  <2>2. \A v \in Users \ {u} : KnownBefore(u, i, v)' <=> KnownBefore(u, i + 1, v)
    BY <1>4, <2>1
  <2>3. MessageOf(u, i + 1)
    BY <1>1, <2>1 DEF News
  <2>4. QED
    BY <2>1, <2>2, <2>3 DEF MessageOf
<1>6. ASSUME NEW v \in Users \ {u}
      PROVE  KnownOf(u, v)'
  <2>1. n + 1 \in 1 .. (n + 1) /\ (n + 1) + 1 = n + 2
    OBVIOUS
  <2>2. KnownBefore(u, n + 1, v)' <=> KnownBefore(u, n + 2, v)
    BY <1>4, <2>1
  <2>3. Hears(u) /\ users[v] # "absent" => KnownBefore(u, n + 2, v)
    <3>1. Len(down[u]) + 1 = n + 2
      BY <1>1
    <3>2. KnownOf(u, v)
      BY DEF News
    <3>3. QED
      BY <3>1, <3>2 DEF KnownOf
  <2>4. (Hears(u) /\ users[v] # "absent")' => KnownBefore(u, n + 1, v)'
    BY <2>2, <2>3
  <2>5. QED
    BY <1>1, <1>3, <2>4 DEF KnownOf, KnownBefore
<1>7. ASSUME NEW v \in Users \ {u}, Hears(u)'
      PROVE  LatestOf(u, v)'
  <2>1. LatestOf(u, v) /\ Hears(u)
    BY <1>7 DEF News
  <2>2. ASSUME NEW i \in 1 .. n, Informs(down'[u][i], v),
               \A j \in (i + 1) .. n : ~ Informs(down'[u][j], v)
        PROVE  Told(down'[u][i], v) = users[v]
    <3>1. i + 1 \in 1 .. (n + 1) /\ down'[u][i] = down[u][i + 1]
      BY <1>1
    <3>2. ASSUME NEW j \in ((i + 1) + 1) .. (n + 1)
          PROVE  ~ Informs(down[u][j], v)
      <4>1. j - 1 \in (i + 1) .. n /\ j - 1 \in 1 .. n /\ (j - 1) + 1 = j
        BY <3>2
      <4>2. QED
        BY <1>1, <2>2, <4>1
    <3>3. QED
      BY <1>1, <2>1, <2>2, <3>1, <3>2 DEF LatestOf
  <2>3. ASSUME \A i \in 1 .. n : ~ Informs(down'[u][i], v)
        PROVE  peers'[u][v] = users[v]
    <3>1. ASSUME NEW j \in 1 .. (n + 1), j # 1
          PROVE  ~ Informs(down[u][j], v)
      <4>1. j - 1 \in 1 .. n /\ (j - 1) + 1 = j
        BY <3>1
      <4>2. QED
        BY <1>1, <2>3, <4>1
    <3>2. CASE Informs(m, v)
      <4>1. 1 \in 1 .. (n + 1) /\ \A j \in (1 + 1) .. (n + 1) : j \in 1 .. (n + 1) /\ j # 1
        OBVIOUS
      <4>2. Told(m, v) = users[v]
        BY <1>1, <2>1, <3>1, <3>2, <4>1 DEF LatestOf
      <4>3. QED
        BY <1>1, <3>2, <4>2
    <3>3. CASE ~ Informs(m, v)
      <4>1. \A j \in 1 .. (n + 1) : ~ Informs(down[u][j], v)
        BY <3>1, <3>3
      <4>2. QED
        BY <1>1, <2>1, <3>3, <4>1 DEF LatestOf
    <3>4. QED
      BY <3>2, <3>3
  <2>4. QED
    BY <1>1, <2>2, <2>3 DEF LatestOf, Informs, Told, Status
<1>8. \A v \in Users \ {u} : LatestOf(u, v)'
  BY <1>7 DEF LatestOf
<1>9. QED
  BY <1>1, <1>5, <1>6, <1>8 DEF News

\* A client that has died knows nobody and hears nothing.
LEMMA DeadNews ==
  ASSUME TypeInv, NEW u \in Users, Die(u), users' = users
  PROVE  News(u)'
<1>1. down'[u] = << >> /\ peers'[u] = Nobody /\ window'[u] = "down"
  BY DEF Die, TypeInv, Channels
<1>2. \A v \in Users : peers'[u][v] = "absent"
  BY <1>1 DEF Nobody
<1>3. ~ Hears(u)'
  BY <1>1 DEF Hears, Alive
<1>4. QED
  BY <1>1, <1>2, <1>3 DEF News, KnownOf, LatestOf
-----------------------------------------------------------------------------
\* The channels after a step are sequences over some set again.
LEMMA ChannelsKept ==
  ASSUME NEW S, NEW T, up' \in [Users -> Seq(S)], down' \in [Users -> Seq(T)]
  PROVE  \E R : Channels(R)'
<1>1. up' \in [Users -> Seq(S \cup T)] /\ down' \in [Users -> Seq(S \cup T)]
  BY Larger
<1>2. QED
  BY <1>1 DEF Channels

\* The channel to the server is one after a client has sent.
LEMMA UpSent ==
  ASSUME NEW S, up \in [Users -> Seq(S)], NEW u \in Users, NEW T, NEW t \in Seq(T), SendUp(u, t)
  PROVE  up' \in [Users -> Seq(S \cup T)]
<1>1. up \in [Users -> Seq(S \cup T)] /\ up[u] \o t \in Seq(S \cup T)
  BY Larger, ConcatFacts
<1>2. QED
  BY <1>1 DEF SendUp

\* The same after the server has received.
LEMMA UpConsumed ==
  ASSUME NEW S, up \in [Users -> Seq(S)], NEW u \in Users, up[u] # << >>, Consume(u)
  PROVE  up' \in [Users -> Seq(S)]
  BY TailFacts DEF Consume

\* The same after the connection has been cut.
LEMMA UpCut ==
  ASSUME NEW S, up \in [Users -> Seq(S)], NEW u \in Users, NEW T, NEW q \in Seq(T), CutOff(u, q)
  PROVE  up' \in [Users -> Seq(S \cup (T \cup {Gone}))]
<1>1. PICK k \in 0 .. Len(q) : up' = [up EXCEPT ![u] = Append(SubSeq(q, 1, k), Gone)]
  BY DEF CutOff
<1>2. SubSeq(q, 1, k) \in Seq(T)
  BY <1>1
<1>3. Append(SubSeq(q, 1, k), Gone) \in Seq(T \cup {Gone})
  BY <1>2, AppendFacts
<1>4. /\ Append(SubSeq(q, 1, k), Gone) \in Seq(S \cup (T \cup {Gone}))
      /\ up \in [Users -> Seq(S \cup (T \cup {Gone}))]
  BY <1>3, Larger
<1>5. QED
  BY <1>1, <1>4

\* The channels to the clients are ones after a broadcast.
LEMMA DownTold ==
  ASSUME NEW S, down \in [Users -> Seq(S)], NEW A, NEW m
  PROVE  Broadcast(A, m) \in [Users -> Seq(S \cup {m})]
<1>1. ASSUME NEW v \in Users
      PROVE  Append(down[v], m) \in Seq(S \cup {m}) /\ down[v] \in Seq(S \cup {m})
  BY AppendFacts, Larger
<1>2. QED
  BY <1>1 DEF Broadcast

\* The same after a client has received.
LEMMA DownDropped ==
  ASSUME NEW S, down \in [Users -> Seq(S)], NEW u \in Users, down[u] # << >>, Drop(u)
  PROVE  down' \in [Users -> Seq(S)]
  BY TailFacts DEF Drop

\* A client dies.
LEMMA DieTypes ==
  ASSUME TypeInv, NEW u \in Users, Die(u), UNCHANGED <<users, inFile>>,
         NEW T, NEW q \in Seq(T), CutOff(u, q)
  PROVE  TypeInv'
<1>1. PICK S : Channels(S)
  BY DEF TypeInv
<1>2. up' \in [Users -> Seq(S \cup (T \cup {Gone}))]
  BY <1>1, UpCut DEF Channels
<1>3. down' \in [Users -> Seq(S)]
  BY <1>1 DEF Channels, Die
<1>4. Nobody \in [Users -> Statuses]
  BY DEF Nobody, Statuses
<1>5. \E R : Channels(R)'
  BY <1>2, <1>3, ChannelsKept
<1>6. QED
  BY <1>4, <1>5 DEF TypeInv, Die
-----------------------------------------------------------------------------
\* A step of the client of u that sends nothing to anybody else: what concerns the
\* other clients stays.
LEMMA OwnStep ==
  ASSUME IInv, NEW u \in Users, UNCHANGED <<users, inFile>>,
         \A v \in Users \ {u} : /\ window'[v] = window[v] /\ up'[v] = up[v]
                                /\ down'[v] = down[v] /\ peers'[v] = peers[v],
         TypeInv', Session(u)', News(u)'
  PROVE  IInv'
<1>1. ASSUME NEW v \in Users \ {u}
      PROVE  Session(v)' /\ News(v)'
  <2>1. Session(v) /\ News(v) /\ TypeInv
    BY DEF IInv
  <2>2. Session(v)'
    BY <2>1, OtherSession
  <2>3. Hears(v)' => Hears(v)
    BY DEF Hears, Alive
  <2>4. News(v)'
    BY <2>1, <2>3, QuietNews
  <2>5. QED
    BY <2>2, <2>4
<1>2. OnlineInv'
  BY DEF IInv, OnlineInv
<1>3. QED
  BY <1>1, <1>2 DEF IInv

\* The steps of a client's window.
LEMMA WindowStep ==
  ASSUME IInv, NEW u \in Users, Open(u) \/ CloseFile(u) \/ Restart(u)
  PROVE  IInv'
<1>1. TypeInv /\ Session(u) /\ News(u)
  BY DEF IInv
<1>2. PICK S : Channels(S)
  BY <1>1 DEF TypeInv
<1>3. UNCHANGED <<users, inFile, down, peers>>
  BY DEF Open, CloseFile, Restart, server, channels
<1>4. News(u)'
  <2>1. Hears(u)' => Hears(u)
    <3>1. Restart(u) => Len(up[u]) = 0 /\ ~ Alive(u)
      BY DEF Restart
    <3>2. Restart(u) => u \notin inFile
      BY <1>1, <3>1 DEF Session, WindowOf, Alive
    <3>3. Open(u) \/ CloseFile(u) => Alive(u)
      BY DEF Open, CloseFile, Alive
    <3>4. QED
      BY <1>3, <3>2, <3>3 DEF Hears
  <2>2. QED
    BY <1>1, <1>3, <2>1, QuietNews
<1>5. CASE Restart(u)
  <2>1. Session(u)'
    BY <1>1, <1>5, RestartSession DEF Restart, server, channels
  <2>2. TypeInv'
    BY <1>1, <1>2, <1>3, <1>5 DEF TypeInv, Restart, Channels, channels
  <2>3. QED
    BY <1>1, <1>3, <1>4, <1>5, <2>1, <2>2, OwnStep DEF Restart, channels, TypeInv
<1>6. CASE Open(u) \/ CloseFile(u)
  <2>1. PICK m : /\ SendUp(u, <<m>>)
                 /\ \/ m.type = "get" /\ window[u] = "closed" /\ window' = [window EXCEPT ![u] = "opening"]
                    \/ m.type = "close" /\ window[u] = "open" /\ window' = [window EXCEPT ![u] = "closed"]
    BY <1>6 DEF Open, CloseFile, Get, Close
  <2>2. Session(u)'
    BY <1>1, <1>3, <2>1, WindowSession
  <2>3. <<m>> \in Seq({m})
    OBVIOUS
  <2>4. up' \in [Users -> Seq(S \cup {m})]
    BY <1>2, <2>1, <2>3, UpSent DEF Channels
  <2>5. \E R : Channels(R)'
    BY <1>2, <1>3, <2>4, ChannelsKept DEF Channels
  <2>6. window' \in [Users -> {"closed", "opening", "open", "down"}]
    BY <1>1, <2>1 DEF TypeInv
  <2>7. TypeInv'
    BY <1>1, <1>3, <2>5, <2>6 DEF TypeInv
  <2>8. \A v \in Users \ {u} : window'[v] = window[v] /\ up'[v] = up[v]
    BY <1>1, <1>2, <2>1 DEF TypeInv, Channels, SendUp
  <2>9. QED
    BY <1>1, <1>3, <1>4, <2>2, <2>7, <2>8, OwnStep
<1>7. QED
  BY <1>5, <1>6

\* A sequence of at most one message.
LEMMA Single ==
  ASSUME NEW x, NEW c, x = << >> \/ \E e : x = <<e>> /\ e.type = c
  PROVE  \E T : x \in Seq(T) /\ \A i \in 1 .. Len(x) : x[i].type = c
<1>1. CASE x = << >>
  <2>1. x \in Seq({}) /\ Len(x) = 0
    BY <1>1
  <2>2. QED
    BY <2>1
<1>2. ASSUME NEW e, x = <<e>>, e.type = c
      PROVE  \E T : x \in Seq(T) /\ \A i \in 1 .. Len(x) : x[i].type = c
  <2>1. x \in Seq({e}) /\ Len(x) = 1 /\ x[1] = e
    BY <1>2
  <2>2. \A i \in 1 .. Len(x) : i = 1
    BY <2>1
  <2>3. \A i \in 1 .. Len(x) : x[i].type = c
    BY <1>2, <2>1, <2>2
  <2>4. QED
    BY <2>1, <2>3
<1>3. QED
  BY <1>1, <1>2

\* An edit.
LEMMA EditStep ==
  ASSUME IInv, NEW u \in Users, NEW k, NEW removed, NEW added, NEW breaks,
         Edit(u, k, removed, added, breaks)
  PROVE  IInv'
<1>1. TypeInv /\ Session(u) /\ News(u)
  BY DEF IInv
<1>2. PICK S : Channels(S)
  BY <1>1 DEF TypeInv
<1>3. window[u] = "open" /\ UNCHANGED <<users, inFile, down, peers, window>>
  BY DEF Edit, EditFits, server
<1>4. PICK syms : SendUp(u, DelMsg(u, k, removed) \o (IF added = 0 THEN << >> ELSE <<Ins(syms)>>))
  BY DEF Edit
<1>5. PICK T : \E t \in Seq(T) : SendUp(u, t) /\ \A i \in 1 .. Len(t) : t[i].type \in {"ins", "del"}
  <2>1. PICK x, y : SendUp(u, x \o y)
                    /\ (x = << >> \/ \E d : x = <<d>> /\ d.type = "del")
                    /\ (y = << >> \/ \E e : y = <<e>> /\ e.type = "ins")
    BY <1>4 DEF DelMsg, Ins, Del
  <2>2. PICK A : x \in Seq(A) /\ \A i \in 1 .. Len(x) : x[i].type = "del"
    BY <2>1, Single
  <2>3. PICK B : y \in Seq(B) /\ \A i \in 1 .. Len(y) : y[i].type = "ins"
    BY <2>1, Single
  <2>4. \A i \in (Len(x) + 1) .. (Len(x) + Len(y)) : i - Len(x) \in 1 .. Len(y)
    BY <2>2, <2>3
  <2>5. /\ x \o y \in Seq(A \cup B)
        /\ \A i \in 1 .. Len(x \o y) : (x \o y)[i].type \in {"ins", "del"}
    BY <2>2, <2>3, <2>4, ConcatFacts
  <2>6. QED
    BY <2>1, <2>5
<1>6. PICK t \in Seq(T) : SendUp(u, t) /\ \A i \in 1 .. Len(t) : t[i].type \in {"ins", "del"}
  BY <1>5
<1>7. Session(u)'
  BY <1>1, <1>3, <1>6, EditSession
<1>8. News(u)'
  BY <1>1, <1>3, QuietNews DEF Hears, Alive
<1>9. up' \in [Users -> Seq(S \cup T)]
  BY <1>2, <1>6, UpSent DEF Channels
<1>10. TypeInv'
  <2>1. \E R : Channels(R)'
    BY <1>2, <1>3, <1>9, ChannelsKept DEF Channels
  <2>2. QED
    BY <1>1, <1>3, <2>1 DEF TypeInv
<1>11. \A v \in Users \ {u} : up'[v] = up[v]
  BY <1>2, <1>6 DEF Channels, SendUp
<1>12. QED
  BY <1>1, <1>3, <1>7, <1>8, <1>10, <1>11, OwnStep

\* A client dies, by an exception in an edit or otherwise.
LEMMA DieStep ==
  ASSUME IInv, NEW u \in Users, Alive(u), Die(u), UNCHANGED <<users, inFile>>,
         \/ CutOff(u, up[u])
         \/ window[u] = "open" /\ \E m : m.type = "del" /\ CutOff(u, up[u] \o <<m>>)
  PROVE  IInv'
<1>1. TypeInv /\ Session(u) /\ News(u)
  BY DEF IInv
<1>2. PICK S : Channels(S)
  BY <1>1 DEF TypeInv
<1>3. PICK T : \E q \in Seq(T) : Orderly(u, q) /\ CutOff(u, q)
  <2>1. CASE CutOff(u, up[u])
    BY <1>1, <1>2, <2>1, UpOrderly DEF Channels
  <2>2. ASSUME NEW m, window[u] = "open", m.type = "del", CutOff(u, up[u] \o <<m>>)
        PROVE  \E T : \E q \in Seq(T) : Orderly(u, q) /\ CutOff(u, q)
    BY <1>1, <2>2, EditOrderly
  <2>3. QED
    BY <2>1, <2>2
<1>4. PICK q \in Seq(T) : Orderly(u, q) /\ CutOff(u, q)
  BY <1>3
<1>5. Session(u)'
  BY <1>1, <1>4, CutSession
<1>6. News(u)'
  BY <1>1, DeadNews
<1>7. TypeInv'
  BY <1>1, <1>4, DieTypes
<1>8. \A v \in Users \ {u} : up'[v] = up[v]
  BY <1>2, <1>4 DEF Channels, CutOff
<1>9. \A v \in Users \ {u} : window'[v] = window[v] /\ down'[v] = down[v] /\ peers'[v] = peers[v]
  BY <1>1, <1>2 DEF Die, TypeInv, Channels
<1>10. QED
  BY <1>5, <1>6, <1>7, <1>8, <1>9, OwnStep
-----------------------------------------------------------------------------
\* A client that hears nothing after a step keeps what it knows of users who have
\* been in the file.
LEMMA DeafNews ==
  ASSUME NEW u \in Users, News(u), down'[u] = down[u], peers'[u] = peers[u], ~ Hears(u)',
         \A v \in Users \ {u} : users[v] # "absent" => users'[v] # "absent"
  PROVE  News(u)'
<1>1. \A i, v : KnownBefore(u, i, v)' <=> KnownBefore(u, i, v)
  BY DEF KnownBefore
<1>2. ASSUME NEW i \in 1 .. Len(down[u])
      PROVE  MessageOf(u, i)'
  BY <1>1 DEF News, MessageOf
<1>3. ASSUME NEW v \in Users \ {u}
      PROVE  KnownOf(u, v)' /\ LatestOf(u, v)'
  <2>1. KnownOf(u, v)'
    BY DEF News, KnownOf
  <2>2. LatestOf(u, v)'
    BY DEF LatestOf
  <2>3. QED
    BY <2>1, <2>2
<1>4. QED
  BY <1>2, <1>3 DEF News

\* The server handles a message of u and sends m, which names u, to the others in
\* the file.
LEMMA ServerStep ==
  ASSUME IInv, NEW u \in Users, up[u] # << >>, Consume(u), UNCHANGED <<window, peers>>,
         \A v \in Users \ {u} : (v \in inFile' <=> v \in inFile) /\ users'[v] = users[v],
         (users'[u] = "online") = (u \in inFile'), users'[u] # "absent",
         NEW m, m.type \in {"ins", "del", "on", "off"}, m.user = u,
         IF m.type \in {"on", "off"} THEN users'[u] = Status(m) ELSE users'[u] = users[u],
         m.type # "on" => users[u] # "absent",
         \A v \in Users \ {u} :
            down'[v] = IF v \in inFile \ {u} /\ Alive(v) THEN Append(down[v], m) ELSE down[v],
         TypeInv', Session(u)', News(u)'
  PROVE  IInv'
<1>1. ASSUME NEW v \in Users \ {u}
      PROVE  Session(v)' /\ News(v)'
  <2>1. Session(v) /\ News(v) /\ TypeInv
    BY DEF IInv
  <2>2. up'[v] = up[v]
    BY <2>1 DEF TypeInv, Channels, Consume
  <2>3. m.type # "file" /\ (down'[v] = down[v] \/ (Alive(v) /\ down'[v] = Append(down[v], m)))
    OBVIOUS
  <2>4. Session(v)'
    BY <2>1, <2>2, <2>3, OtherSession
  <2>5. Hears(v)' <=> Hears(v)
    BY DEF Hears, Alive
  <2>6. CASE Hears(v)
    <3>1. down'[v] = Append(down[v], m) /\ u \in Users \ {v}
      BY <2>6 DEF Hears
    <3>2. ASSUME NEW w \in Users \ {v}
          PROVE  /\ Informs(m, w) => Told(m, w) = users'[w]
                 /\ ~ Informs(m, w) => users'[w] = users[w]
                 /\ users[w] # "absent" => users'[w] # "absent"
      <4>1. CASE w = u
        BY <4>1 DEF Informs, Told
      <4>2. CASE w # u
        BY <4>2 DEF Informs
      <4>3. QED
        BY <4>1, <4>2
    <3>3. QED
      BY <2>1, <2>3, <2>4, <2>5, <2>6, <3>1, <3>2, SentNews
  <2>7. CASE ~ Hears(v)
    <3>1. down'[v] = down[v]
      BY <2>7 DEF Hears
    <3>2. \A w \in Users \ {v} : users[w] # "absent" => users'[w] # "absent"
      OBVIOUS
    <3>3. QED
      BY <2>1, <2>4, <2>5, <2>7, <3>1, <3>2, DeafNews
  <2>8. QED
    BY <2>6, <2>7
<1>2. OnlineInv'
  BY DEF IInv, OnlineInv
<1>3. QED
  BY <1>1, <1>2 DEF IInv

\* The types after the server has handled a message.
LEMMA ServerTypes ==
  ASSUME TypeInv, NEW u \in Users, up[u] # << >>, Consume(u), UNCHANGED <<window, peers>>,
         users' \in [Users -> Statuses], inFile' \subseteq Users,
         NEW T, down' \in [Users -> Seq(T)]
  PROVE  TypeInv'
<1>1. PICK S : Channels(S)
  BY DEF TypeInv
<1>2. up' \in [Users -> Seq(S)]
  BY <1>1, UpConsumed DEF Channels
<1>3. \E R : Channels(R)'
  BY <1>2, ChannelsKept
<1>4. QED
  BY <1>3 DEF TypeInv

\* A client opens the document.
LEMMA GetStep ==
  ASSUME IInv, NEW u \in Users, ServerGet(u)
  PROVE  IInv'
<1>1. TypeInv /\ Session(u) /\ News(u)
  BY DEF IInv
<1>2. PICK S : Channels(S)
  BY <1>1 DEF TypeInv
<1>. DEFINE m == On(u)
            f == FileMsg(sdoc, users', charRow[u])
            told == Broadcast(inFile, m)
<1>3. /\ up[u] # << >> /\ Head(up[u]).type = "get" /\ u \notin inFile /\ Consume(u)
      /\ users' = [users EXCEPT ![u] = "online"] /\ inFile' = inFile \cup {u}
      /\ UNCHANGED <<window, peers>>
  BY DEF ServerGet, Received, client
<1>4. down' = IF ~ Alive(u) THEN told ELSE [told EXCEPT ![u] = Append(@, f)]
  BY DEF ServerGet
<1>5. m.type = "on" /\ m.user = u /\ Status(m) = "online"
  BY DEF On, Status
<1>6. f.type = "file" /\ f.users = users'
  BY DEF FileMsg
<1>7. users' \in [Users -> Statuses] /\ users'[u] = "online"
      /\ \A v \in Users \ {u} : users'[v] = users[v] /\ (v \in inFile' <=> v \in inFile)
  BY <1>1, <1>3 DEF TypeInv, Statuses
<1>8. told \in [Users -> Seq(S \cup {m})]
      /\ \A v \in Users : told[v] = IF v \in inFile /\ Alive(v) THEN Append(down[v], m) ELSE down[v]
  BY <1>2, DownTold DEF Channels, Broadcast
<1>9. down'[u] = IF Alive(u) THEN Append(down[u], f) ELSE down[u]
  BY <1>3, <1>4, <1>8
<1>10. TypeInv'
  <2>1. ASSUME NEW v \in Users
        PROVE  told[v] \in Seq((S \cup {m}) \cup {f}) /\ Append(told[v], f) \in Seq((S \cup {m}) \cup {f})
    BY <1>8, AppendFacts, Larger
  <2>2. told \in [Users -> Seq((S \cup {m}) \cup {f})]
    BY <1>8, <2>1
  <2>3. down' \in [Users -> Seq((S \cup {m}) \cup {f})]
    BY <1>4, <2>1, <2>2
  <2>4. inFile' \subseteq Users
    BY <1>1, <1>3 DEF TypeInv
  <2>5. QED
    BY <1>1, <1>3, <1>7, <2>3, <2>4, ServerTypes
<1>11. Session(u)'
  BY <1>1, <1>3, <1>9, ConsumedSession
<1>12. News(u)'
  <2>1. CASE Alive(u)
    <3>1. \A v \in Users \ {u} : /\ Informs(f, v) => Told(f, v) = users'[v]
                                 /\ ~ Informs(f, v) => users'[v] = users[v]
                                 /\ users[v] # "absent" => users'[v] # "absent"
      BY <1>6, <1>7 DEF Informs, Told
    <3>2. down'[u] = Append(down[u], f)
      BY <1>9, <2>1
    <3>3. f.users \in [Users -> Statuses]
      BY <1>6, <1>7
    <3>4. QED
      BY <1>1, <1>3, <1>6, <3>1, <3>2, <3>3, SentNews
  <2>2. CASE ~ Alive(u)
    <3>1. ~ Hears(u)' /\ down'[u] = down[u]
      BY <1>3, <1>9, <2>2 DEF Hears, Alive
    <3>2. QED
      BY <1>1, <1>3, <1>7, <3>1, DeafNews
  <2>3. QED
    BY <2>1, <2>2
<1>13. \A v \in Users \ {u} :
          down'[v] = IF v \in inFile \ {u} /\ Alive(v) THEN Append(down[v], m) ELSE down[v]
  BY <1>4, <1>8
<1>14. QED
  BY <1>3, <1>5, <1>7, <1>10, <1>11, <1>12, <1>13, ServerStep

\* An edit goes into the document and to the others.
LEMMA PassStep ==
  ASSUME IInv, NEW u \in Users, ServerInsert(u) \/ ServerDelete(u)
  PROVE  IInv'
<1>1. TypeInv /\ Session(u) /\ News(u) /\ OnlineInv
  BY DEF IInv
<1>2. PICK S : Channels(S)
  BY <1>1 DEF TypeInv
<1>3. PICK m : /\ m.type \in {"ins", "del"} /\ m.user = u
               /\ Head(up[u]).type \in {"ins", "del"}
               /\ down' = Broadcast(inFile \ {u}, m)
  BY DEF ServerInsert, ServerDelete, InsFrom, DelFrom, Received
<1>4. /\ up[u] # << >> /\ u \in inFile /\ Consume(u)
      /\ UNCHANGED <<users, inFile, window, peers>>
  BY DEF ServerInsert, ServerDelete, Received, client
<1>5. down' \in [Users -> Seq(S \cup {m})]
      /\ \A v \in Users :
            down'[v] = IF v \in inFile \ {u} /\ Alive(v) THEN Append(down[v], m) ELSE down[v]
  BY <1>2, <1>3, DownTold DEF Channels, Broadcast
<1>6. TypeInv'
  BY <1>1, <1>4, <1>5, ServerTypes DEF TypeInv
<1>7. down'[u] = down[u]
  BY <1>5
<1>8. Session(u)'
  BY <1>1, <1>3, <1>4, <1>7, ConsumedSession
<1>9. News(u)'
  BY <1>1, <1>4, <1>7, QuietNews DEF Hears, Alive
<1>10. users[u] = "online"
  BY <1>1, <1>4 DEF OnlineInv
<1>11. /\ \A v \in Users \ {u} : (v \in inFile' <=> v \in inFile) /\ users'[v] = users[v]
       /\ (users'[u] = "online") = (u \in inFile') /\ users'[u] # "absent"
       /\ m.type \in {"ins", "del", "on", "off"} /\ m.type \notin {"on", "off"}
       /\ IF m.type \in {"on", "off"} THEN users'[u] = Status(m) ELSE users'[u] = users[u]
  BY <1>3, <1>4, <1>10
<1>12. \A v \in Users \ {u} :
          down'[v] = IF v \in inFile \ {u} /\ Alive(v) THEN Append(down[v], m) ELSE down[v]
  BY <1>5
<1>13. up[u] # << >> /\ Consume(u) /\ UNCHANGED <<window, peers>> /\ m.user = u
       /\ (m.type # "on" => users[u] # "absent")
  BY <1>3, <1>4, <1>10
<1>14. QED
  BY <1>6, <1>8, <1>9, <1>11, <1>12, <1>13, ServerStep

\* A client that has the document open leaves it.
LEMMA LeaveStep ==
  ASSUME IInv, NEW u \in Users, Received(u, "close") \/ Received(u, "gone"), u \in inFile,
         Leave(u), Consume(u), UNCHANGED <<window, peers>>
  PROVE  IInv'
<1>1. TypeInv /\ Session(u) /\ News(u) /\ OnlineInv
  BY DEF IInv
<1>2. PICK S : Channels(S)
  BY <1>1 DEF TypeInv
<1>. DEFINE m == Off(u)
<1>3. m.type = "off" /\ m.user = u /\ Status(m) = "offline"
  BY DEF Off, Status
<1>4. /\ users' \in [Users -> Statuses] /\ users'[u] = "offline"
      /\ u \notin inFile' /\ inFile' \subseteq Users
      /\ \A v \in Users \ {u} : users'[v] = users[v] /\ (v \in inFile' <=> v \in inFile)
  BY <1>1 DEF TypeInv, Statuses, Leave
<1>5. down' \in [Users -> Seq(S \cup {m})]
      /\ \A v \in Users :
            down'[v] = IF v \in inFile \ {u} /\ Alive(v) THEN Append(down[v], m) ELSE down[v]
  BY <1>2, DownTold DEF Channels, Broadcast, Leave
<1>6. up[u] # << >> /\ Head(up[u]).type \in {"close", "gone"}
  BY DEF Received
<1>7. TypeInv'
  BY <1>1, <1>4, <1>5, <1>6, ServerTypes
<1>8. down'[u] = down[u]
  BY <1>5
<1>9. Session(u)'
  BY <1>1, <1>4, <1>6, <1>8, ConsumedSession
<1>10. News(u)'
  BY <1>1, <1>4, <1>8, QuietNews DEF Hears
<1>11. users[u] = "online"
  BY <1>1 DEF OnlineInv
<1>12. QED
  BY <1>3, <1>4, <1>5, <1>6, <1>7, <1>9, <1>10, <1>11, ServerStep

\* All that the server does with a message.
LEMMA ServerReceiveStep ==
  ASSUME IInv, NEW u \in Users, ServerReceive(u)
  PROVE  IInv'
<1>1. CASE ServerGet(u)
  BY <1>1, GetStep
<1>2. CASE ServerInsert(u) \/ ServerDelete(u)
  BY <1>2, PassStep
<1>3. CASE ServerClose(u)
  BY <1>3, LeaveStep DEF ServerClose, client
<1>4. CASE ServerGone(u) /\ u \in inFile
  BY <1>4, LeaveStep DEF ServerGone, client
<1>5. CASE ServerGone(u) /\ u \notin inFile
  <2>1. TypeInv /\ Session(u) /\ News(u)
    BY DEF IInv
  <2>2. PICK S : Channels(S)
    BY <2>1 DEF TypeInv
  <2>3. /\ up[u] # << >> /\ Head(up[u]).type = "gone" /\ Consume(u)
        /\ UNCHANGED <<users, inFile, down, window, peers>>
    BY <1>5 DEF ServerGone, Received, client
  <2>4. TypeInv'
    BY <2>1, <2>2, <2>3, ServerTypes DEF TypeInv, Channels
  <2>5. Session(u)'
    BY <1>5, <2>1, <2>3, ConsumedSession
  <2>6. News(u)'
    BY <2>1, <2>3, QuietNews DEF Hears, Alive
  <2>7. \A v \in Users \ {u} : up'[v] = up[v]
    BY <2>2, <2>3 DEF Channels, Consume
  <2>8. QED
    BY <2>3, <2>4, <2>5, <2>6, <2>7, OwnStep
<1>6. QED
  BY <1>1, <1>2, <1>3, <1>4, <1>5 DEF ServerReceive
-----------------------------------------------------------------------------
\* The client of u receives a message.
LEMMA ClientStep ==
  ASSUME IInv, NEW u \in Users, down[u] # << >>, Drop(u), UNCHANGED <<users, inFile, up>>,
         window' = IF Head(down[u]).type = "file" THEN [window EXCEPT ![u] = "open"] ELSE window,
         NEW p \in [Users -> Statuses], peers' = [peers EXCEPT ![u] = p],
         \A v \in Users \ {u} :
            p[v] = IF Informs(Head(down[u]), v) THEN Told(Head(down[u]), v) ELSE peers[u][v]
  PROVE  IInv'
<1>1. TypeInv /\ Session(u) /\ News(u)
  BY DEF IInv
<1>2. PICK S : Channels(S)
  BY <1>1 DEF TypeInv
<1>3. down' \in [Users -> Seq(S)]
  BY <1>2, DownDropped DEF Channels
<1>4. TypeInv'
  <2>1. \E R : Channels(R)'
    BY <1>2, <1>3 DEF Channels
  <2>2. window' \in [Users -> {"closed", "opening", "open", "down"}]
    BY <1>1 DEF TypeInv
  <2>3. QED
    BY <1>1, <2>1, <2>2 DEF TypeInv
<1>5. Session(u)'
  BY <1>1, DroppedSession
<1>6. Alive(u)
  BY <1>1 DEF Session, WindowOf, Alive
<1>7. News(u)'
  <2>1. peers'[u] = p
    BY <1>1 DEF TypeInv
  <2>2. Hears(u)' => Hears(u)
    BY <1>6 DEF Hears
  <2>3. QED
    BY <1>1, <2>1, <2>2, TakenNews
<1>8. \A v \in Users \ {u} : /\ window'[v] = window[v] /\ up'[v] = up[v]
                              /\ down'[v] = down[v] /\ peers'[v] = peers[v]
  BY <1>1, <1>2 DEF TypeInv, Channels, Drop
<1>9. QED
  BY <1>4, <1>5, <1>7, <1>8, OwnStep

\* All that a client does with a message.
LEMMA ClientReceiveStep ==
  ASSUME IInv, NEW u \in Users, ClientReceive(u)
  PROVE  IInv'
<1>. DEFINE m == Head(down[u])
<1>1. TypeInv /\ peers[u] \in [Users -> Statuses] /\ peers \in [Users -> [Users -> Statuses]]
  BY DEF IInv, TypeInv
<1>2. down[u] # << >> /\ Drop(u) /\ UNCHANGED <<users, inFile, up>>
  BY DEF ClientReceive, ClientFile, ClientInsert, ClientDelete, ClientOn, ClientOff, Arrived, server
<1>3. /\ m.type # "file" => m.user \in Users \ {u}
      /\ m.type = "file" => m.users \in [Users -> Statuses]
  <2>1. PICK S : Channels(S)
    BY <1>1 DEF TypeInv
  <2>2. 1 \in 1 .. Len(down[u]) /\ m = down[u][1]
    BY <1>2, <2>1, TailFacts DEF Channels
  <2>3. MessageOf(u, 1)
    BY <2>2 DEF IInv, News
  <2>4. QED
    BY <2>2, <2>3 DEF MessageOf
<1>4. CASE ClientFile(u)
  <2>. DEFINE p == [m.users EXCEPT ![u] = "absent"]
  <2>1. /\ m.type = "file" /\ window' = [window EXCEPT ![u] = "open"]
        /\ peers' = [peers EXCEPT ![u] = p]
    BY <1>4 DEF ClientFile, Arrived
  <2>2. p \in [Users -> Statuses] /\ \A v \in Users \ {u} : p[v] = m.users[v]
    BY <1>3, <2>1 DEF Statuses
  <2>3. \A v \in Users \ {u} : p[v] = IF Informs(m, v) THEN Told(m, v) ELSE peers[u][v]
    BY <2>1, <2>2 DEF Informs, Told
  <2>. HIDE DEF p
  <2>4. window' = IF m.type = "file" THEN [window EXCEPT ![u] = "open"] ELSE window
    BY <2>1
  <2>5. QED
    BY <1>2, <2>1, <2>2, <2>3, <2>4, ClientStep
<1>5. CASE ClientInsert(u) \/ ClientDelete(u)
  <2>1. m.type \in {"ins", "del"} /\ UNCHANGED <<window, peers>>
    BY <1>5 DEF ClientInsert, ClientDelete, Arrived
  <2>2. peers' = [peers EXCEPT ![u] = peers[u]]
    BY <1>1, <2>1
  <2>3. \A v \in Users \ {u} : peers[u][v] = IF Informs(m, v) THEN Told(m, v) ELSE peers[u][v]
    BY <2>1 DEF Informs
  <2>4. window' = IF m.type = "file" THEN [window EXCEPT ![u] = "open"] ELSE window
    BY <2>1
  <2>5. QED
    BY <1>1, <1>2, <2>2, <2>3, <2>4, ClientStep
<1>6. CASE ClientOn(u) \/ ClientOff(u)
  <2>. DEFINE p == [peers[u] EXCEPT ![m.user] = Status(m)]
  <2>1. m.type \in {"on", "off"} /\ UNCHANGED window
    BY <1>6 DEF ClientOn, ClientOff, Arrived
  <2>2. peers' = [peers EXCEPT ![u] = p]
    BY <1>6 DEF ClientOn, ClientOff, Arrived, Status
  <2>3. p \in [Users -> Statuses]
    BY <1>1 DEF Status, Statuses
  <2>4. \A v \in Users \ {u} : p[v] = IF Informs(m, v) THEN Told(m, v) ELSE peers[u][v]
    BY <1>1, <1>3, <2>1 DEF Informs, Told
  <2>. HIDE DEF p
  <2>5. window' = IF m.type = "file" THEN [window EXCEPT ![u] = "open"] ELSE window
    BY <2>1
  <2>6. QED
    BY <1>2, <2>2, <2>3, <2>4, <2>5, ClientStep
<1>7. QED
  BY <1>4, <1>5, <1>6 DEF ClientReceive
-----------------------------------------------------------------------------
\* At the start nobody has the document open.
LEMMA Initially ==
  ASSUME Init
  PROVE  IInv
<1>1. TypeInv
  <2>1. << >> \in Seq({})
    OBVIOUS
  <2>2. Channels({})
    BY <2>1 DEF Init, Channels
  <2>3. Nobody \in [Users -> Statuses]
    BY DEF Nobody, Statuses
  <2>4. QED
    BY <2>2, <2>3 DEF Init, TypeInv
<1>2. OnlineInv
  BY DEF Init, OnlineInv, Nobody
<1>3. ASSUME NEW u \in Users
      PROVE  Session(u) /\ News(u)
  <2>1. /\ up[u] = << >> /\ down[u] = << >> /\ window[u] = "closed" /\ u \notin inFile
        /\ \A v \in Users : peers[u][v] = "absent" /\ users[v] = "absent"
    BY <1>3 DEF Init, Nobody
  <2>2. Len(up[u]) = 0 /\ Len(down[u]) = 0
    BY <2>1
  <2>3. Session(u)
    BY <2>1, <2>2 DEF Session, UpOf, WindowOf, FileOf, InAt
  <2>4. News(u)
    BY <2>1, <2>2 DEF News, KnownOf, LatestOf, Hears
  <2>5. QED
    BY <2>3, <2>4
<1>4. QED
  BY <1>1, <1>2, <1>3 DEF IInv

\* Every step keeps the invariant of sessions and presence.
LEMMA Inductive ==
  ASSUME IInv, [Next]_vars
  PROVE  IInv'
<1>1. CASE UNCHANGED vars
  <2>1. UNCHANGED <<users, inFile, window, peers, up, down>>
    BY <1>1 DEF vars, server, client, channels
  <2>2. TypeInv' /\ OnlineInv'
    BY <2>1 DEF IInv, TypeInv, Channels, OnlineInv
  <2>3. ASSUME NEW u \in Users
        PROVE  Session(u)' /\ News(u)'
    <3>1. Session(u) /\ News(u) /\ TypeInv
      BY DEF IInv
    <3>2. Session(u)'
      BY <2>1, <3>1, OtherSession
    <3>3. News(u)'
      BY <2>1, <3>1, QuietNews DEF Hears, Alive
    <3>4. QED
      BY <3>2, <3>3
  <2>4. QED
    BY <2>2, <2>3 DEF IInv
<1>2. ASSUME NEW u \in Users, Open(u) \/ CloseFile(u) \/ Restart(u)
      PROVE  IInv'
  BY <1>2, WindowStep
<1>3. ASSUME NEW u \in Users, Types(u)
      PROVE  IInv'
  <2>1. PICK k, removed, added, breaks :
           Edit(u, k, removed, added, breaks) \/ EditThrows(u, k, removed, added, breaks)
    BY <1>3 DEF Types
  <2>2. CASE Edit(u, k, removed, added, breaks)
    BY <2>2, EditStep
  <2>3. CASE EditThrows(u, k, removed, added, breaks)
    <3>1. window[u] = "open" /\ Alive(u) /\ Die(u) /\ UNCHANGED <<users, inFile>>
      BY <2>3 DEF EditThrows, EditFits, Alive, server
    <3>2. CutOff(u, up[u] \o DelMsg(u, k, removed))
      BY <2>3 DEF EditThrows
    <3>3. CASE removed = 0
      <4>1. PICK S : up[u] \in Seq(S)
        BY DEF IInv, TypeInv, Channels
      <4>2. up[u] \o << >> = up[u]
        BY <4>1
      <4>3. CutOff(u, up[u])
        BY <3>2, <3>3, <4>2 DEF DelMsg
      <4>4. QED
        BY <3>1, <4>3, DieStep
    <3>4. CASE removed # 0
      <4>1. PICK m : m.type = "del" /\ CutOff(u, up[u] \o <<m>>)
        BY <3>2, <3>4 DEF DelMsg, Del
      <4>2. QED
        BY <3>1, <4>1, DieStep
    <3>5. QED
      BY <3>3, <3>4
  <2>4. QED
    BY <2>1, <2>2, <2>3
<1>4. ASSUME NEW u \in Users, Crash(u)
      PROVE  IInv'
  BY <1>4, DieStep DEF Crash, server
<1>5. QED
  BY <1>1, <1>2, <1>3, <1>4, ServerReceiveStep, ClientReceiveStep DEF Next

\* The invariant of sessions and presence.
LEMMA Invariant == Spec => []IInv
  BY Initially, Inductive, PTL DEF Spec
-----------------------------------------------------------------------------
\* The server never refuses a request or an edit of a client (ClientFileException
\* of getFile, localInsert, localDelete and closeFile), whatever is on the way.
THEOREM RequestsAreAccepted == Spec => []ServerNeverRefuses
<1>1. IInv => ServerNeverRefuses
  <2>. SUFFICES ASSUME IInv, NEW u \in Users, up[u] # << >>
       PROVE  CASE Head(up[u]).type = "get" -> u \notin inFile
                [] Head(up[u]).type = "gone" -> TRUE
                [] OTHER -> u \in inFile
    BY DEF ServerNeverRefuses
  <2>1. PICK S : up[u] \in Seq(S)
    BY DEF IInv, TypeInv, Channels
  <2>2. 1 \in 1 .. Len(up[u]) /\ Head(up[u]) = up[u][1]
    BY <2>1, TailFacts
  <2>3. Session(u)
    BY DEF IInv
  <2>4. QED
    BY <2>2, <2>3 DEF Session, UpOf, InAt
<1>2. QED
  BY <1>1, Invariant, PTL

\* A client that receives an operation of another user has heard of that user:
\* remoteInsert, remoteDelete and userDisconnected do not throw
\* TextEditorException.
THEOREM AuthorsAreKnown == Spec => []AuthorsKnown
<1>1. IInv => AuthorsKnown
  <2>. SUFFICES ASSUME IInv, NEW u \in Users, down[u] # << >>,
                       Head(down[u]).type \in {"ins", "del", "off"}
       PROVE  peers[u][Head(down[u]).user] # "absent"
    BY DEF AuthorsKnown
  <2>1. PICK S : down[u] \in Seq(S)
    BY DEF IInv, TypeInv, Channels
  <2>2. 1 \in 1 .. Len(down[u]) /\ Head(down[u]) = down[u][1]
    BY <2>1, TailFacts
  <2>3. MessageOf(u, 1)
    BY <2>2 DEF IInv, News
  <2>4. KnownBefore(u, 1, Head(down[u]).user)
    BY <2>2, <2>3 DEF MessageOf
  <2>5. QED
    BY <2>4 DEF KnownBefore
<1>2. QED
  BY <1>1, Invariant, PTL

\* The users an editor shows, with the news on the way to it, are those the server
\* has, and the server has online exactly those who have the file open.
THEOREM PresenceIsFollowed == Spec => []PresenceFollows
<1>1. IInv => PresenceFollows
  <2>1. ASSUME IInv, NEW u \in Users, NEW v \in Users, window[u] = "open", u # v
        PROVE  /\ NewsOf(u, v) = {} => peers[u][v] = users[v]
               /\ \A last \in NewsOf(u, v) :
                     (\A i \in NewsOf(u, v) : i <= last) => Status(down[u][last]) = users[v]
    <3>1. Session(u) /\ News(u)
      BY <2>1 DEF IInv
    <3>2. PICK n \in Nat : n = Len(down[u])
      <4>1. PICK S : down[u] \in Seq(S)
        BY <2>1 DEF IInv, TypeInv, Channels
      <4>2. QED
        BY <4>1
    <3>3. Hears(u)
      BY <2>1, <3>1 DEF Session, WindowOf, Hears, Alive
    <3>4. \A i \in 1 .. n : down[u][i].type # "file"
      BY <2>1, <3>1, <3>2 DEF Session, FileOf
    <3>5. \A i \in 1 .. n : Informs(down[u][i], v) <=> i \in NewsOf(u, v)
      BY <3>2, <3>4 DEF Informs, NewsOf
    <3>6. LatestOf(u, v)
      BY <2>1, <3>1 DEF News
    <3>7. NewsOf(u, v) = {} => peers[u][v] = users[v]
      BY <3>2, <3>3, <3>5, <3>6 DEF LatestOf
    <3>8. ASSUME NEW last \in NewsOf(u, v), \A i \in NewsOf(u, v) : i <= last
          PROVE  Status(down[u][last]) = users[v]
      <4>1. last \in 1 .. n
        BY <3>2 DEF NewsOf
      <4>2. ASSUME NEW j \in (last + 1) .. n
            PROVE  ~ Informs(down[u][j], v)
        <5>1. j \in 1 .. n /\ ~ (j <= last)
          BY <4>1
        <5>2. QED
          BY <3>5, <3>8, <5>1
      <4>3. Told(down[u][last], v) = users[v]
        BY <3>2, <3>3, <3>5, <3>6, <4>1, <4>2 DEF LatestOf
      <4>4. QED
        BY <3>4, <4>1, <4>3 DEF Told
    <3>9. QED
      BY <3>7, <3>8
  <2>2. QED
    BY <2>1 DEF PresenceFollows, IInv, OnlineInv
<1>2. QED
  BY <1>1, Invariant, PTL
-----------------------------------------------------------------------------
\* The connection of u carries what fits the documents at its ends, and makes
\* them meet for a client that hears of everything.
Link(w, u) ==
  /\ \E n : /\ Sends(w, charRow, u, Range(sdoc), up[u], n)
            /\ window[u] = "open" => n = charId[u]
  /\ Gets(w, charRow, u, Range(doc[u]), down[u], charId[u])
  /\ Hears(u) => After(Range(sdoc), up[u], Len(up[u])) = After(Range(doc[u]), down[u], Len(down[u]))

\* Every identifier has one position w, wherever it is found.
Content(w) ==
  /\ w \in Where /\ Base(w, charRow, Range(sdoc))
  /\ \A u \in Users : Link(w, u)

\* The documents are lists of symbols in the order of their positions.
InOrder ==
  /\ sdoc \in Seq(Symbol) /\ Increasing(sdoc)
  /\ doc \in [Users -> Seq(Symbol)] /\ \A u \in Users : Increasing(doc[u])
  /\ charRow \in [Users -> Nat] /\ charId \in [Users -> Nat]

CInv == InOrder /\ \E w : Content(w)

\* One message appended to a sequence.
LEMMA AppendOne ==
  ASSUME NEW S, NEW q \in Seq(S), NEW m
  PROVE  q \o <<m>> = Append(q, m)
<1>1. q \in Seq(S \cup {m}) /\ <<m>> \in Seq(S \cup {m})
  BY Larger
<1>2. QED
  BY <1>1

\* A step of u's client: nothing changes for the others.
LEMMA OwnContent ==
  ASSUME NEW w, Content(w), NEW u \in Users, UNCHANGED <<sdoc, charRow, inFile>>,
         \A v \in Users \ {u} : /\ doc'[v] = doc[v] /\ charId'[v] = charId[v] /\ up'[v] = up[v]
                                /\ down'[v] = down[v] /\ window'[v] = window[v],
         Link(w, u)'
  PROVE  Content(w)'
<1>1. ASSUME NEW v \in Users \ {u} PROVE Link(w, v)'
  <2>1. Link(w, v)
    BY DEF Content
  <2>2. Hears(v)' <=> Hears(v)
    BY DEF Hears, Alive
  <2>3. QED
    BY <2>1, <2>2 DEF Link
<1>2. QED
  BY <1>1 DEF Content

\* A message without symbols may be sent, in both directions.
LEMMA QuietSent ==
  ASSUME NEW w, NEW row, NEW u, NEW X, NEW S, NEW q \in Seq(S), NEW n \in Nat,
         Sends(w, row, u, X, q, n), NEW m, Quiet(m)
  PROVE  /\ Sends(w, row, u, X, Append(q, m), n)
         /\ After(X, Append(q, m), Len(Append(q, m))) = After(X, q, Len(q))
<1>1. Valid(w, m) /\ SentBy(row, u, m, n, n) /\ m.type # "ins"
  BY QuietMessage DEF Quiet
<1>2. Sends(w, row, u, X, Append(q, m), n)
  BY <1>1, SendsAppend
<1>3. /\ After(X, q, Len(q)) \subseteq Symbol
      /\ After(X, Append(q, m), Len(Append(q, m))) = Effect(After(X, q, Len(q)), m)
  BY AfterAppend
<1>4. Effect(After(X, q, Len(q)), m) = After(X, q, Len(q))
  BY <1>3, QuietMessage
<1>5. QED
  BY <1>2, <1>3, <1>4

\* The steps of a client's window.
LEMMA WindowContent ==
  ASSUME IInv, InOrder, NEW w, Content(w), NEW u \in Users, Open(u) \/ CloseFile(u) \/ Restart(u)
  PROVE  InOrder' /\ Content(w)'
<1>1. TypeInv /\ Session(u)
  BY DEF IInv
<1>2. PICK S : Channels(S)
  BY <1>1 DEF TypeInv
<1>3. UNCHANGED <<sdoc, charRow, inFile, doc, charId, down>>
  BY DEF Open, CloseFile, Restart, server, channels
<1>4. InOrder'
  BY <1>3 DEF InOrder
<1>5. /\ up[u] \in Seq(S) /\ Link(w, u)
      /\ \E n : Sends(w, charRow, u, Range(sdoc), up[u], n)
  BY <1>2 DEF Channels, Content, Link
<1>6. PICK n : Sends(w, charRow, u, Range(sdoc), up[u], n)
  BY <1>5
<1>7. n \in Nat
  BY <1>5, <1>6, SendsBounds DEF InOrder
<1>8. CASE Restart(u)
  <2>1. up' = up /\ window' = [window EXCEPT ![u] = "closed"] /\ up[u] = << >> /\ ~ Alive(u)
    BY <1>8 DEF Restart, channels
  <2>2. u \notin inFile
    BY <1>1, <2>1 DEF Session, WindowOf, Alive
  <2>3. window'[u] = "closed" /\ \A v \in Users \ {u} : window'[v] = window[v]
    BY <1>1, <2>1 DEF TypeInv
  <2>4. Link(w, u)'
    BY <1>3, <1>5, <1>6, <2>1, <2>2, <2>3 DEF Link, Hears
  <2>5. QED
    BY <1>3, <1>4, <2>1, <2>3, <2>4, OwnContent
<1>9. CASE Open(u) \/ CloseFile(u)
  <2>1. PICK m : /\ SendUp(u, <<m>>) /\ Quiet(m)
                 /\ \/ window[u] = "closed" /\ window' = [window EXCEPT ![u] = "opening"]
                    \/ window[u] = "open" /\ window' = [window EXCEPT ![u] = "closed"]
    <3>1. Quiet(Get) /\ Quiet(Close)
      BY DEF Quiet, Get, Close
    <3>2. QED
      BY <1>9, <3>1 DEF Open, CloseFile
  <2>2. up'[u] = Append(up[u], m) /\ \A v \in Users \ {u} : up'[v] = up[v]
    <3>1. up'[u] = up[u] \o <<m>> /\ \A v \in Users \ {u} : up'[v] = up[v]
      BY <1>2, <2>1 DEF Channels, SendUp
    <3>2. QED
      BY <1>5, <3>1, AppendOne
  <2>3. window'[u] # "open" /\ (Hears(u)' <=> Hears(u)) /\ \A v \in Users \ {u} : window'[v] = window[v]
    BY <1>1, <1>3, <2>1 DEF TypeInv, Hears, Alive
  <2>4. /\ Sends(w, charRow, u, Range(sdoc), Append(up[u], m), n)
        /\ After(Range(sdoc), Append(up[u], m), Len(Append(up[u], m)))
             = After(Range(sdoc), up[u], Len(up[u]))
    BY <1>5, <1>6, <1>7, <2>1, QuietSent
  <2>5. Link(w, u)'
    BY <1>3, <1>5, <2>2, <2>3, <2>4 DEF Link
  <2>6. QED
    BY <1>3, <1>4, <2>2, <2>3, <2>5, OwnContent
<1>10. QED
  BY <1>8, <1>9

\* A client dies: the server sees some of what it wrote, then the end.
LEMMA DieContent ==
  ASSUME TypeInv, InOrder, NEW w, Content(w), NEW u \in Users, Die(u),
         UNCHANGED <<sdoc, charRow, inFile>>,
         NEW S, NEW q \in Seq(S), NEW n, Sends(w, charRow, u, Range(sdoc), q, n), CutOff(u, q)
  PROVE  InOrder' /\ Content(w)'
<1>1. PICK T : Channels(T)
  BY DEF TypeInv
<1>2. PICK k \in 0 .. Len(q) : up' = [up EXCEPT ![u] = Append(SubSeq(q, 1, k), Gone)]
  BY DEF CutOff
<1>3. SubSeq(q, 1, k) \in Seq(S)
  BY <1>2
<1>4. /\ window'[u] = "down" /\ doc'[u] = << >> /\ charId'[u] = 0 /\ down'[u] = << >>
      /\ up'[u] = Append(SubSeq(q, 1, k), Gone)
      /\ \A v \in Users \ {u} : /\ doc'[v] = doc[v] /\ charId'[v] = charId[v] /\ up'[v] = up[v]
                                /\ down'[v] = down[v] /\ window'[v] = window[v]
  BY <1>1, <1>2 DEF Die, TypeInv, InOrder, Channels
<1>5. Range(<< >>) = {} /\ << >> \in Seq(Symbol) /\ Increasing(<< >>)
  <2>1. << >> \in Seq(Symbol) /\ Len(<< >>) = 0 /\ \A i \in 1 .. 0 : FALSE
    OBVIOUS
  <2>2. \A x : x \notin Range(<< >>)
    BY <2>1, InRange
  <2>3. QED
    BY <2>1, <2>2 DEF Increasing
<1>6. InOrder'
  <2>1. doc' = [doc EXCEPT ![u] = << >>] /\ charId' = [charId EXCEPT ![u] = 0]
    BY DEF Die
  <2>2. doc' \in [Users -> Seq(Symbol)] /\ charId' \in [Users -> Nat]
    BY <1>5, <2>1 DEF InOrder
  <2>3. \A v \in Users : Increasing(doc'[v])
    BY <1>4, <1>5 DEF InOrder
  <2>4. QED
    BY <2>2, <2>3 DEF InOrder
<1>7. PICK j \in Nat : Sends(w, charRow, u, Range(sdoc), SubSeq(q, 1, k), j)
  BY <1>2, SendsPrefix
<1>8. Quiet(Gone)
  BY DEF Quiet, Gone
<1>9. Sends(w, charRow, u, Range(sdoc), Append(SubSeq(q, 1, k), Gone), j)
  BY <1>3, <1>7, <1>8, QuietSent
<1>10. Gets(w, charRow, u, {}, << >>, 0)
  BY GetsNone
<1>11. Link(w, u)'
  BY <1>4, <1>5, <1>9, <1>10 DEF Link, Hears, Alive
<1>12. Content(w)'
  BY <1>4, <1>11, OwnContent
<1>13. QED
  BY <1>6, <1>12

\* The client of u receives a message: its document becomes e.
LEMMA TakenContent ==
  ASSUME IInv, InOrder, NEW w, Content(w), NEW u \in Users, down[u] # << >>, Drop(u),
         UNCHANGED <<sdoc, charRow, inFile, up>>,
         NEW e \in Seq(Symbol), Increasing(e), Range(e) = Effect(Range(doc[u]), Head(down[u])),
         doc' = [doc EXCEPT ![u] = e],
         IF Head(down[u]).type = "file"
           THEN /\ charId' = [charId EXCEPT ![u] = Head(down[u]).charId]
                /\ window' = [window EXCEPT ![u] = "open"]
           ELSE UNCHANGED <<charId, window>>
  PROVE  InOrder' /\ Content(w)'
<1>. DEFINE m == Head(down[u])
<1>1. TypeInv /\ Session(u)
  BY DEF IInv
<1>2. PICK S : Channels(S)
  BY <1>1 DEF TypeInv
<1>3. /\ down[u] \in Seq(S) /\ up[u] \in Seq(S) /\ down'[u] = Tail(down[u])
      /\ m = down[u][1] /\ 1 \in 1 .. Len(down[u])
      /\ \A v \in Users \ {u} : down'[v] = down[v] /\ up'[v] = up[v]
  BY <1>2, TailFacts DEF Channels, Drop
<1>4. Link(w, u) /\ Gets(w, charRow, u, Range(doc[u]), down[u], charId[u]) /\ Passed(charRow, u, m)
  BY <1>3 DEF Content, Link, Gets
<1>. DEFINE k == IF down[u][1].type = "file" THEN down[u][1].charId ELSE charId[u]
<1>5. Gets(w, charRow, u, Effect(Range(doc[u]), down[u][1]), Tail(down[u]), k)
  BY <1>3, <1>4, GetsTail
<1>8. /\ charId' \in [Users -> Nat] /\ charId'[u] = k
      /\ \A v \in Users \ {u} : charId'[v] = charId[v] /\ window'[v] = window[v]
      /\ \E n : Sends(w, charRow, u, Range(sdoc), up[u], n) /\ (window'[u] = "open" => n = charId'[u])
      /\ Hears(u)' => Hears(u)
  <2>1. CASE m.type = "file"
    <3>1. m.charId = charRow[u] /\ m.charId \in Nat
      BY <1>4, <2>1 DEF Passed, InOrder
    <3>2. charId' = [charId EXCEPT ![u] = m.charId] /\ window' = [window EXCEPT ![u] = "open"]
      BY <2>1
    <3>3. charId' \in [Users -> Nat] /\ charId'[u] = m.charId /\ window'[u] = "open"
          /\ \A v \in Users \ {u} : charId'[v] = charId[v] /\ window'[v] = window[v]
      BY <1>1, <3>1, <3>2 DEF InOrder, TypeInv
    <3>4. Len(up[u]) = 0 /\ window[u] = "opening"
      BY <1>1, <1>3, <2>1 DEF Session, FileOf
    <3>5. PICK n : Sends(w, charRow, u, Range(sdoc), up[u], n)
      BY <1>4 DEF Link
    <3>6. n = charRow[u]
      BY <3>4, <3>5 DEF Sends, Counts
    <3>7. k = m.charId
      BY <1>3, <2>1
    <3>8. Hears(u)' => Hears(u)
      BY <3>4 DEF Hears, Alive
    <3>9. QED
      BY <3>1, <3>3, <3>5, <3>6, <3>7, <3>8
  <2>2. CASE m.type # "file"
    <3>1. charId' = charId /\ window' = window /\ k = charId[u]
      BY <1>3, <2>2
    <3>2. QED
      BY <1>4, <3>1 DEF Link, InOrder, Hears, Alive
  <2>3. QED
    BY <2>1, <2>2
<1>. HIDE DEF k, m
<1>9. doc' \in [Users -> Seq(Symbol)] /\ doc'[u] = e /\ \A v \in Users \ {u} : doc'[v] = doc[v]
  BY DEF InOrder
<1>10. InOrder'
  <2>1. \A v \in Users : Increasing(doc'[v])
    BY <1>9 DEF InOrder
  <2>2. QED
    BY <1>8, <1>9, <2>1 DEF InOrder
<1>11. Range(doc'[u]) = Effect(Range(doc[u]), down[u][1])
  BY <1>3, <1>9 DEF m
<1>12. After(Range(doc'[u]), down'[u], Len(down'[u])) = After(Range(doc[u]), down[u], Len(down[u]))
  <2>1. Range(doc[u]) \subseteq Symbol
    BY <1>4 DEF Gets, Held
  <2>2. QED
    BY <1>3, <1>11, <2>1, AfterFirst
<1>13. Gets(w, charRow, u, Range(doc'[u]), down'[u], charId'[u])
  BY <1>3, <1>5, <1>8, <1>11
<1>14. Link(w, u)'
  BY <1>4, <1>8, <1>12, <1>13 DEF Link
<1>15. Content(w)'
  BY <1>3, <1>8, <1>9, <1>14, OwnContent
<1>16. QED
  BY <1>10, <1>15

\* Whatever a client receives keeps the documents in order and lets them meet.
LEMMA ClientContent ==
  ASSUME IInv, InOrder, NEW w, Content(w), NEW u \in Users, ClientReceive(u)
  PROVE  InOrder' /\ Content(w)'
<1>. DEFINE m == Head(down[u])
<1>1. TypeInv
  BY DEF IInv
<1>2. PICK S : Channels(S)
  BY <1>1 DEF TypeInv
<1>3. down[u] # << >> /\ Drop(u) /\ UNCHANGED <<sdoc, charRow, inFile, up>>
  BY DEF ClientReceive, ClientFile, ClientInsert, ClientDelete, ClientOn, ClientOff, Arrived, server
<1>4. m = down[u][1] /\ 1 \in 1 .. Len(down[u]) /\ 1 - 1 = 0
  BY <1>2, <1>3, TailFacts DEF Channels
<1>5. /\ w \in Where /\ Valid(w, m) /\ Clear(Range(doc[u]), down[u])
      /\ \A s \in Range(doc[u]) : s.pos = w[s.id]
      /\ doc[u] \in Seq(Symbol) /\ Increasing(doc[u]) /\ Range(doc[u]) \subseteq Symbol
  <2>1. Gets(w, charRow, u, Range(doc[u]), down[u], charId[u]) /\ w \in Where
    BY DEF Content, Link
  <2>2. QED
    BY <1>4, <2>1 DEF Gets, Held, InOrder
<1>6. CASE ClientFile(u)
  <2>1. /\ m.type = "file" /\ doc' = [doc EXCEPT ![u] = m.doc]
        /\ charId' = [charId EXCEPT ![u] = m.charId] /\ window' = [window EXCEPT ![u] = "open"]
    BY <1>6 DEF ClientFile, Arrived
  <2>2. m.doc \in Seq(Symbol) /\ Increasing(m.doc)
    BY <1>5, <2>1 DEF Valid
  <2>3. Range(m.doc) = Effect(Range(doc[u]), m)
    <3>1. Range(m.doc) \subseteq Symbol
      BY <2>2, InRange
    <3>2. \A s : s \in Effect(Range(doc[u]), m) <=> s \in Range(m.doc)
      BY <2>1, <3>1 DEF Effect, Adds, Takes
    <3>3. QED
      BY <3>2
  <2>4. QED
    BY <1>3, <2>1, <2>2, <2>3, TakenContent
<1>7. CASE ClientInsert(u) \/ ClientDelete(u) \/ ClientOn(u) \/ ClientOff(u)
  <2>1. /\ m.type # "file" /\ doc' = [doc EXCEPT ![u] = Applied(doc[u], m)]
        /\ UNCHANGED <<charId, window>>
    <3>1. CASE ClientInsert(u)
      BY <3>1 DEF ClientInsert, Arrived, Applied
    <3>2. CASE ClientDelete(u)
      BY <3>2 DEF ClientDelete, Arrived, Applied
    <3>3. CASE ClientOn(u) \/ ClientOff(u)
      <4>1. m.type \in {"on", "off"} /\ doc' = doc /\ UNCHANGED <<charId, window>>
        BY <3>3 DEF ClientOn, ClientOff, Arrived
      <4>2. Applied(doc[u], m) = doc[u]
        BY <4>1 DEF Applied
      <4>3. doc = [doc EXCEPT ![u] = doc[u]]
        BY DEF InOrder
      <4>4. QED
        BY <4>1, <4>2, <4>3
    <3>4. QED
      BY <1>7, <3>1, <3>2, <3>3
  <2>2. m.type = "ins" => \A s \in Range(m.syms), t \in Range(doc[u]) : s.pos # t.pos
    <3>1. After(Range(doc[u]), down[u], 0) = Range(doc[u])
      BY <1>5, AfterNone
    <3>2. QED
      BY <1>4, <1>5, <3>1 DEF Clear
  <2>. DEFINE e == Applied(doc[u], m)
  <2>3. e \in Seq(Symbol) /\ Increasing(e) /\ Range(e) = Effect(Range(doc[u]), m)
    BY <1>5, <2>1, <2>2, AppliedOne
  <2>4. QED
    BY <1>3, <2>1, <2>3, TakenContent
<1>8. QED
  BY <1>6, <1>7 DEF ClientReceive

\* The server receives the message h of u and passes it on as m: what concerns
\* the client of another user, who is told if it hears of everything.
LEMMA OtherLink ==
  ASSUME TypeInv, InOrder, NEW w, Content(w), NEW u \in Users, NEW h, h.type # "file",
         Arrives(w, charRow, charRow', u, Range(sdoc), h), Range(sdoc') = Effect(Range(sdoc), h),
         NEW m, Forwards(h, m), NEW v \in Users \ {u}, UNCHANGED <<window, doc, charId>>,
         up'[v] = up[v], v \in inFile' <=> v \in inFile,
         \/ Hears(v) /\ down'[v] = Append(down[v], m)
         \/ (Hears(v) => Quiet(h)) /\ down'[v] = down[v]
  PROVE  Link(w, v)'
<1>1. PICK S : Channels(S)
  BY DEF TypeInv
<1>2. up[v] \in Seq(S) /\ down[v] \in Seq(S)
  BY <1>1 DEF Channels
<1>3. /\ Range(sdoc) \subseteq Symbol
      /\ Gets(w, charRow, v, Range(doc[v]), down[v], charId[v])
      /\ Hears(v) => After(Range(sdoc), up[v], Len(up[v])) = After(Range(doc[v]), down[v], Len(down[v]))
      /\ \E n : /\ Sends(w, charRow, v, Range(sdoc), up[v], n)
                /\ window[v] = "open" => n = charId[v]
  BY DEF Content, Link, Base
<1>4. PICK n : /\ Sends(w, charRow, v, Range(sdoc), up[v], n)
               /\ window[v] = "open" => n = charId[v]
  BY <1>3
<1>5. Sends(w, charRow', v, Effect(Range(sdoc), h), up[v], n)
  BY <1>2, <1>3, <1>4, ServerSends
<1>6. After(Effect(Range(sdoc), h), up[v], Len(up[v])) = Effect(After(Range(sdoc), up[v], Len(up[v])), h)
  BY <1>2, <1>3, <1>4, ServerMeets
<1>7. Hears(v)' <=> Hears(v)
  BY DEF Hears, Alive
<1>8. CASE Hears(v) /\ down'[v] = Append(down[v], m)
  <2>1. After(Range(sdoc), up[v], Len(up[v])) = After(Range(doc[v]), down[v], Len(down[v]))
    BY <1>3, <1>8
  <2>2. Gets(w, charRow', v, Range(doc[v]), Append(down[v], m), charId[v])
    BY <1>2, <1>3, <1>4, <2>1, ServerTells
  <2>3. After(Range(doc[v]), Append(down[v], m), Len(Append(down[v], m)))
          = Effect(After(Range(doc[v]), down[v], Len(down[v])), m)
    BY <1>2, AfterAppend
  <2>4. Alike(h, m)
    BY ForwardsFacts
  <2>5. Effect(After(Range(doc[v]), down[v], Len(down[v])), m)
          = Effect(After(Range(doc[v]), down[v], Len(down[v])), h)
    BY <2>4 DEF Alike
  <2>6. QED
    BY <1>4, <1>5, <1>6, <1>8, <2>1, <2>2, <2>3, <2>5 DEF Link
<1>9. CASE (Hears(v) => Quiet(h)) /\ down'[v] = down[v]
  <2>1. Accounted(w, charRow, charRow', u, h)
    BY ArrivesFacts
  <2>2. /\ charRow \in [Users -> Nat] /\ charRow' \in [Users -> Nat] /\ charRow'[v] = charRow[v]
        /\ \A x \in Users : charRow[x] <= charRow'[x]
    BY <2>1 DEF Arrives, Grown, Accounted
  <2>3. Gets(w, charRow', v, Range(doc[v]), down[v], charId[v])
    BY <1>2, <1>3, <2>2, GetsRow
  <2>4. Hears(v) => Effect(Range(sdoc), h) = Range(sdoc)
    BY <1>3, <1>9, QuietMessage
  <2>5. QED
    BY <1>3, <1>4, <1>5, <1>7, <1>9, <2>3, <2>4 DEF Link
<1>10. QED
  BY <1>8, <1>9

\* What concerns u itself, to whom nothing is sent.
LEMMA ReceivedLink ==
  ASSUME IInv, InOrder, NEW w, Content(w), NEW u \in Users, up[u] # << >>, Consume(u),
         UNCHANGED <<window, doc, charId>>, Grown(charRow, charRow', u, up[u][1]),
         Range(sdoc') = Effect(Range(sdoc), up[u][1]),
         down'[u] = down[u], Hears(u)' => Hears(u)
  PROVE  Link(w, u)'
<1>1. TypeInv /\ Session(u)
  BY DEF IInv
<1>2. PICK S : Channels(S)
  BY <1>1 DEF TypeInv
<1>3. up[u] \in Seq(S) /\ down[u] \in Seq(S) /\ up'[u] = Tail(up[u]) /\ Len(up[u]) # 0
  BY <1>2, TailFacts DEF Channels, Consume
<1>4. /\ Range(sdoc) \subseteq Symbol
      /\ Gets(w, charRow, u, Range(doc[u]), down[u], charId[u])
      /\ Hears(u) => After(Range(sdoc), up[u], Len(up[u])) = After(Range(doc[u]), down[u], Len(down[u]))
      /\ \E n : /\ Sends(w, charRow, u, Range(sdoc), up[u], n)
                /\ window[u] = "open" => n = charId[u]
  BY DEF Content, Link, Base
<1>5. PICK n : /\ Sends(w, charRow, u, Range(sdoc), up[u], n)
               /\ window[u] = "open" => n = charId[u]
  BY <1>4
<1>6. /\ charRow \in [Users -> Nat] /\ charRow' \in [Users -> Nat]
      /\ \A v \in Users \ {u} : charRow'[v] = charRow[v]
      /\ charRow'[u] = charRow[u] + (IF up[u][1].type = "ins" THEN Len(up[u][1].syms) ELSE 0)
  BY DEF Grown
<1>7. Sends(w, charRow', u, Effect(Range(sdoc), up[u][1]), Tail(up[u]), n)
  BY <1>3, <1>4, <1>5, <1>6, SendsTail
<1>8. /\ Valid(w, up[u][1]) /\ SentBy(charRow, u, up[u][1], charRow[u], charRow'[u])
  BY <1>3, <1>5, SendsHead
<1>9. \A x \in Users : charRow[x] <= charRow'[x]
  <2>1. charRow[u] \in Nat /\ charRow'[u] \in Nat
    BY <1>6
  <2>2. charRow[u] <= charRow'[u]
    BY <1>8, <2>1, SentAdds
  <2>3. QED
    BY <1>6, <2>2
<1>10. \A i \in 1 .. Len(down[u]) : down[u][i].type # "file"
  BY <1>1, <1>3 DEF Session, FileOf
<1>11. Gets(w, charRow', u, Range(doc[u]), down[u], charId[u])
  BY <1>3, <1>4, <1>6, <1>9, <1>10, GetsRow
<1>12. After(Effect(Range(sdoc), up[u][1]), Tail(up[u]), Len(Tail(up[u])))
         = After(Range(sdoc), up[u], Len(up[u]))
  BY <1>3, <1>4, AfterFirst
<1>13. QED
  BY <1>3, <1>4, <1>5, <1>7, <1>11, <1>12 DEF Link

\* What concerns u when it is sent the file.
LEMMA AnsweredLink ==
  ASSUME IInv, InOrder, NEW w, Content(w), NEW u \in Users, up[u] # << >>, Consume(u), Alive(u),
         up[u][1].type = "get", UNCHANGED <<window, doc, charId, charRow, sdoc>>,
         NEW p, down'[u] = Append(down[u], FileMsg(sdoc, p, charRow[u]))
  PROVE  Link(w, u)'
<1>. DEFINE m == FileMsg(sdoc, p, charRow[u])
<1>1. TypeInv /\ Session(u)
  BY DEF IInv
<1>2. PICK S : Channels(S)
  BY <1>1 DEF TypeInv
<1>3. /\ up[u] \in Seq(S) /\ down[u] \in Seq(S) /\ up'[u] = Tail(up[u])
      /\ Len(up[u]) \in Nat \ {0} /\ 1 \in 1 .. Len(up[u])
  BY <1>2, TailFacts DEF Channels, Consume
<1>4. Len(up[u]) = 1 /\ window[u] = "opening"
  BY <1>1, <1>3 DEF Session, UpOf
<1>5. Len(up'[u]) = 0 /\ up'[u] \in Seq(S) /\ up'[u] = SubSeq(up[u], 1, 0)
  BY <1>3, <1>4, TailFacts
<1>6. /\ Base(w, charRow, Range(sdoc)) /\ Range(sdoc) \subseteq Symbol
      /\ Gets(w, charRow, u, Range(doc[u]), down[u], charId[u])
      /\ \E n : Sends(w, charRow, u, Range(sdoc), up[u], n)
  BY DEF Content, Link, Base
<1>7. \E n : Sends(w, charRow, u, Range(sdoc), up'[u], n)
  <2>1. PICK n : Sends(w, charRow, u, Range(sdoc), up[u], n)
    BY <1>6
  <2>2. \E j \in Nat : Sends(w, charRow, u, Range(sdoc), SubSeq(up[u], 1, 0), j)
    BY <1>3, <2>1, SendsPrefix
  <2>3. QED
    BY <1>5, <2>2
<1>8. m.type = "file" /\ m.doc = sdoc /\ m.charId = charRow[u]
  BY DEF FileMsg
<1>. HIDE DEF m
<1>9. Adds(m) = Range(sdoc)
  BY <1>8 DEF Adds
<1>10. Valid(w, m) /\ Passed(charRow, u, m)
  BY <1>6, <1>8, <1>9 DEF Valid, Passed, Base, InOrder
<1>11. Gets(w, charRow, u, Range(doc[u]), Append(down[u], m), charId[u])
  BY <1>3, <1>6, <1>8, <1>10, GetsAppend
<1>12. After(Range(doc[u]), Append(down[u], m), Len(Append(down[u], m)))
         = Effect(After(Range(doc[u]), down[u], Len(down[u])), m)
  BY <1>3, AfterAppend
<1>13. \A Y : Effect(Y, m) = Range(sdoc)
  <2>1. \A Y, s : s \in Effect(Y, m) <=> s \in Range(sdoc)
    BY <1>6, <1>8, <1>9 DEF Effect, Takes
  <2>2. QED
    BY <2>1
<1>14. After(Range(sdoc), up'[u], Len(up'[u])) = Range(sdoc)
  BY <1>5, <1>6, AfterNone
<1>15. down'[u] = Append(down[u], m)
  BY DEF m
<1>16. QED
  BY <1>4, <1>7, <1>11, <1>12, <1>13, <1>14, <1>15 DEF Link

\* What the server's handlers have in common.
Handles(u, h) ==
  /\ up[u] # << >> /\ h = up[u][1] /\ Consume(u) /\ UNCHANGED <<window, doc, charId>>
  /\ sdoc' = Applied(sdoc, h) /\ Grown(charRow, charRow', u, h)

\* The message of u becomes part of the server's document, and those who hear of
\* everything are told.
LEMMA HandledContent ==
  ASSUME IInv, InOrder, NEW w, Content(w), NEW u \in Users, NEW h, Handles(u, h), NEW m, Forwards(h, m),
         \A v \in Users \ {u} :
            /\ v \in inFile' <=> v \in inFile
            /\ \/ Hears(v) /\ down'[v] = Append(down[v], m)
               \/ (Hears(v) => Quiet(h)) /\ down'[v] = down[v],
         \/ down'[u] = down[u] /\ (Hears(u)' => Hears(u))
         \/ /\ Alive(u) /\ h.type = "get"
            /\ \E p : down'[u] = Append(down[u], FileMsg(sdoc, p, charRow[u]))
  PROVE  InOrder' /\ Content(w)'
<1>1. TypeInv
  BY DEF IInv
<1>2. PICK S : Channels(S)
  BY <1>1 DEF TypeInv
<1>3. /\ up[u] \in Seq(S) /\ up[u] # << >> /\ h = up[u][1] /\ Consume(u) /\ UNCHANGED <<window, doc, charId>>
      /\ sdoc' = Applied(sdoc, h) /\ Grown(charRow, charRow', u, h)
  BY <1>2 DEF Channels, Handles
<1>4. \A v \in Users \ {u} : up'[v] = up[v]
  BY <1>2, <1>3 DEF Channels, Consume
<1>5. /\ Range(sdoc) \subseteq Symbol /\ Base(w, charRow, Range(sdoc)) /\ w \in Where
      /\ \E n : Sends(w, charRow, u, Range(sdoc), up[u], n)
  BY DEF Content, Link, Base
<1>6. PICK n : Sends(w, charRow, u, Range(sdoc), up[u], n)
  BY <1>5
<1>7. /\ Valid(w, h) /\ SentBy(charRow, u, h, charRow[u], charRow'[u])
      /\ h.type = "ins" => \A s \in Range(h.syms), t \in Range(sdoc) : s.pos # t.pos
  <2>1. After(Range(sdoc), up[u], 0) = Range(sdoc)
    BY <1>5, AfterNone
  <2>2. /\ Valid(w, up[u][1]) /\ SentBy(charRow, u, up[u][1], charRow[u], charRow'[u])
        /\ up[u][1].type = "ins" =>
             \A s \in Range(up[u][1].syms), t \in After(Range(sdoc), up[u], 0) : s.pos # t.pos
    <3>1. Grown(charRow, charRow', u, up[u][1])
      BY <1>3
    <3>2. QED
      BY <1>3, <1>6, <3>1, SendsHead
  <2>3. QED
    BY <1>3, <2>1, <2>2
<1>8. h.type # "file" /\ Arrives(w, charRow, charRow', u, Range(sdoc), h)
  BY <1>3, <1>7 DEF Arrives, SentBy
<1>9. sdoc' \in Seq(Symbol) /\ Increasing(sdoc') /\ Range(sdoc') = Effect(Range(sdoc), h)
  <2>1. sdoc \in Seq(Symbol) /\ Increasing(sdoc) /\ \A s \in Range(sdoc) : s.pos = w[s.id]
    BY <1>5 DEF InOrder, Base
  <2>2. QED
    BY <1>3, <1>5, <1>7, <1>8, <2>1, AppliedOne
<1>10. InOrder'
  BY <1>3, <1>9 DEF InOrder, Grown
<1>11. Base(w, charRow', Range(sdoc'))
  BY <1>5, <1>8, <1>9, ServerBase
<1>12. ASSUME NEW v \in Users \ {u} PROVE Link(w, v)'
  BY <1>1, <1>3, <1>4, <1>8, <1>9, OtherLink
<1>13. Link(w, u)'
  <2>1. CASE down'[u] = down[u] /\ (Hears(u)' => Hears(u))
    BY <1>3, <1>9, <2>1, ReceivedLink
  <2>2. CASE /\ Alive(u) /\ h.type = "get"
             /\ \E p : down'[u] = Append(down[u], FileMsg(sdoc, p, charRow[u]))
    <3>1. sdoc' = sdoc /\ charRow' = charRow
      <4>1. charRow'[u] = charRow[u] /\ charRow \in [Users -> Nat] /\ charRow' \in [Users -> Nat]
            /\ \A v \in Users \ {u} : charRow'[v] = charRow[v]
        BY <1>3, <2>2 DEF Grown
      <4>2. sdoc' = sdoc
        BY <1>3, <2>2 DEF Applied
      <4>3. \A v \in Users : charRow'[v] = charRow[v]
        BY <4>1
      <4>4. QED
        BY <4>1, <4>2, <4>3
    <3>2. QED
      BY <1>3, <2>2, <3>1, AnsweredLink
  <2>3. QED
    BY <2>1, <2>2
<1>14. QED
  BY <1>5, <1>10, <1>11, <1>12, <1>13 DEF Content

\* A message without symbols leaves the server's document and rows alone.
LEMMA QuietHandled ==
  ASSUME TypeInv, InOrder, NEW u \in Users, up[u] # << >>, Quiet(Head(up[u])), Consume(u),
         UNCHANGED <<window, doc, charId, sdoc, charRow>>
  PROVE  Handles(u, up[u][1]) /\ Head(up[u]) = up[u][1]
<1>1. PICK S : Channels(S)
  BY DEF TypeInv
<1>2. Head(up[u]) = up[u][1]
  BY <1>1, TailFacts DEF Channels
<1>3. Applied(sdoc, up[u][1]) = sdoc
  BY <1>2 DEF Applied, Quiet
<1>4. Grown(charRow, charRow', u, up[u][1])
  <2>1. charRow[u] \in Nat /\ up[u][1].type # "ins"
    BY <1>2 DEF InOrder, Quiet
  <2>2. charRow[u] = charRow[u] + 0
    BY <2>1
  <2>3. QED
    BY <2>1, <2>2 DEF Grown, InOrder
<1>5. QED
  BY <1>2, <1>3, <1>4 DEF Handles

\* The same for whatever the server receives.
LEMMA ServerContent ==
  ASSUME IInv, InOrder, NEW w, Content(w), NEW u \in Users, ServerReceive(u)
  PROVE  InOrder' /\ Content(w)'
<1>. DEFINE h == up[u][1]
<1>1. TypeInv /\ Session(u)
  BY DEF IInv
<1>2. PICK S : Channels(S)
  BY <1>1 DEF TypeInv
<1>3. up[u] # << >> /\ Consume(u) /\ UNCHANGED <<window, doc, charId>> /\ h = Head(up[u])
  <2>1. up[u] # << >> /\ Consume(u) /\ UNCHANGED <<window, doc, charId>>
    BY DEF ServerReceive, ServerGet, ServerInsert, ServerDelete, ServerClose, ServerGone, Received, client
  <2>2. QED
    BY <1>2, <2>1, TailFacts DEF Channels
<1>4. \A A, m : \A v \in Users :
        Broadcast(A, m)[v] = IF v \in A /\ Alive(v) THEN Append(down[v], m) ELSE down[v]
  BY DEF Broadcast
<1>5. CASE ServerGet(u)
  <2>1. /\ h.type = "get" /\ u \notin inFile /\ inFile' = inFile \cup {u}
        /\ UNCHANGED <<sdoc, charRow>>
        /\ down' = IF ~ Alive(u) THEN Broadcast(inFile, On(u))
                   ELSE [Broadcast(inFile, On(u)) EXCEPT ![u] = Append(@, FileMsg(sdoc, users', charRow[u]))]
    BY <1>3, <1>5 DEF ServerGet, Received
  <2>2. Quiet(Head(up[u])) /\ Forwards(h, On(u))
    BY <1>3, <2>1 DEF Quiet, Forwards, On
  <2>3. Handles(u, h)
    BY <1>1, <1>3, <2>1, <2>2, QuietHandled
  <2>4. ASSUME NEW v \in Users \ {u}
        PROVE  /\ v \in inFile' <=> v \in inFile
               /\ \/ Hears(v) /\ down'[v] = Append(down[v], On(u))
                  \/ (Hears(v) => Quiet(h)) /\ down'[v] = down[v]
    <3>1. down'[v] = Broadcast(inFile, On(u))[v]
      BY <2>1
    <3>2. down'[v] = IF v \in inFile /\ Alive(v) THEN Append(down[v], On(u)) ELSE down[v]
      BY <1>4, <3>1
    <3>3. QED
      BY <2>1, <3>2 DEF Hears
  <2>5. \/ down'[u] = down[u] /\ (Hears(u)' => Hears(u))
        \/ /\ Alive(u) /\ h.type = "get"
           /\ \E p : down'[u] = Append(down[u], FileMsg(sdoc, p, charRow[u]))
    <3>1. Broadcast(inFile, On(u))[u] = down[u]
      BY <1>4, <2>1
    <3>2. CASE ~ Alive(u)
      BY <1>3, <2>1, <3>1, <3>2 DEF Hears, Alive
    <3>3. CASE Alive(u)
      <4>1. Broadcast(inFile, On(u)) = [v \in Users |-> Broadcast(inFile, On(u))[v]]
        BY DEF Broadcast
      <4>2. down'[u] = Append(down[u], FileMsg(sdoc, users', charRow[u]))
        BY <2>1, <3>1, <3>3, <4>1
      <4>3. QED
        BY <2>1, <3>3, <4>2
    <3>4. QED
      BY <3>2, <3>3
  <2>. HIDE DEF h
  <2>6. QED
    BY <2>2, <2>3, <2>4, <2>5, HandledContent
<1>6. CASE ServerInsert(u) \/ ServerDelete(u)
  <2>1. \E m : /\ Forwards(h, m) /\ down' = Broadcast(inFile \ {u}, m)
               /\ sdoc' = Applied(sdoc, h) /\ inFile' = inFile
               /\ charRow' = IF h.type = "ins" THEN [charRow EXCEPT ![u] = @ + Len(h.syms)] ELSE charRow
               /\ h.type \in {"ins", "del"}
    <3>1. CASE ServerInsert(u)
      <4>1. /\ h.type = "ins" /\ sdoc' = RemoteInsertAll(sdoc, h.syms) /\ inFile' = inFile
            /\ charRow' = [charRow EXCEPT ![u] = @ + Len(h.syms)]
            /\ down' = Broadcast(inFile \ {u}, InsFrom(u, h.syms))
        BY <1>3, <3>1 DEF ServerInsert, Received
      <4>2. Forwards(h, InsFrom(u, h.syms)) /\ Applied(sdoc, h) = RemoteInsertAll(sdoc, h.syms)
        BY <4>1 DEF Forwards, InsFrom, Applied
      <4>3. QED
        BY <4>1, <4>2
    <3>2. CASE ServerDelete(u)
      <4>1. /\ h.type = "del" /\ sdoc' = RemoteDeleteAll(sdoc, h.ids).doc /\ inFile' = inFile
            /\ charRow' = charRow
            /\ down' = Broadcast(inFile \ {u}, DelFrom(u, h.ids))
        BY <1>3, <3>2 DEF ServerDelete, Received
      <4>2. Forwards(h, DelFrom(u, h.ids)) /\ Applied(sdoc, h) = RemoteDeleteAll(sdoc, h.ids).doc
        BY <4>1 DEF Forwards, DelFrom, Applied
      <4>3. QED
        BY <4>1, <4>2
    <3>3. QED
      BY <1>6, <3>1, <3>2
  <2>2. PICK m : /\ Forwards(h, m) /\ down' = Broadcast(inFile \ {u}, m)
                 /\ sdoc' = Applied(sdoc, h) /\ inFile' = inFile
                 /\ charRow' = IF h.type = "ins" THEN [charRow EXCEPT ![u] = @ + Len(h.syms)] ELSE charRow
                 /\ h.type \in {"ins", "del"}
    BY <2>1
  <2>3. Grown(charRow, charRow', u, h)
    <3>1. charRow \in [Users -> Nat]
      BY DEF InOrder
    <3>2. CASE h.type = "ins"
      <4>1. PICK n : Sends(w, charRow, u, Range(sdoc), up[u], n)
        BY DEF Content, Link
      <4>2. 1 \in 1 .. Len(up[u])
        BY <1>2, <1>3, TailFacts DEF Channels
      <4>3. h.syms \in Seq(Symbol)
        BY <3>2, <4>1, <4>2 DEF Sends, Valid
      <4>4. Len(h.syms) \in Nat
        BY <4>3
      <4>. HIDE DEF h
      <4>5. QED
        BY <2>2, <3>1, <3>2, <4>4 DEF Grown
    <3>3. CASE h.type # "ins"
      <4>1. charRow[u] + 0 = charRow[u]
        BY <3>1
      <4>. HIDE DEF h
      <4>2. QED
        BY <2>2, <3>1, <3>3, <4>1 DEF Grown
    <3>4. QED
      BY <3>2, <3>3
  <2>4. Handles(u, h)
    BY <1>3, <2>2, <2>3 DEF Handles
  <2>5. ASSUME NEW v \in Users \ {u}
        PROVE  /\ v \in inFile' <=> v \in inFile
               /\ \/ Hears(v) /\ down'[v] = Append(down[v], m)
                  \/ (Hears(v) => Quiet(h)) /\ down'[v] = down[v]
    <3>1. down'[v] = IF v \in inFile \ {u} /\ Alive(v) THEN Append(down[v], m) ELSE down[v]
      BY <1>4, <2>2
    <3>2. QED
      BY <2>2, <3>1 DEF Hears
  <2>6. down'[u] = down[u] /\ (Hears(u)' => Hears(u))
    BY <1>3, <1>4, <2>2 DEF Hears, Alive
  <2>. HIDE DEF h
  <2>7. QED
    BY <2>2, <2>4, <2>5, <2>6, HandledContent
<1>7. CASE ServerClose(u) \/ ServerGone(u)
  <2>1. /\ h.type \in {"close", "gone"} /\ UNCHANGED <<sdoc, charRow>>
        /\ Leave(u) \/ UNCHANGED <<inFile, down>>
    BY <1>3, <1>7 DEF ServerClose, ServerGone, Received
  <2>2. Quiet(Head(up[u])) /\ Quiet(h) /\ Forwards(h, Off(u))
    BY <1>3, <2>1 DEF Quiet, Forwards, Off
  <2>3. Handles(u, h)
    BY <1>1, <1>3, <2>1, <2>2, QuietHandled
  <2>4. ASSUME NEW v \in Users \ {u}
        PROVE  /\ v \in inFile' <=> v \in inFile
               /\ \/ Hears(v) /\ down'[v] = Append(down[v], Off(u))
                  \/ (Hears(v) => Quiet(h)) /\ down'[v] = down[v]
    <3>1. CASE Leave(u)
      <4>1. inFile' = inFile \ {u} /\ down' = Broadcast(inFile \ {u}, Off(u))
        BY <3>1 DEF Leave
      <4>2. down'[v] = IF v \in inFile \ {u} /\ Alive(v) THEN Append(down[v], Off(u)) ELSE down[v]
        BY <1>4, <4>1
      <4>3. QED
        BY <4>1, <4>2 DEF Hears
    <3>2. CASE UNCHANGED <<inFile, down>>
      BY <2>2, <3>2
    <3>3. QED
      BY <2>1, <3>1, <3>2
  <2>5. down'[u] = down[u] /\ (Hears(u)' => Hears(u))
    BY <1>3, <1>4, <2>1 DEF Hears, Leave, Alive
  <2>. HIDE DEF h
  <2>6. QED
    BY <2>2, <2>3, <2>4, <2>5, HandledContent
<1>8. QED
  BY <1>5, <1>6, <1>7 DEF ServerReceive

\* An open editor hears of everything, and no file is on the way to it.
LEMMA OpenEditor ==
  ASSUME IInv, NEW u \in Users, window[u] = "open"
  PROVE  Hears(u) /\ \A i \in 1 .. Len(down[u]) : down[u][i].type # "file"
  BY DEF IInv, Session, WindowOf, FileOf, Hears, Alive

\* The client of u may show e, with q on the way from it and the counter at n.
Ready(w, u, q, e, n) ==
  /\ e \in Seq(Symbol) /\ Increasing(e)
  /\ \E T : q \in Seq(T)
  /\ Sends(w, charRow, u, Range(sdoc), q, n)
  /\ Gets(w, charRow, u, Range(e), down[u], n)
  /\ After(Range(sdoc), q, Len(q)) = After(Range(e), down[u], Len(down[u]))

\* It may as long as it shows what it has.
LEMMA ReadyNow ==
  ASSUME IInv, InOrder, NEW w, Content(w), NEW u \in Users, window[u] = "open"
  PROVE  Ready(w, u, up[u], doc[u], charId[u])
<1>1. Hears(u) /\ Link(w, u)
  BY OpenEditor DEF Content
<1>2. \E T : up[u] \in Seq(T)
  BY DEF IInv, TypeInv, Channels
<1>3. QED
  BY <1>1, <1>2 DEF Link, Ready, InOrder

\* It may once the deletion of an edit has been emitted.
LEMMA ReadyCut ==
  ASSUME IInv, InOrder, NEW w, Content(w), NEW u \in Users, window[u] = "open",
         NEW k \in 1 .. (Len(doc[u]) + 1), NEW removed \in Nat, k + removed <= Len(doc[u]) + 1
  PROVE  /\ Ready(w, u, up[u] \o DelMsg(u, k, removed), Kept(u, k, removed), charId[u])
         /\ k \in 1 .. (Len(Kept(u, k, removed)) + 1)
<1>. DEFINE d == doc[u]
            e == SubSeq(d, 1, k - 1) \o SubSeq(d, k + removed, Len(d))
            ids == Ids(SubSeq(d, k, k + removed - 1))
            n == charId[u]
<1>1. Ready(w, u, up[u], d, n)
  BY ReadyNow
<1>2. PICK S : up[u] \in Seq(S) /\ down[u] \in Seq(S)
  BY DEF IInv, TypeInv, Channels
<1>3. /\ d \in Seq(Symbol) /\ Increasing(d) /\ w \in Where /\ w \in [Nat \X Nat -> Seq(Ident)]
      /\ \A s \in Range(d) : s.pos = w[s.id]
  BY <1>1 DEF Ready, Content, Gets, Held, Where
<1>4. Erases(w, d, k, removed, e, ids)
  <2>. HIDE DEF d
  <2>1. k \in 1 .. (Len(d) + 1) /\ k + removed <= Len(d) + 1
    BY DEF d
  <2>2. QED
    BY <1>3, <2>1, CutOut
<1>5. e = Kept(u, k, removed)
  BY DEF Kept
<1>6. DelMsg(u, k, removed) = IF removed = 0 THEN << >> ELSE << Del(ids) >>
  BY DEF DelMsg
<1>7. charRow \in [Users -> Nat] /\ n \in Nat
  BY DEF InOrder
<1>8. \A i \in 1 .. Len(down[u]) : down[u][i].type # "file"
  BY OpenEditor
<1>. HIDE DEF d, e, ids, n
<1>0. /\ e \in Seq(Symbol) /\ Increasing(e) /\ k \in 1 .. (Len(e) + 1)
      /\ Range(e) = {s \in Range(d) : s.id \notin Range(ids)}
      /\ Names(w, Range(d), ids)
      /\ removed = 0 => Range(ids) = {}
  BY <1>4 DEF Erases, Names
<1>9. CASE removed = 0
  <2>1. Range(e) = Range(d)
    BY <1>0, <1>9
  <2>2. up[u] \o DelMsg(u, k, removed) = up[u]
    BY <1>2, <1>6, <1>9
  <2>3. QED
    BY <1>0, <1>1, <1>5, <2>1, <2>2 DEF Ready, n
<1>10. CASE removed # 0
  <2>1. up[u] \o DelMsg(u, k, removed) = Append(up[u], Del(ids))
    BY <1>2, <1>6, <1>10, AppendOne
  <2>2. Append(up[u], Del(ids)) \in Seq(S \cup {Del(ids)})
    BY <1>2, AppendFacts
  <2>3. Range(e) = Without(Range(d), Range(ids))
    BY <1>0 DEF Without
  <2>4. Meets(w, charRow, u, Range(sdoc), up[u], Range(d), down[u], n) /\ NoFile(down[u])
    BY <1>1, <1>8 DEF Ready, Meets, NoFile
  <2>5. Meets(w, charRow, u, Range(sdoc), Append(up[u], Del(ids)), Without(Range(d), Range(ids)), down[u], n)
    BY <1>0, <1>2, <1>3, <1>7, <2>4, EditDeletes
  <2>6. QED
    BY <1>0, <1>5, <2>1, <2>2, <2>3, <2>5 DEF Ready, Meets, n
<1>11. QED
  BY <1>9, <1>10

\* It may once the symbols typed have been emitted too, and the positions of the
\* new identifiers are known.
Typing(w, u, q, n, added, t) ==
  \E w2 : /\ Ready(w2, u, q \o (IF added = 0 THEN << >> ELSE <<Ins(t.syms)>>), t.doc, n + added)
          /\ w2 \in Where
          /\ \A x \in Nat \X Nat : (x[1] = u => x[2] < n) => w2[x] = w[x]

\* The symbols typed may be shown and sent.
LEMMA ReadyTyped ==
  ASSUME IInv, InOrder, NEW w \in Where, NEW u \in Users, window[u] = "open",
         NEW q, NEW e, NEW n \in Nat, Ready(w, u, q, e, n),
         NEW k \in 1 .. (Len(e) + 1), NEW added \in Nat, ~ Typed(u, e, k, n, added).thrown
  PROVE  Typing(w, u, q, n, added, Typed(u, e, k, n, added))
<1>. DEFINE t == Typed(u, e, k, n, added)
            A == Range(t.syms)
            w2 == Placing(w, A)
<1>1. /\ e \in Seq(Symbol) /\ Increasing(e) /\ \E T : q \in Seq(T)
      /\ Sends(w, charRow, u, Range(sdoc), q, n)
      /\ Gets(w, charRow, u, Range(e), down[u], n)
      /\ After(Range(sdoc), q, Len(q)) = After(Range(e), down[u], Len(down[u]))
  BY DEF Ready
<1>2. u \in Nat /\ charRow \in [Users -> Nat]
  BY UsersAssumption DEF InOrder
<1>0. Enters(e, u, n, added, t)
  BY <1>1, <1>2, TypedAll
<1>. HIDE DEF t
<1>3. /\ t.doc \in Seq(Symbol) /\ Increasing(t.doc)
      /\ t.syms \in Seq(Symbol) /\ Len(t.syms) = added
      /\ Range(t.doc) = Range(e) \cup Range(t.syms)
      /\ \A s \in Range(e), x \in Range(t.syms) : s.pos # x.pos
  BY <1>0 DEF Enters
<1>4. TypedBy(u, n, t.syms)
  BY <1>0 DEF Enters, TypedBy, Owner
<1>5. PICK T : q \in Seq(T)
  BY <1>1
<1>6. PICK S : down[u] \in Seq(S)
  BY DEF IInv, TypeInv, Channels
<1>7. \A i \in 1 .. Len(down[u]) : down[u][i].type # "file"
  BY OpenEditor
<1>8. CASE added = 0
  <2>1. Range(t.syms) = {}
    <3>1. \A x : x \notin Range(t.syms)
      BY <1>3, <1>8, InRange
    <3>2. QED
      BY <3>1
  <2>2. Range(t.doc) = Range(e) /\ q \o << >> = q /\ n + added = n
    BY <1>3, <1>5, <1>8, <2>1
  <2>3. Ready(w, u, q \o << >>, t.doc, n + added)
    BY <1>1, <1>3, <2>2 DEF Ready
  <2>4. QED
    BY <1>8, <2>3 DEF Typing, t
<1>9. CASE added # 0
  <2>1. q \o <<Ins(t.syms)>> = Append(q, Ins(t.syms))
    BY <1>5, AppendOne
  <2>2. Append(q, Ins(t.syms)) \in Seq(T \cup {Ins(t.syms)})
    BY <1>5, AppendFacts
  <2>3. Entered(w, w2, u, n, A, n + Len(t.syms))
    BY <1>4, TypedFacts
  <2>. HIDE DEF w2
  <2>4. w2 = Placing(w, Range(t.syms)) /\ n + added = n + Len(t.syms)
    BY <1>3 DEF w2
  <2>5. Meets(w2, charRow, u, Range(sdoc), Append(q, Ins(t.syms)), Range(e) \cup Range(t.syms), down[u], n + added)
    <3>1. Meets(w, charRow, u, Range(sdoc), q, Range(e), down[u], n) /\ NoFile(down[u])
      BY <1>1, <1>7 DEF Meets, NoFile
    <3>2. QED
      BY <1>2, <1>3, <1>4, <1>5, <1>6, <2>4, <3>1, EditInserts
  <2>6. Ready(w2, u, q \o <<Ins(t.syms)>>, t.doc, n + added)
    BY <1>3, <2>1, <2>2, <2>5 DEF Ready, Meets
  <2>7. w2 \in Where /\ \A x \in Nat \X Nat : (x[1] = u => x[2] < n) => w2[x] = w[x]
    BY <2>3 DEF Entered
  <2>8. QED
    BY <1>9, <2>6, <2>7 DEF Typing, t
<1>10. QED
  BY <1>8, <1>9

\* A step of the client of u alone, which gives identifiers from its counter n on
\* their positions: they play no part elsewhere.
LEMMA MovedContent ==
  ASSUME InOrder, TypeInv, NEW w, Content(w), NEW u \in Users,
         UNCHANGED <<sdoc, charRow, inFile, window, down>>,
         \A v \in Users \ {u} : doc'[v] = doc[v] /\ charId'[v] = charId[v] /\ up'[v] = up[v],
         NEW n \in Nat, charRow[u] <= n, NEW w2 \in Where,
         \A x \in Nat \X Nat : (x[1] = u => x[2] < n) => w2[x] = w[x],
         Link(w2, u)'
  PROVE  Content(w2)'
<1>0. charRow \in [Users -> Nat]
  BY DEF InOrder
<1>1. \A x \in Nat \X Nat : Old(charRow, x) => w2[x] = w[x]
  <2>1. SUFFICES ASSUME NEW x \in Nat \X Nat, Old(charRow, x) PROVE x[1] = u => x[2] < n
    OBVIOUS
  <2>2. charRow[u] \in Nat /\ x[2] \in Nat
    BY DEF InOrder
  <2>3. QED
    BY <2>1, <2>2 DEF Old
<1>2. Base(w2, charRow, Range(sdoc))
  <2>1. Base(w, charRow, Range(sdoc))
    BY DEF Content
  <2>2. \A s \in Range(sdoc) : s.id \in Nat \X Nat
    BY <2>1, SymbolOrder DEF Base
  <2>3. QED
    BY <1>1, <2>1, <2>2 DEF Base
<1>3. ASSUME NEW v \in Users \ {u} PROVE Link(w2, v)'
  <2>1. PICK S : up[v] \in Seq(S) /\ down[v] \in Seq(S)
    BY DEF TypeInv, Channels
  <2>2. Link(w, v)
    BY DEF Content
  <2>3. PICK m : /\ Sends(w, charRow, v, Range(sdoc), up[v], m)
                 /\ window[v] = "open" => m = charId[v]
    BY <2>2 DEF Link
  <2>4. \A c : \A x \in Nat \X Nat : Older(charRow, v, c, x) => w2[x] = w[x]
    <3>1. SUFFICES ASSUME NEW c, NEW x \in Nat \X Nat, Older(charRow, v, c, x) PROVE x[1] = u => x[2] < n
      OBVIOUS
    <3>2. charRow[u] \in Nat /\ x[2] \in Nat
      BY DEF InOrder
    <3>3. QED
      BY <3>1, <3>2 DEF Older
  <2>5. Sends(w2, charRow, v, Range(sdoc), up[v], m)
    BY <2>1, <2>3, <2>4, <1>0, SendsMoved
  <2>6. Gets(w2, charRow, v, Range(doc[v]), down[v], charId[v])
    <3>1. Gets(w, charRow, v, Range(doc[v]), down[v], charId[v])
      BY <2>2 DEF Link
    <3>2. \A x \in Nat \X Nat : Older(charRow, v, charId[v], x) \/ Old(charRow, x) => w2[x] = w[x]
      BY <1>1, <2>4
    <3>3. QED
      BY <2>1, <3>1, <3>2, GetsMoved
  <2>7. Hears(v)' <=> Hears(v)
    BY DEF Hears, Alive
  <2>8. QED
    BY <2>2, <2>3, <2>5, <2>6, <2>7 DEF Link
<1>4. QED
  BY <1>2, <1>3 DEF Content

\* An edit without line breaks.
LEMMA EditContent ==
  ASSUME IInv, InOrder, NEW w, Content(w), NEW u \in Users, NEW k \in 1 .. (Len(doc[u]) + 1),
         NEW removed \in Nat, NEW added \in Nat, Edit(u, k, removed, added, 0)
  PROVE  InOrder' /\ \E w2 : Content(w2)'
<1>. DEFINE e == Kept(u, k, removed)
            n == charId[u]
            t == Typed(u, e, k, n, added)
            x == DelMsg(u, k, removed)
            y == IF added = 0 THEN << >> ELSE <<Ins(t.syms)>>
<1>1. TypeInv
  BY DEF IInv
<1>2. PICK S : Channels(S)
  BY <1>1 DEF TypeInv
<1>3. n \in Nat /\ n + 0 = n /\ (n + 0) + added = n + added /\ w \in Where
      /\ charRow \in [Users -> Nat]
  BY DEF InOrder, Content
<1>4. /\ window[u] = "open" /\ k + removed <= Len(doc[u]) + 1
      /\ ~ Typed(u, Kept(u, k, removed), k, charId[u] + 0, added).thrown
      /\ doc' = [doc EXCEPT ![u] = Typed(u, Kept(u, k, removed), k, charId[u] + 0, added).doc]
      /\ charId' = [charId EXCEPT ![u] = charId[u] + 0 + added]
      /\ SendUp(u, x \o (IF added = 0 THEN << >>
                         ELSE <<Ins(Typed(u, Kept(u, k, removed), k, charId[u] + 0, added).syms)>>))
      /\ UNCHANGED <<sdoc, charRow, inFile, window, down>>
  BY DEF Edit, EditFits, server
<1>5. ~ t.thrown /\ doc' = [doc EXCEPT ![u] = t.doc] /\ SendUp(u, x \o y)
      /\ charId' = [charId EXCEPT ![u] = n + added]
  BY <1>3, <1>4
<1>6. Ready(w, u, up[u] \o x, e, n) /\ k \in 1 .. (Len(e) + 1)
  BY <1>4, ReadyCut
<1>7. PICK w2 : /\ Ready(w2, u, (up[u] \o x) \o y, t.doc, n + added) /\ w2 \in Where
                /\ \A z \in Nat \X Nat : (z[1] = u => z[2] < n) => w2[z] = w[z]
  <2>. HIDE DEF e, n, x
  <2>1. Typing(w, u, up[u] \o x, n, added, t)
    BY <1>3, <1>4, <1>5, <1>6, ReadyTyped
  <2>2. QED
    BY <2>1 DEF Typing
<1>8. (up[u] \o x) \o y = up[u] \o (x \o y) /\ up' = [up EXCEPT ![u] = up[u] \o (x \o y)]
  <2>1. up[u] \in Seq(S)
    BY <1>2 DEF Channels
  <2>2. PICK a : x = << >> \/ x = <<a>>
    BY DEF DelMsg
  <2>3. PICK b : y = << >> \/ y = <<b>>
    OBVIOUS
  <2>. HIDE DEF x, y
  <2>. DEFINE T == S \cup {a, b}
  <2>4. /\ << >> \in Seq(T) /\ <<a>> \in Seq(T) /\ <<b>> \in Seq(T)
    OBVIOUS
  <2>5. up[u] \in Seq(T) /\ x \in Seq(T) /\ y \in Seq(T)
    BY <2>1, <2>2, <2>3, <2>4, Larger
  <2>. HIDE DEF T
  <2>6. (up[u] \o x) \o y = up[u] \o (x \o y)
    <3>1. \A p, q, r \in Seq(T) : (p \o q) \o r = p \o (q \o r)
      BY ConcatAssociative
    <3>. DEFINE p == up[u]
    <3>2. p \in Seq(T)
      BY <2>5
    <3>. HIDE DEF p
    <3>3. (p \o x) \o y = p \o (x \o y)
      BY <2>5, <3>1, <3>2
    <3>4. QED
      BY <3>3 DEF p
  <2>7. up' = [up EXCEPT ![u] = up[u] \o (x \o y)]
    BY <1>5 DEF SendUp
  <2>8. QED
    BY <2>6, <2>7
<1>. HIDE DEF e, t, x, y
<1>9. /\ t.doc \in Seq(Symbol) /\ Increasing(t.doc)
      /\ Sends(w2, charRow, u, Range(sdoc), up'[u], n + added)
      /\ Gets(w2, charRow, u, Range(t.doc), down[u], n + added)
      /\ After(Range(sdoc), up'[u], Len(up'[u])) = After(Range(t.doc), down[u], Len(down[u]))
  <2>1. up'[u] = (up[u] \o x) \o y
    BY <1>2, <1>8 DEF Channels
  <2>2. QED
    BY <1>7, <2>1 DEF Ready
<1>. HIDE DEF n
<1>10. /\ doc' \in [Users -> Seq(Symbol)] /\ doc'[u] = t.doc
       /\ charId' \in [Users -> Nat] /\ charId'[u] = n + added
       /\ \A v \in Users \ {u} : doc'[v] = doc[v] /\ charId'[v] = charId[v] /\ up'[v] = up[v]
  BY <1>2, <1>3, <1>5, <1>8, <1>9 DEF InOrder, Channels
<1>11. InOrder'
  <2>1. \A v \in Users : Increasing(doc'[v])
    BY <1>9, <1>10 DEF InOrder
  <2>2. QED
    BY <1>4, <1>10, <2>1 DEF InOrder
<1>12. Link(w2, u)'
  BY <1>4, <1>9, <1>10 DEF Link
<1>13. charRow[u] <= n
  <2>1. Sends(w, charRow, u, Range(sdoc), up[u], n)
    BY <1>4, ReadyNow DEF Ready, n
  <2>2. up[u] \in Seq(S)
    BY <1>2 DEF Channels
  <2>3. QED
    BY <1>3, <2>1, <2>2, SendsBounds
<1>14. Content(w2)'
  BY <1>1, <1>3, <1>4, <1>7, <1>10, <1>12, <1>13, MovedContent
<1>15. QED
  BY <1>11, <1>14

\* An edit that throws after the deletion has been emitted.
LEMMA ThrowsContent ==
  ASSUME IInv, InOrder, NEW w, Content(w), NEW u \in Users, NEW k \in 1 .. (Len(doc[u]) + 1),
         NEW removed \in Nat, NEW added, NEW breaks, EditThrows(u, k, removed, added, breaks)
  PROVE  InOrder' /\ \E w2 : Content(w2)'
<1>1. TypeInv
  BY DEF IInv
<1>2. /\ window[u] = "open" /\ k + removed <= Len(doc[u]) + 1 /\ Die(u)
      /\ CutOff(u, up[u] \o DelMsg(u, k, removed)) /\ UNCHANGED <<sdoc, charRow, inFile>>
  BY DEF EditThrows, EditFits, server
<1>3. Ready(w, u, up[u] \o DelMsg(u, k, removed), Kept(u, k, removed), charId[u])
  BY <1>2, ReadyCut
<1>4. PICK T : up[u] \o DelMsg(u, k, removed) \in Seq(T)
  BY <1>3 DEF Ready
<1>5. Sends(w, charRow, u, Range(sdoc), up[u] \o DelMsg(u, k, removed), charId[u])
  BY <1>3 DEF Ready
<1>6. QED
  BY <1>1, <1>2, <1>4, <1>5, DieContent

\* A client killed.
LEMMA CrashContent ==
  ASSUME IInv, InOrder, NEW w, Content(w), NEW u \in Users, Crash(u)
  PROVE  InOrder' /\ Content(w)'
<1>1. TypeInv
  BY DEF IInv
<1>2. PICK S : up[u] \in Seq(S)
  BY <1>1 DEF TypeInv, Channels
<1>3. PICK n : Sends(w, charRow, u, Range(sdoc), up[u], n)
  BY DEF Content, Link
<1>4. Die(u) /\ CutOff(u, up[u]) /\ UNCHANGED <<sdoc, charRow, inFile>>
  BY DEF Crash, server
<1>5. QED
  BY <1>1, <1>2, <1>3, <1>4, DieContent

\* The document earlier sessions left gives the identifiers their positions.
LEMMA ContentInitially ==
  ASSUME Init
  PROVE  CInv
<1>. DEFINE A == Range(InitialDoc)
            w0 == [x \in Nat \X Nat |-> << >>]
            w == Placing(w0, A)
<1>1. InitialDoc \in Seq(Symbol) /\ A \subseteq Symbol
  <2>1. InitialDoc \in Seq(Symbol)
    BY InitialAssumption DEF Symbol
  <2>2. QED
    BY <2>1, InRange
<1>2. Increasing(InitialDoc)
  BY <1>1, InitialAssumption, SortedIncreasing
<1>3. \A s, t \in A : s.id = t.id => s = t
  <2>1. SUFFICES ASSUME NEW s \in A, NEW t \in A, s.id = t.id PROVE s = t
    OBVIOUS
  <2>2. PICK i \in 1 .. Len(InitialDoc), j \in 1 .. Len(InitialDoc) :
          InitialDoc[i] = s /\ InitialDoc[j] = t
    BY <1>1, InRange
  <2>3. i \in DOMAIN InitialDoc /\ j \in DOMAIN InitialDoc
    BY <1>1, <2>2
  <2>4. i = j
    BY <2>1, <2>2, <2>3, InitialAssumption DEF DistinctIds
  <2>5. QED
    BY <2>2, <2>4
<1>4. w0 \in Where
  BY DEF Where
<1>. HIDE DEF w0
<1>5. w \in Where /\ \A s \in A : w[s.id] = s.pos
  BY <1>1, <1>3, <1>4, PlacingFacts
<1>. HIDE DEF w
<1>6. sdoc = InitialDoc /\ charRow = [u \in Users |-> FirstCharId] /\ FirstCharId \in Nat
  BY InitialAssumption DEF Init
<1>7. \A s \in A : s.id[2] < FirstCharId
  BY <1>1, InitialAssumption, InRange
<1>8. Base(w, charRow, Range(sdoc))
  BY <1>1, <1>5, <1>6, <1>7 DEF Base, Old
<1>9. << >> \in Seq(Symbol) /\ Len(<< >>) = 0 /\ Range(<< >>) = {} /\ Increasing(<< >>)
  <2>1. << >> \in Seq(Symbol) /\ Len(<< >>) = 0 /\ \A i \in 1 .. 0 : FALSE
    OBVIOUS
  <2>2. \A x : x \notin Range(<< >>)
    BY <2>1, InRange
  <2>3. QED
    BY <2>1, <2>2 DEF Increasing
<1>10. InOrder
  BY <1>1, <1>2, <1>6, <1>9 DEF InOrder, Init
<1>11. ASSUME NEW u \in Users PROVE Link(w, u)
  <2>1. up[u] = << >> /\ down[u] = << >> /\ doc[u] = << >> /\ window[u] = "closed" /\ u \notin inFile
    BY DEF Init
  <2>2. Sends(w, charRow, u, Range(sdoc), << >>, charRow[u])
    <3>. DEFINE c == [i \in Nat |-> charRow[u]]
    <3>1. charRow[u] \in Nat
      BY <1>10 DEF InOrder
    <3>2. Counts(charRow, u, << >>, c, charRow[u])
      BY <1>9, <3>1 DEF Counts
    <3>3. Clear(Range(sdoc), << >>)
      BY <1>9 DEF Clear
    <3>. HIDE DEF c
    <3>4. QED
      BY <1>9, <3>2, <3>3 DEF Sends
  <2>3. Gets(w, charRow, u, {}, << >>, charId[u])
    BY GetsNone
  <2>4. QED
    BY <1>9, <2>1, <2>2, <2>3 DEF Link, Hears
<1>12. QED
  BY <1>5, <1>8, <1>10, <1>11 DEF CInv, Content

\* Every step keeps the invariant of symbols, if no line break is typed.
LEMMA ContentInductive ==
  ASSUME Newlines = FALSE, IInv, CInv, [Next]_vars
  PROVE  CInv'
<1>1. InOrder /\ \E w : Content(w)
  BY DEF CInv
<1>2. PICK w : Content(w)
  BY <1>1
<1>3. CASE UNCHANGED vars
  <2>1. UNCHANGED <<sdoc, charRow, inFile, doc, charId, window, up, down>>
    BY <1>3 DEF vars, server, client, channels
  <2>2. InOrder'
    BY <1>1, <2>1 DEF InOrder
  <2>3. \A u \in Users : Link(w, u)'
    BY <1>2, <2>1 DEF Content, Link, Hears, Alive
  <2>4. Content(w)'
    BY <1>2, <2>1, <2>3 DEF Content
  <2>5. QED
    BY <2>2, <2>4 DEF CInv
<1>4. ASSUME NEW u \in Users, Open(u) \/ CloseFile(u) \/ Restart(u)
      PROVE  CInv'
  <2>1. InOrder' /\ Content(w)'
    BY <1>1, <1>2, <1>4, WindowContent
  <2>2. QED
    BY <2>1 DEF CInv
<1>5. ASSUME NEW u \in Users, Types(u)
      PROVE  CInv'
  <2>1. PICK k \in 1 .. (Len(doc[u]) + 1), removed \in 0 .. MaxChars, added \in 0 .. MaxChars,
             breaks \in 0 .. MaxChars :
           Edit(u, k, removed, added, breaks) \/ EditThrows(u, k, removed, added, breaks)
    BY <1>5 DEF Types
  <2>2. removed \in Nat /\ added \in Nat /\ breaks \in Nat
    OBVIOUS
  <2>3. EditFits(u, k, removed, added, breaks)
    BY <2>1 DEF Edit, EditThrows
  <2>4. breaks = 0
    BY <2>2, <2>3 DEF EditFits
  <2>5. CASE Edit(u, k, removed, added, breaks)
    <3>1. InOrder' /\ \E w2 : Content(w2)'
      BY <1>1, <1>2, <2>2, <2>4, <2>5, EditContent
    <3>2. QED
      BY <3>1 DEF CInv
  <2>6. CASE EditThrows(u, k, removed, added, breaks)
    <3>1. InOrder' /\ \E w2 : Content(w2)'
      BY <1>1, <1>2, <2>2, <2>6, ThrowsContent
    <3>2. QED
      BY <3>1 DEF CInv
  <2>7. QED
    BY <2>1, <2>5, <2>6
<1>6. ASSUME NEW u \in Users, Crash(u) \/ ServerReceive(u) \/ ClientReceive(u)
      PROVE  CInv'
  <2>1. InOrder' /\ Content(w)'
    BY <1>1, <1>2, <1>6, CrashContent, ServerContent, ClientContent
  <2>2. QED
    BY <2>1 DEF CInv
<1>7. QED
  BY <1>3, <1>4, <1>5, <1>6 DEF Next

\* The invariant of symbols.
LEMMA ContentInvariant ==
  ASSUME Newlines = FALSE
  PROVE  Spec => [](IInv /\ CInv)
<1>1. Init => IInv /\ CInv
  BY Initially, ContentInitially
<1>2. IInv /\ CInv /\ [Next]_vars => IInv' /\ CInv'
  <2>1. SUFFICES ASSUME IInv, CInv, [Next]_vars PROVE IInv' /\ CInv'
    OBVIOUS
  <2>2. IInv'
    BY <2>1, Inductive
  <2>3. CInv'
    BY <2>1, ContentInductive
  <2>4. QED
    BY <2>2, <2>3
<1>3. QED
  BY <1>1, <1>2, PTL DEF Spec

\* Every replica shows its symbols in the strict order of their positions, as long
\* as no line break is typed.
THEOREM ReplicasAreSorted ==
  ASSUME Newlines = FALSE
  PROVE  Spec => []SortedReplicas
<1>1. CInv => SortedReplicas
  BY SortedIncreasing DEF CInv, InOrder, SortedReplicas
<1>2. QED
  BY <1>1, ContentInvariant, PTL

\* One identifier has one position, so a list in order of positions holds it once.
LEMMA OnePosition ==
  ASSUME NEW d \in Seq(Symbol), Increasing(d), NEW w, \A s \in Range(d) : s.pos = w[s.id]
  PROVE  DistinctIds(d)
<1>1. SUFFICES ASSUME NEW i \in 1 .. Len(d), NEW j \in 1 .. Len(d), d[i].id = d[j].id PROVE i = j
  BY DEF DistinctIds
<1>2. d[i] \in Range(d) /\ d[j] \in Range(d) /\ d[i] \in Symbol /\ d[j] \in Symbol
  BY InRange
<1>3. d[i].pos = d[j].pos
  BY <1>1, <1>2
<1>4. ~ PosLess(d[i].pos, d[j].pos) /\ ~ PosLess(d[j].pos, d[i].pos)
  BY <1>2, <1>3, SymbolOrder
<1>5. QED
  BY <1>4 DEF Increasing

\* A symbol identifier names one symbol in every replica, as long as no line break
\* is typed: a client's counter starts where the server's row is once the server
\* has received all that earlier sessions of the user sent and kept.
THEOREM IdsAreUnique ==
  ASSUME Newlines = FALSE
  PROVE  Spec => []UniqueIds
<1>1. CInv => UniqueIds
  <2>1. SUFFICES ASSUME InOrder, NEW w, Content(w) PROVE UniqueIds
    BY DEF CInv
  <2>2. DistinctIds(sdoc)
    BY <2>1, OnePosition DEF InOrder, Content, Base
  <2>3. ASSUME NEW u \in Users PROVE DistinctIds(doc[u])
    BY <2>1, OnePosition DEF InOrder, Content, Link, Gets, Held
  <2>4. QED
    BY <2>2, <2>3 DEF UniqueIds
<1>2. QED
  BY <1>1, ContentInvariant, PTL

\* An open editor's document, once everything on the way to it has arrived, is the
\* server's document once that has received everything on the way from the
\* editor: insertions and deletions that cross commute. No line break is typed.
THEOREM ReplicasDoCommute ==
  ASSUME Newlines = FALSE
  PROVE  Spec => []ReplicasCommute
<1>1. IInv /\ CInv => ReplicasCommute
  <2>1. SUFFICES ASSUME IInv, InOrder, NEW w, Content(w), NEW u \in Users, window[u] = "open"
                 PROVE  ApplyEdits(doc[u], down[u]) = ApplyEdits(sdoc, up[u])
    BY DEF CInv, ReplicasCommute
  <2>2. PICK S : up[u] \in Seq(S) /\ down[u] \in Seq(S)
    BY <2>1 DEF IInv, TypeInv, Channels
  <2>3. Ready(w, u, up[u], doc[u], charId[u])
    BY <2>1, ReadyNow
  <2>4. \A i \in 1 .. Len(down[u]) : down[u][i].type # "file"
    BY <2>1, OpenEditor
  <2>5. /\ ApplyEdits(doc[u], down[u]) \in Seq(Symbol) /\ Increasing(ApplyEdits(doc[u], down[u]))
        /\ Range(ApplyEdits(doc[u], down[u])) = After(Range(doc[u]), down[u], Len(down[u]))
    <3>1. /\ w \in Where /\ doc[u] \in Seq(Symbol) /\ Increasing(doc[u])
          /\ \A s \in Range(doc[u]) : s.pos = w[s.id]
          /\ Clear(Range(doc[u]), down[u])
          /\ \A i \in 1 .. Len(down[u]) : Valid(w, down[u][i])
      BY <2>1, <2>3 DEF Ready, Gets, Held, Content
    <3>2. QED
      BY <2>2, <2>4, <3>1, AppliedAll
  <2>6. /\ ApplyEdits(sdoc, up[u]) \in Seq(Symbol) /\ Increasing(ApplyEdits(sdoc, up[u]))
        /\ Range(ApplyEdits(sdoc, up[u])) = After(Range(sdoc), up[u], Len(up[u]))
    <3>1. /\ w \in Where /\ sdoc \in Seq(Symbol) /\ Increasing(sdoc)
          /\ \A s \in Range(sdoc) : s.pos = w[s.id]
          /\ Clear(Range(sdoc), up[u])
          /\ \A i \in 1 .. Len(up[u]) : Valid(w, up[u][i])
      BY <2>1, <2>3 DEF Ready, Sends, Base, Content, InOrder
    <3>2. \A i \in 1 .. Len(up[u]) : up[u][i].type # "file"
      BY <2>3 DEF Ready, Sends, Counts, SentBy
    <3>3. QED
      BY <2>2, <3>1, <3>2, AppliedAll
  <2>7. After(Range(sdoc), up[u], Len(up[u])) = After(Range(doc[u]), down[u], Len(down[u]))
    BY <2>3 DEF Ready
  <2>8. QED
    BY <2>5, <2>6, <2>7, SameContent
<1>2. QED
  BY <1>1, ContentInvariant, PTL
=============================================================================
