---------------------------- MODULE MarkupProofs ----------------------------
(***************************************************************************)
(* EditorsFollow, EndsOnlyByCause, WidgetShowsFile and OneParagraphPerLine   *)
(* of Markup for any users, symbols, paragraphs and times.                   *)
(*                                                                         *)
(* A message is a function on what a replica holds (Effect), the messages    *)
(* of a channel are their composition (Steps, After). The invariant says     *)
(* what an open editor and the server will hold when both channels are       *)
(* empty is the same (Follows). What it rests on: two messages that cross    *)
(* commute (Apart), as what one user's messages bring nobody else has        *)
(* (Private, Brought, AllMade) and a user's comments are changed by that     *)
(* user only (Authors, Numbered); a change of a comment meets the comment    *)
(* when it arrives (Meets), so the server refuses none; and the file an      *)
(* editor asked for is the first that the server sends to it (Session).      *)
(*                                                                         *)
(* The actions fall into classes by what they do to files and channels:      *)
(* an editor changes its File and sends that (Utters), the server takes a    *)
(* message and passes it on (Passes), an editor receives (Hears), a client   *)
(* ends (Falls), asks or closes (Turns), the server closes (Dismisses) or    *)
(* opens (Admits). A lemma per class keeps the invariant, a lemma per action *)
(* says which class it is of.                                               *)
(*                                                                         *)
(* A second invariant (CauseInv) rests on the first: whoever is not in the   *)
(* File's user map has left for good (Departed), so that nobody who is can   *)
(* be missing in an editor's list (Members), a client has ended over someone *)
(* who is missing or over what it met (Blamed), and the widget shows what    *)
(* the File has (Shown). Most steps touch none of it (Calm). It needs that   *)
(* an edit finds the paragraphs its lines ask for (EditCounts), and what the *)
(* walk of an update does to the widget (WalkFacts).                         *)
(*                                                                         *)
(* A third one (LineInv) says which paragraph a line has: until somebody     *)
(* miscounts, that of the line break before it, in every File and in every   *)
(* message. It needs that the paragraphs an edit takes from the list by      *)
(* their places are those of the line breaks it deletes (LostParagraphs).    *)
(***************************************************************************)
EXTENDS Markup, FiniteSetTheorems, WellFoundedInduction, TLAPS

-----------------------------------------------------------------------------
\* Every set of natural numbers that is not empty has a least element.
LEMMA LeastNumber ==
  ASSUME NEW T \in SUBSET Nat, T # {}
  PROVE  \E m \in T : \A n \in T : m <= n
<1>. DEFINE R == {p \in Nat \X Nat : p[1] < p[2]}
<1>1. IsWellFoundedOn(R, Nat)
  BY NatLessThanWellFounded DEF OpToRel
<1>. HIDE DEF R
<1>2. PICK m \in T : \A n \in T : <<n, m>> \notin R
  BY <1>1, WFMin
<1>3. \A n \in T : ~(n < m)
  BY <1>2 DEF R
<1>4. QED
  BY <1>3

\* A set with 0, and with the successor of every number in it, has them all.
LEMMA Counting ==
  ASSUME NEW S, 0 \in S, \A n \in Nat : n \in S => n + 1 \in S
  PROVE  Nat \subseteq S
<1>. SUFFICES ASSUME NEW a \in Nat, a \notin S PROVE FALSE
  OBVIOUS
<1>. DEFINE T == {k \in Nat : k \notin S}
<1>1. T \in SUBSET Nat /\ T # {}
  OBVIOUS
<1>2. PICK m \in T : \A n \in T : m <= n
  <2>. HIDE DEF T
  <2>1. QED
    BY <1>1, LeastNumber
<1>3. m \in Nat /\ m # 0 /\ m - 1 \in Nat /\ (m - 1) + 1 = m
  OBVIOUS
<1>4. m - 1 \in S
  BY <1>2, <1>3
<1>5. QED
  BY <1>3, <1>4

-----------------------------------------------------------------------------
\* What a replica holds of paragraphs and comments, and what a message makes of it.
Held(r) == [pars |-> pars[r], comments |-> comments[r]]

OnPars(P, m) == CASE m.type = "ins" -> P \cup m.pars
                  [] m.type = "del" -> P \ m.pars
                  [] m.type = "file" -> m.pars
                  [] OTHER -> P
AboutComment(m) == m.type \in {"new", "words", "erase"}
OnComments(C, m) == IF AboutComment(m) THEN CommentsAfter(C, m)
                    ELSE IF m.type = "file" THEN m.comments ELSE C
Effect(X, m) == [pars |-> OnPars(X.pars, m), comments |-> OnComments(X.comments, m)]

\* What the first messages of q, one after the other, make of X, and all of them.
Steps(X, q) == LET g[i \in 0 .. Len(q)] == IF i = 0 THEN X ELSE Effect(g[i - 1], q[i]) IN g
After(X, q) == Steps(X, q)[Len(q)]

\* Steps begins with X, and every message makes the next of its values of the one before.
LEMMA StepsFacts ==
  ASSUME NEW X, NEW q, Len(q) \in Nat
  PROVE  /\ Steps(X, q)[0] = X
         /\ \A i \in 1 .. Len(q) : Steps(X, q)[i] = Effect(Steps(X, q)[i - 1], q[i])
<1>. DEFINE Is(g, n) == g = [i \in 0 .. n |-> IF i = 0 THEN X ELSE Effect(g[i - 1], q[i])]
            R == {n \in Nat : \E g : Is(g, n)}
<1>1. 0 \in R
  <2>1. Is([i \in 0 .. 0 |-> X], 0)
    OBVIOUS
  <2>2. QED
    BY <2>1
<1>2. ASSUME NEW n \in Nat, n \in R PROVE n + 1 \in R
  <2>1. PICK g : Is(g, n)
    BY <1>2
  <2>. DEFINE h == [i \in 0 .. (n + 1) |-> IF i = n + 1 THEN Effect(g[n], q[n + 1]) ELSE g[i]]
  <2>2. ASSUME NEW i \in 0 .. (n + 1)
        PROVE  h[i] = IF i = 0 THEN X ELSE Effect(h[i - 1], q[i])
    <3>1. CASE i = 0
      <4>1. h[i] = g[0] /\ 0 \in 0 .. n
        BY <3>1
      <4>2. QED
        BY <2>1, <3>1, <4>1
    <3>2. CASE i = n + 1
      <4>1. h[n] = g[n] /\ i # 0 /\ i - 1 = n
        BY <3>2
      <4>2. QED
        BY <3>2, <4>1
    <3>3. CASE i # 0 /\ i # n + 1
      <4>1. i \in 0 .. n /\ i - 1 \in 0 .. (n + 1) /\ i - 1 # n + 1
        BY <3>3
      <4>2. h[i] = g[i] /\ h[i - 1] = g[i - 1]
        BY <3>3, <4>1
      <4>3. g[i] = Effect(g[i - 1], q[i])
        BY <2>1, <3>3, <4>1
      <4>4. QED
        BY <3>3, <4>2, <4>3
    <3>4. QED
      BY <3>1, <3>2, <3>3
  <2>3. h = [i \in 0 .. (n + 1) |-> h[i]]
    OBVIOUS
  <2>. HIDE DEF h
  <2>4. Is(h, n + 1)
    BY <2>2, <2>3
  <2>. HIDE DEF Is
  <2>5. QED
    BY <2>4
<1>. HIDE DEF R
<1>3. Nat \subseteq R
  BY <1>1, <1>2, Counting
<1>4. \E g : Is(g, Len(q))
  <2>. HIDE DEF Is
  <2>1. Len(q) \in R
    BY <1>3
  <2>2. QED
    BY <2>1 DEF R
<1>5. Is(Steps(X, q), Len(q))
  BY <1>4 DEF Steps
<1>. DEFINE g == Steps(X, q)
<1>6. g = [i \in 0 .. Len(q) |-> IF i = 0 THEN X ELSE Effect(g[i - 1], q[i])]
  BY <1>5
<1>. HIDE DEF g
<1>7. Len(q) \in Nat
  OBVIOUS
<1>8. g[0] = X /\ \A i \in 1 .. Len(q) : g[i] = Effect(g[i - 1], q[i])
  BY <1>6, <1>7
<1>9. QED
  BY <1>8 DEF g

\* A function with the first value and the steps of Steps has all its values.
LEMMA StepsUnique ==
  ASSUME NEW X, NEW q, Len(q) \in Nat, NEW n \in 0 .. Len(q), NEW h,
         h[0] = X, \A i \in 1 .. n : h[i] = Effect(h[i - 1], q[i])
  PROVE  \A i \in 0 .. n : h[i] = Steps(X, q)[i]
<1>. DEFINE R == {i \in Nat : i <= n => h[i] = Steps(X, q)[i]}
<1>1. 0 \in R
  BY StepsFacts
<1>2. ASSUME NEW i \in Nat, i \in R PROVE i + 1 \in R
  <2>1. SUFFICES ASSUME i + 1 <= n PROVE h[i + 1] = Steps(X, q)[i + 1]
    OBVIOUS
  <2>2. i + 1 \in 1 .. n /\ i + 1 \in 1 .. Len(q) /\ (i + 1) - 1 = i /\ i <= n
    BY <2>1
  <2>3. h[i + 1] = Effect(h[i], q[i + 1]) /\ Steps(X, q)[i + 1] = Effect(Steps(X, q)[i], q[i + 1])
    BY <2>2, StepsFacts
  <2>4. QED
    BY <1>2, <2>2, <2>3
<1>. HIDE DEF R
<1>3. Nat \subseteq R
  BY <1>1, <1>2, Counting
<1>4. QED
  BY <1>3 DEF R

\* Only the messages up to n matter for the first n steps.
LEMMA StepsPrefix ==
  ASSUME NEW X, NEW q, NEW r, Len(q) \in Nat, Len(r) \in Nat, NEW n \in Nat,
         n <= Len(q), n <= Len(r), \A i \in 1 .. n : r[i] = q[i]
  PROVE  \A i \in 0 .. n : Steps(X, r)[i] = Steps(X, q)[i]
<1>. DEFINE h == Steps(X, r)
<1>1. n \in 0 .. Len(q) /\ 1 .. n \subseteq 1 .. Len(r)
  OBVIOUS
<1>2. h[0] = X /\ \A i \in 1 .. n : h[i] = Effect(h[i - 1], q[i])
  BY <1>1, StepsFacts
<1>. HIDE DEF h
<1>3. \A i \in 0 .. n : h[i] = Steps(X, q)[i]
  BY <1>1, <1>2, StepsUnique
<1>4. QED
  BY <1>3 DEF h

\* Appending a message, taking the first away, appending several: r is the new
\* sequence, w that of the appended ones.
IsAppend(r, q, m) ==
  Len(r) = Len(q) + 1 /\ r[Len(q) + 1] = m /\ \A i \in 1 .. Len(q) : r[i] = q[i]
IsTail(r, q) ==
  Len(q) = Len(r) + 1 /\ \A i \in 1 .. Len(r) : r[i] = q[i + 1]
IsConcat(r, q, w) ==
  /\ Len(r) = Len(q) + Len(w) /\ \A i \in 1 .. Len(q) : r[i] = q[i]
  /\ \A k \in 1 .. Len(w) : r[Len(q) + k] = w[k]

\* A message that is appended acts on what the others have made.
LEMMA StepsAppend ==
  ASSUME NEW X, NEW q, Len(q) \in Nat, NEW r, NEW m, IsAppend(r, q, m)
  PROVE  /\ \A i \in 0 .. Len(q) : Steps(X, r)[i] = Steps(X, q)[i]
         /\ After(X, r) = Effect(After(X, q), m)
<1>. DEFINE n == Len(q)
<1>1. /\ Len(r) = n + 1 /\ n \in Nat /\ Len(q) = n
      /\ \A i \in 1 .. n : r[i] = q[i]
      /\ r[n + 1] = m
  BY DEF IsAppend
<1>. HIDE DEF n
<1>2. \A i \in 0 .. n : Steps(X, r)[i] = Steps(X, q)[i]
  BY <1>1, StepsPrefix
<1>3. n + 1 \in 1 .. Len(r) /\ (n + 1) - 1 = n /\ n \in 0 .. n /\ Len(r) \in Nat
  BY <1>1
<1>4. Steps(X, r)[n + 1] = Effect(Steps(X, r)[n], r[n + 1])
  BY <1>3, StepsFacts
<1>5. Steps(X, r)[n + 1] = Effect(Steps(X, q)[n], m)
  BY <1>1, <1>2, <1>3, <1>4
<1>6. QED
  BY <1>1, <1>2, <1>5 DEF After, n

\* The first message may be applied before the others are looked at.
LEMMA StepsTail ==
  ASSUME NEW X, NEW q, NEW r, Len(r) \in Nat, IsTail(r, q)
  PROVE  /\ \A i \in 0 .. Len(r) : Steps(Effect(X, q[1]), r)[i] = Steps(X, q)[i + 1]
         /\ After(Effect(X, q[1]), r) = After(X, q)
<1>. DEFINE n == Len(r)
            h == [i \in 0 .. n |-> Steps(X, q)[i + 1]]
            Y == Effect(X, q[1])
<1>1. /\ Len(r) = n /\ n \in Nat /\ Len(q) = n + 1
      /\ \A i \in 1 .. n : r[i] = q[i + 1]
  BY DEF IsTail
<1>. HIDE DEF n
<1>2. h[0] = Y
  BY <1>1, StepsFacts
<1>3. \A i \in 1 .. n : h[i] = Effect(h[i - 1], r[i])
  <2>. TAKE i \in 1 .. n
  <2>1. /\ i \in 0 .. n /\ i - 1 \in 0 .. n /\ i + 1 \in 1 .. Len(q)
        /\ (i + 1) - 1 = i /\ (i - 1) + 1 = i /\ Len(q) \in Nat
    BY <1>1
  <2>2. Steps(X, q)[i + 1] = Effect(Steps(X, q)[i], q[i + 1])
    BY <2>1, StepsFacts
  <2>3. h[i] = Steps(X, q)[i + 1] /\ h[i - 1] = Steps(X, q)[i]
    BY <2>1
  <2>4. QED
    BY <1>1, <2>2, <2>3
<1>. HIDE DEF Y
<1>4. n \in 0 .. Len(r) /\ Len(r) \in Nat
  BY <1>1
<1>5. \A i \in 0 .. n : h[i] = Steps(Y, r)[i]
  <2>. HIDE DEF h
  <2>1. QED
    BY <1>2, <1>3, <1>4, StepsUnique
<1>6. \A i \in 0 .. n : Steps(Y, r)[i] = Steps(X, q)[i + 1]
  BY <1>5
<1>7. After(Y, r) = After(X, q)
  BY <1>1, <1>6 DEF After
<1>8. QED
  BY <1>6, <1>7 DEF Y, n

\* Messages that are appended act on what the others have made.
LEMMA StepsConcat ==
  ASSUME NEW X, NEW q, Len(q) \in Nat, NEW w, Len(w) \in Nat, NEW r, IsConcat(r, q, w)
  PROVE  /\ \A i \in 0 .. Len(q) : Steps(X, r)[i] = Steps(X, q)[i]
         /\ \A k \in 0 .. Len(w) : Steps(X, r)[Len(q) + k] = Steps(After(X, q), w)[k]
         /\ After(X, r) = After(After(X, q), w)
<1>. DEFINE n == Len(q)
            l == Len(w)
            h == [k \in 0 .. l |-> Steps(X, r)[n + k]]
            Y == After(X, q)
<1>1. /\ Len(r) = n + l /\ n \in Nat /\ l \in Nat /\ Len(q) = n /\ Len(w) = l
      /\ \A i \in 1 .. n : r[i] = q[i]
      /\ \A i \in 1 .. l : r[n + i] = w[i]
  BY DEF IsConcat
<1>. HIDE DEF n, l
<1>2. \A i \in 0 .. n : Steps(X, r)[i] = Steps(X, q)[i]
  BY <1>1, StepsPrefix
<1>3. h[0] = Y
  BY <1>1, <1>2 DEF After
<1>4. \A k \in 1 .. l : h[k] = Effect(h[k - 1], w[k])
  <2>. TAKE k \in 1 .. l
  <2>1. n + k \in 1 .. Len(r) /\ (n + k) - 1 = n + (k - 1) /\ k \in 0 .. l /\ k - 1 \in 0 .. l
        /\ Len(r) \in Nat
    BY <1>1
  <2>2. Steps(X, r)[n + k] = Effect(Steps(X, r)[n + (k - 1)], r[n + k])
    BY <2>1, StepsFacts
  <2>3. QED
    BY <1>1, <2>1, <2>2
<1>. HIDE DEF Y
<1>5. l \in 0 .. Len(w) /\ Len(w) \in Nat
  BY <1>1
<1>6. \A k \in 0 .. l : h[k] = Steps(Y, w)[k]
  <2>. HIDE DEF h
  <2>1. QED
    BY <1>3, <1>4, <1>5, StepsUnique
<1>7. \A k \in 0 .. l : Steps(X, r)[n + k] = Steps(Y, w)[k]
  BY <1>6
<1>8. After(X, r) = After(Y, w)
  BY <1>1, <1>7 DEF After
<1>9. QED
  BY <1>2, <1>7, <1>8 DEF Y, n, l

\* The same with its middle part under a name.
GoesOn(X, r, q, w) ==
  \A k \in 0 .. Len(w) : Steps(X, r)[Len(q) + k] = Steps(After(X, q), w)[k]
LEMMA StepsGoOn ==
  ASSUME NEW X, NEW q, Len(q) \in Nat, NEW w, Len(w) \in Nat, NEW r, IsConcat(r, q, w)
  PROVE  GoesOn(X, r, q, w)
  BY StepsConcat DEF GoesOn

\* Two messages of which neither undoes what the other does.
Apart(m, n) ==
  /\ m.type # "file" /\ n.type # "file"
  /\ m.type = "ins" /\ n.type = "del" => m.pars \cap n.pars = {}
  /\ m.type = "del" /\ n.type = "ins" => m.pars \cap n.pars = {}
  /\ AboutComment(m) /\ AboutComment(n) => m.comment.author # n.comment.author

\* They may come in either order.
LEMMA Swap ==
  ASSUME NEW X, NEW m, NEW n, Apart(m, n)
  PROVE  Effect(Effect(X, m), n) = Effect(Effect(X, n), m)
<1>1. OnPars(OnPars(X.pars, m), n) = OnPars(OnPars(X.pars, n), m)
  <2>1. CASE m.type = "ins"
    BY <2>1 DEF OnPars, Apart
  <2>2. CASE m.type = "del"
    BY <2>2 DEF OnPars, Apart
  <2>3. CASE m.type \notin {"ins", "del"}
    BY <2>3 DEF OnPars, Apart
  <2>4. QED
    BY <2>1, <2>2, <2>3
<1>2. OnComments(OnComments(X.comments, m), n) = OnComments(OnComments(X.comments, n), m)
  <2>1. CASE AboutComment(m) /\ AboutComment(n)
    <3>1. Key(m.comment) # Key(n.comment)
      BY <2>1 DEF Apart, Key
    <3>2. ASSUME NEW C
          PROVE  CommentsAfter(CommentsAfter(C, m), n) = CommentsAfter(CommentsAfter(C, n), m)
      BY <3>1 DEF CommentsAfter, Without
    <3>3. QED
      BY <2>1, <3>2 DEF OnComments
  <2>2. CASE ~ (AboutComment(m) /\ AboutComment(n))
    BY <2>2 DEF OnComments, Apart
  <2>3. QED
    BY <2>1, <2>2
<1>3. QED
  BY <1>1, <1>2 DEF Effect

\* A message that is apart from all of q may come first or, step by step, last.
LEMMA StepsCommute ==
  ASSUME NEW X, NEW q, Len(q) \in Nat, NEW m, \A j \in 1 .. Len(q) : Apart(m, q[j])
  PROVE  /\ \A i \in 0 .. Len(q) : Steps(Effect(X, m), q)[i] = Effect(Steps(X, q)[i], m)
         /\ After(Effect(X, m), q) = Effect(After(X, q), m)
<1>. DEFINE h == [i \in 0 .. Len(q) |-> Effect(Steps(X, q)[i], m)]
            Y == Effect(X, m)
<1>1. Len(q) \in Nat /\ Len(q) \in 0 .. Len(q)
  OBVIOUS
<1>2. h[0] = Y
  BY <1>1, StepsFacts
<1>3. ASSUME NEW i \in 1 .. Len(q) PROVE h[i] = Effect(h[i - 1], q[i])
  <2>1. i \in 0 .. Len(q) /\ i - 1 \in 0 .. Len(q)
    BY <1>1
  <2>2. Steps(X, q)[i] = Effect(Steps(X, q)[i - 1], q[i])
    BY StepsFacts
  <2>3. Effect(Effect(Steps(X, q)[i - 1], m), q[i]) = Effect(Effect(Steps(X, q)[i - 1], q[i]), m)
    BY Swap
  <2>4. h[i] = Effect(Steps(X, q)[i], m) /\ h[i - 1] = Effect(Steps(X, q)[i - 1], m)
    BY <2>1
  <2>5. QED
    BY <2>2, <2>3, <2>4
<1>. HIDE DEF Y
<1>4. \A i \in 0 .. Len(q) : h[i] = Steps(Y, q)[i]
  <2>. HIDE DEF h
  <2>1. QED
    BY <1>1, <1>2, <1>3, StepsUnique
<1>5. \A i \in 0 .. Len(q) : Steps(Y, q)[i] = Effect(Steps(X, q)[i], m)
  BY <1>4
<1>6. QED
  BY <1>1, <1>5 DEF After, Y

\* Sequences.
LEMMA ConcatFacts ==
  ASSUME NEW S, NEW q \in Seq(S), NEW w \in Seq(S)
  PROVE  q \o w \in Seq(S) /\ IsConcat(q \o w, q, w) /\ Len(q) \in Nat /\ Len(w) \in Nat
  BY DEF IsConcat

\* The tail of a sequence of messages.
LEMMA TailFacts ==
  ASSUME NEW S, NEW q \in Seq(S), q # << >>
  PROVE  /\ Tail(q) \in Seq(S) /\ IsTail(Tail(q), q) /\ Len(q) \in Nat /\ Len(Tail(q)) \in Nat
         /\ Head(q) = q[1] /\ q[1] \in S /\ 1 \in DOMAIN q
         /\ \A i \in 1 .. Len(Tail(q)) : i + 1 \in DOMAIN q
  BY DEF IsTail

\* A sequence of messages with one more.
LEMMA AppendFacts ==
  ASSUME NEW S, NEW q \in Seq(S), NEW m \in S
  PROVE  Append(q, m) \in Seq(S) /\ IsAppend(Append(q, m), q, m) /\ Len(q) \in Nat
  BY DEF IsAppend

\* What the messages make of a replica is again paragraphs and comments.
LEMMA AfterRecord ==
  ASSUME NEW r, NEW q, Len(q) \in Nat
  PROVE  After(Held(r), q) = [pars |-> After(Held(r), q).pars,
                              comments |-> After(Held(r), q).comments]
<1>1. CASE Len(q) = 0
  <2>1. After(Held(r), q) = Held(r)
    BY <1>1, StepsFacts DEF After
  <2>2. QED
    BY <2>1 DEF Held
<1>2. CASE Len(q) # 0
  <2>1. Len(q) \in 1 .. Len(q)
    BY <1>2
  <2>. DEFINE Y == Steps(Held(r), q)[Len(q) - 1]
  <2>2. After(Held(r), q) = Effect(Y, q[Len(q)])
    BY <2>1, StepsFacts DEF After
  <2>. HIDE DEF Y
  <2>3. QED
    BY <2>2 DEF Effect
<1>3. QED
  BY <1>1, <1>2

\* Messages that are apart from all of q may come first or last, all of them.
LEMMA StepsCross ==
  ASSUME NEW X, NEW q, Len(q) \in Nat, NEW r, Len(r) \in Nat,
         \A k \in 1 .. Len(r), j \in 1 .. Len(q) : Apart(r[k], q[j])
  PROVE  \A k \in 0 .. Len(r), i \in 0 .. Len(q) :
            Steps(Steps(X, r)[k], q)[i] = Steps(Steps(X, q)[i], r)[k]
<1>. DEFINE R == {k \in Nat : k <= Len(r) =>
                    \A i \in 0 .. Len(q) : Steps(Steps(X, r)[k], q)[i] = Steps(Steps(X, q)[i], r)[k]}
<1>1. 0 \in R
  BY StepsFacts
<1>2. ASSUME NEW k \in Nat, k \in R PROVE k + 1 \in R
  <2>1. SUFFICES ASSUME k + 1 <= Len(r), NEW i \in 0 .. Len(q)
                 PROVE  Steps(Steps(X, r)[k + 1], q)[i] = Steps(Steps(X, q)[i], r)[k + 1]
    OBVIOUS
  <2>. DEFINE Y == Steps(X, r)[k]
              Z == Steps(X, q)[i]
  <2>2. k + 1 \in 1 .. Len(r) /\ (k + 1) - 1 = k
    BY <2>1
  <2>3. Steps(X, r)[k + 1] = Effect(Y, r[k + 1])
    BY <2>2, StepsFacts
  <2>4. Steps(Z, r)[k + 1] = Effect(Steps(Z, r)[k], r[k + 1])
    <3>. HIDE DEF Z
    <3>1. QED
      BY <2>2, StepsFacts
  <2>5. Steps(Effect(Y, r[k + 1]), q)[i] = Effect(Steps(Y, q)[i], r[k + 1])
    <3>. HIDE DEF Y
    <3>1. QED
      BY <2>2, StepsCommute
  <2>6. Steps(Y, q)[i] = Steps(Z, r)[k]
    BY <1>2, <2>1
  <2>7. QED
    BY <2>3, <2>4, <2>5, <2>6
<1>. HIDE DEF R
<1>3. Nat \subseteq R
  BY <1>1, <1>2, Counting
<1>4. QED
  BY <1>3 DEF R

\* Other users' messages leave it open whether there is a comment of an author.
LEMMA KeyKept ==
  ASSUME NEW X, NEW q, Len(q) \in Nat, NEW c,
         \A j \in 1 .. Len(q) : /\ q[j].type # "file"
                                /\ AboutComment(q[j]) => q[j].comment.author # c.author
  PROVE  \A i \in 0 .. Len(q) : Has(Steps(X, q)[i].comments, c) <=> Has(X.comments, c)
<1>. DEFINE R == {i \in Nat : i <= Len(q) => (Has(Steps(X, q)[i].comments, c) <=> Has(X.comments, c))}
<1>1. 0 \in R
  BY StepsFacts
<1>2. ASSUME NEW i \in Nat, i \in R PROVE i + 1 \in R
  <2>1. SUFFICES ASSUME i + 1 <= Len(q)
                 PROVE  Has(Steps(X, q)[i + 1].comments, c) <=> Has(X.comments, c)
    OBVIOUS
  <2>. DEFINE C == Steps(X, q)[i].comments
              m == q[i + 1]
  <2>2. i + 1 \in 1 .. Len(q) /\ (i + 1) - 1 = i
    BY <2>1
  <2>3. Steps(X, q)[i + 1].comments = OnComments(C, m)
    <3>1. Steps(X, q)[i + 1] = Effect(Steps(X, q)[i], q[i + 1])
      BY <2>2, StepsFacts
    <3>2. QED
      BY <3>1 DEF Effect
  <2>4. m.type # "file" /\ (AboutComment(m) => m.comment.author # c.author)
    BY <2>2
  <2>. HIDE DEF C, m
  <2>5. Has(OnComments(C, m), c) <=> Has(C, c)
    BY <2>4 DEF OnComments, CommentsAfter, Without, Has, Key
  <2>6. QED
    BY <1>2, <2>1, <2>3, <2>5 DEF C
<1>. HIDE DEF R
<1>3. Nat \subseteq R
  BY <1>1, <1>2, Counting
<1>4. QED
  BY <1>3 DEF R

-----------------------------------------------------------------------------
\* What is in the channels and in the variables.
Comment == [author : Users, no : Nat, words : {"first", "later"}]
UpMsg ==
       [type : {"ins", "del"}, syms : SUBSET Symbols, pars : SUBSET Paragraphs]
  \cup [type : {"upd"}, syms : SUBSET Symbols, fmt : Formats, at : Nat]
  \cup [type : {"new", "words", "erase"}, comment : Comment]
  \cup [type : {"get", "close", "remove"}]
DownMsg ==
       [user : Users, type : {"ins", "del"}, syms : SUBSET Symbols, pars : SUBSET Paragraphs]
  \cup [user : Users, type : {"upd"}, syms : SUBSET Symbols, fmt : Formats, at : Nat]
  \cup [user : Users, type : {"new", "words", "erase"}, comment : Comment]
  \cup [type : {"file"}, text : SUBSET Symbols, pars : SUBSET Paragraphs,
        fmts : [Symbols -> Formats], comments : SUBSET Comment, known : SUBSET Users]
Windows == {"closed", "opening", "open", "left", "endedByEdit", "endedByUpdate", "endedByFile",
            "endedByComment", "endedByHighlight"}
Marks == [Symbols -> [fmt : Formats, at : Nat, by : Users]]

TypeInv ==
  /\ text \in [Replicas -> SUBSET Symbols] /\ pars \in [Replicas -> SUBSET Paragraphs]
  /\ mark \in [Replicas -> Marks] /\ comments \in [Replicas -> SUBSET Comment]
  /\ inFile \in SUBSET Users /\ known \in SUBSET Users
  /\ window \in [Users -> Windows] /\ listed \in [Users -> SUBSET Users]
  /\ lastNo \in [Users -> Nat]
  /\ up \in [Users -> Seq(UpMsg)] /\ down \in [Users -> Seq(DownMsg)]
  /\ now \in Nat /\ made \in SUBSET Paragraphs

\* What a client has asked for, and what is on the way to it.
IsEdit(m) == m.type \in {"ins", "del", "upd", "new", "words", "erase"}
Gets(u) == {i \in DOMAIN up[u] : up[u][i].type = "get"}
Files(u) == {i \in DOMAIN down[u] : down[u][i].type = "file"}

Session(u) ==
  /\ Ended(u) => down[u] = << >>
  /\ window[u] = "opening" =>
        \/ Files(u) = {} /\ up[u] # << >> /\ Gets(u) = {Len(up[u])}
        \/ u \in inFile /\ up[u] = << >> /\ \E k \in DOMAIN down[u] : Files(u) = {k}
  /\ window[u] \in {"closed", "open", "left"} => Files(u) = {} /\ Gets(u) = {}
  /\ window[u] = "open" => u \in inFile /\ \A i \in DOMAIN up[u] : IsEdit(up[u][i])

\* The paragraphs a message speaks of, and those it brings.
Mentions(m) == IF m.type \in {"ins", "del", "file"} THEN m.pars ELSE {}
Brings(m) == IF m.type = "ins" THEN m.pars ELSE {}

AllMade ==
  /\ \A r \in Replicas : pars[r] \subseteq made
  /\ \A u \in Users : \A i \in DOMAIN up[u] : Mentions(up[u][i]) \subseteq made
  /\ \A u \in Users : \A i \in DOMAIN down[u] : Mentions(down[u][i]) \subseteq made

\* What a user's insertion on the way to the server brings is known to no other
\* replica, and to no message but later ones of the user.
Private(v) ==
  \A i \in DOMAIN up[v] : \A p \in Brings(up[v][i]) :
     /\ \A r \in Replicas \ {v} : p \notin pars[r]
     /\ \A u \in Users : \A j \in DOMAIN down[u] : p \notin Mentions(down[u][j])
     /\ \A u \in Users \ {v} : \A j \in DOMAIN up[u] : p \notin Mentions(up[u][j])
     /\ \A j \in 1 .. (i - 1) : p \notin Mentions(up[v][j])

\* What an insertion on the way to an editor brings is new to it.
Brought(u) ==
  \A i \in DOMAIN down[u] : \A p \in Brings(down[u][i]) :
     p \notin pars[u] /\ \A j \in 1 .. (i - 1) : p \notin Mentions(down[u][j])

\* The numbers and the authors of the comments.
Counted(c) == c.no <= lastNo[c.author]
CommentsOf(m) == IF AboutComment(m) THEN {m.comment} ELSE IF m.type = "file" THEN m.comments ELSE {}
Numbered ==
  /\ \A r \in Replicas : \A c \in comments[r] : Counted(c)
  /\ \A u \in Users : \A i \in DOMAIN up[u] : \A c \in CommentsOf(up[u][i]) : Counted(c)
  /\ \A u \in Users : \A i \in DOMAIN down[u] : \A c \in CommentsOf(down[u][i]) : Counted(c)
Authors(u) ==
  /\ \A i \in DOMAIN up[u] : AboutComment(up[u][i]) => up[u][i].comment.author = u
  /\ \A i \in DOMAIN down[u] : AboutComment(down[u][i]) => down[u][i].comment.author # u

\* An editor the server writes to follows it, and changes and deletions of
\* comments meet them.
Follows(u) == u \in inFile /\ ~ Ended(u) => After(Held(u), down[u]) = After(Held(Server), up[u])
Alters(m) == m.type \in {"words", "erase"}
Meets(X, q) ==
  \A i \in DOMAIN q : Alters(q[i]) => Has(Steps(X, q)[i - 1].comments, q[i].comment)

FollowInv ==
  /\ AllMade /\ Numbered
  /\ \A u \in Users : /\ Session(u) /\ Private(u) /\ Brought(u) /\ Authors(u) /\ Follows(u)
                      /\ Meets(Held(Server), up[u]) /\ Meets(Held(u), down[u])

IInv == TypeInv /\ FollowInv

-----------------------------------------------------------------------------
\* The channels, and the notions above, at a glance.
LEMMA Channels ==
  ASSUME TypeInv, NEW u \in Users
  PROVE  /\ up[u] \in Seq(UpMsg) /\ Len(up[u]) \in Nat /\ DOMAIN up[u] = 1 .. Len(up[u])
         /\ down[u] \in Seq(DownMsg) /\ Len(down[u]) \in Nat /\ DOMAIN down[u] = 1 .. Len(down[u])
         /\ u \in Replicas /\ Server \in Replicas /\ u # Server
  BY UsersAssumption DEF TypeInv, Replicas, Server

\* The messages of a client.
LEMMA UpFacts ==
  ASSUME NEW m \in UpMsg
  PROVE  /\ m.type \in {"ins", "del", "upd", "new", "words", "erase", "get", "close", "remove"}
         /\ m.type \in {"ins", "del"} => m.syms \in SUBSET Symbols /\ m.pars \in SUBSET Paragraphs
         /\ m.type = "upd" => m.syms \in SUBSET Symbols /\ m.fmt \in Formats /\ m.at \in Nat
         /\ AboutComment(m) => m.comment \in Comment
         /\ CommentsOf(m) \subseteq Comment /\ Mentions(m) \subseteq Paragraphs
  BY DEF UpMsg, AboutComment, CommentsOf, Mentions

\* The messages of the server.
LEMMA DownFacts ==
  ASSUME NEW m \in DownMsg
  PROVE  /\ m.type \in {"ins", "del", "upd", "new", "words", "erase", "file"}
         /\ m.type # "file" => m.user \in Users
         /\ m.type \in {"ins", "del"} => m.syms \in SUBSET Symbols /\ m.pars \in SUBSET Paragraphs
         /\ m.type = "upd" => m.syms \in SUBSET Symbols /\ m.fmt \in Formats /\ m.at \in Nat
         /\ AboutComment(m) => m.comment \in Comment
         /\ m.type = "file" => /\ m.text \in SUBSET Symbols /\ m.pars \in SUBSET Paragraphs
                               /\ m.fmts \in [Symbols -> Formats]
                               /\ m.comments \in SUBSET Comment /\ m.known \in SUBSET Users
         /\ CommentsOf(m) \subseteq Comment /\ Mentions(m) \subseteq Paragraphs
  BY DEF DownMsg, AboutComment, CommentsOf, Mentions

(***************************************************************************)
(* A user writes messages that do to the server what was done to the editor. *)
(***************************************************************************)
Utters(u, msgs) ==
  /\ window[u] = "open" /\ msgs \in Seq(UpMsg)
  /\ up' = [up EXCEPT ![u] = @ \o msgs]
  /\ pars' = [pars EXCEPT ![u] = After(Held(u), msgs).pars]
  /\ comments' = [comments EXCEPT ![u] = After(Held(u), msgs).comments]
  /\ window' = window /\ inFile' = inFile /\ down' = down
  /\ made \subseteq made'
  /\ lastNo' \in [Users -> Nat] /\ \A v \in Users : lastNo[v] <= lastNo'[v]
  /\ pars'[u] \subseteq made' /\ \A p \in pars'[u] : p \in pars[u] \/ p \notin made
  /\ \A c \in comments'[u] : Counted(c)'
  /\ Meets(Held(u), msgs)
  /\ \A k \in 1 .. Len(msgs) :
        /\ IsEdit(msgs[k])
        /\ msgs[k].type = "del" => msgs[k].pars \subseteq pars[u]
        /\ msgs[k].type = "ins" => msgs[k].pars \cap made = {} /\ msgs[k].pars \subseteq made'
        /\ msgs[k].type = "ins" => \A j \in 1 .. (k - 1) : msgs[j].type # "ins"
        /\ AboutComment(msgs[k]) => msgs[k].comment.author = u /\ Counted(msgs[k].comment)'

\* The user's channel after it has sent msgs: the other channels are the same.
LEMMA UtteredUp ==
  ASSUME TypeInv, NEW u \in Users, NEW msgs, Utters(u, msgs)
  PROVE  /\ \A v \in Users \ {u} : up'[v] = up[v]
         /\ Len(up[u]) \in Nat /\ Len(msgs) \in Nat
         /\ DOMAIN up'[u] = 1 .. (Len(up[u]) + Len(msgs))
         /\ IsConcat(up'[u], up[u], msgs)
         /\ \A i \in DOMAIN up[u] : /\ up'[u][i] = up[u][i] /\ i \in Nat
                                    /\ \A j \in 1 .. i : j \in DOMAIN up[u]
         /\ \A k \in 1 .. Len(msgs) : up'[u][Len(up[u]) + k] = msgs[k]
         /\ \A i \in DOMAIN up'[u] : \/ i \in DOMAIN up[u]
                                     \/ \E k \in 1 .. Len(msgs) : i = Len(up[u]) + k
<1>1. /\ up[u] \in Seq(UpMsg) /\ msgs \in Seq(UpMsg) /\ up'[u] = up[u] \o msgs
      /\ DOMAIN up[u] = 1 .. Len(up[u])
  BY Channels DEF Utters, TypeInv
<1>2. \A v \in Users \ {u} : up'[v] = up[v]
  BY DEF Utters, TypeInv
<1>. DEFINE q == up[u]
<1>. HIDE DEF q
<1>3. /\ q \o msgs \in Seq(UpMsg) /\ Len(q \o msgs) = Len(q) + Len(msgs) /\ Len(q) \in Nat /\ Len(msgs) \in Nat
      /\ \A i \in 1 .. Len(q) : (q \o msgs)[i] = q[i]
      /\ \A i \in 1 .. Len(msgs) : (q \o msgs)[Len(q) + i] = msgs[i]
  <2>1. q \in Seq(UpMsg) /\ msgs \in Seq(UpMsg)
    BY <1>1 DEF q
  <2>2. QED
    BY <2>1, ConcatFacts DEF IsConcat
<1>4. DOMAIN (q \o msgs) = 1 .. (Len(q) + Len(msgs))
  BY <1>3
<1>5. ASSUME NEW i \in 1 .. (Len(q) + Len(msgs))
      PROVE  i \in 1 .. Len(q) \/ \E k \in 1 .. Len(msgs) : i = Len(q) + k
  <2>1. CASE i > Len(q)
    <3>1. i - Len(q) \in 1 .. Len(msgs) /\ i = Len(q) + (i - Len(q))
      BY <1>3, <2>1
    <3>2. QED
      BY <3>1
  <2>2. QED
    BY <1>3, <2>1
<1>6. QED
  BY <1>1, <1>2, <1>3, <1>4, <1>5 DEF q, IsConcat

\* No paragraph is used by two, also after an editor has made new ones.
LEMMA UtteredMade ==
  ASSUME TypeInv, AllMade, NEW u \in Users, NEW msgs, Utters(u, msgs)
  PROVE  AllMade'
<1>0. /\ \A w \in Users \ {u} : up'[w] = up[w]
      /\ Len(up[u]) \in Nat /\ Len(msgs) \in Nat /\ DOMAIN up[u] = 1 .. Len(up[u])
      /\ DOMAIN up'[u] = 1 .. (Len(up[u]) + Len(msgs))
      /\ \A i \in DOMAIN up[u] : /\ up'[u][i] = up[u][i] /\ i \in Nat
                                 /\ \A j \in 1 .. i : j \in DOMAIN up[u]
      /\ \A k \in 1 .. Len(msgs) : up'[u][Len(up[u]) + k] = msgs[k]
      /\ \A i \in DOMAIN up'[u] : \/ i \in DOMAIN up[u]
                                  \/ \E k \in 1 .. Len(msgs) : i = Len(up[u]) + k
  BY UtteredUp, Channels
<1>1. \A r \in Replicas : pars'[r] \subseteq made'
  BY DEF Utters, AllMade, TypeInv
<1>2. ASSUME NEW v \in Users, NEW i \in DOMAIN up'[v] PROVE Mentions(up'[v][i]) \subseteq made'
  <2>1. CASE v # u
    BY <1>0, <1>2, <2>1 DEF Utters, AllMade
  <2>2. CASE v = u /\ i \in DOMAIN up[u]
    BY <1>0, <1>2, <2>2 DEF Utters, AllMade
  <2>3. CASE v = u /\ i \notin DOMAIN up[u]
    <3>1. PICK k \in 1 .. Len(msgs) : up'[v][i] = msgs[k]
      BY <1>0, <1>2, <2>3
    <3>2. IsEdit(msgs[k])
      BY <3>1 DEF Utters
    <3>3. CASE msgs[k].type = "ins"
      BY <3>1, <3>3 DEF Utters, Mentions
    <3>4. CASE msgs[k].type = "del"
      <4>1. msgs[k].pars \subseteq pars[u] /\ pars[u] \subseteq made
        BY <3>1, <3>4, Channels DEF Utters, AllMade
      <4>2. QED
        BY <3>1, <3>4, <4>1 DEF Utters, Mentions
    <3>5. QED
      BY <3>1, <3>2, <3>3, <3>4 DEF IsEdit, Mentions
  <2>4. QED
    BY <2>1, <2>2, <2>3
<1>3. \A v \in Users : \A i \in DOMAIN down'[v] : Mentions(down'[v][i]) \subseteq made'
  BY DEF Utters, AllMade
<1>4. QED
  BY <1>1, <1>2, <1>3 DEF AllMade

\* A paragraph a user's message brings is in nobody else's messages or File: the new ones are.
LEMMA UtteredPrivate ==
  ASSUME TypeInv, AllMade, NEW u \in Users, NEW msgs, Utters(u, msgs), NEW v \in Users, Private(v)
  PROVE  Private(v)'
<1>0. /\ \A w \in Users \ {u} : up'[w] = up[w]
      /\ Len(up[u]) \in Nat /\ Len(msgs) \in Nat /\ DOMAIN up[u] = 1 .. Len(up[u])
      /\ DOMAIN up'[u] = 1 .. (Len(up[u]) + Len(msgs))
      /\ \A i \in DOMAIN up[u] : /\ up'[u][i] = up[u][i] /\ i \in Nat
                                 /\ \A j \in 1 .. i : j \in DOMAIN up[u]
      /\ \A k \in 1 .. Len(msgs) : up'[u][Len(up[u]) + k] = msgs[k]
      /\ \A i \in DOMAIN up'[u] : \/ i \in DOMAIN up[u]
                                  \/ \E k \in 1 .. Len(msgs) : i = Len(up[u]) + k
  BY UtteredUp, Channels
<1>1. SUFFICES ASSUME NEW i \in DOMAIN up'[v], NEW p \in Brings(up'[v][i])
               PROVE  /\ \A r \in Replicas \ {v} : p \notin pars'[r]
                      /\ \A w \in Users : \A j \in DOMAIN down'[w] : p \notin Mentions(down'[w][j])
                      /\ \A w \in Users \ {v} : \A j \in DOMAIN up'[w] : p \notin Mentions(up'[w][j])
                      /\ \A j \in 1 .. (i - 1) : p \notin Mentions(up'[v][j])
  BY DEF Private
<1>2. /\ down' = down /\ \A r \in Replicas \ {u} : pars'[r] = pars[r]
      /\ \A x \in pars'[u] : x \in pars[u] \/ x \notin made
      /\ u \in Replicas
  BY Channels DEF Utters, TypeInv
<1>3. CASE i \in DOMAIN up[v] /\ up'[v][i] = up[v][i] /\ \A j \in 1 .. (i - 1) : up'[v][j] = up[v][j]
  <2>1. /\ \A r \in Replicas \ {v} : p \notin pars[r]
        /\ \A w \in Users : \A j \in DOMAIN down[w] : p \notin Mentions(down[w][j])
        /\ \A w \in Users \ {v} : \A j \in DOMAIN up[w] : p \notin Mentions(up[w][j])
        /\ \A j \in 1 .. (i - 1) : p \notin Mentions(up[v][j])
    BY <1>1, <1>3 DEF Private
  <2>2. p \in made
    BY <1>1, <1>3 DEF AllMade, Brings, Mentions
  <2>3. ASSUME NEW w \in Users \ {v}, NEW j \in DOMAIN up'[w] PROVE p \notin Mentions(up'[w][j])
    <3>1. CASE w # u
      BY <2>1, <2>3, <3>1, <1>0
    <3>2. CASE w = u /\ j \in DOMAIN up[u]
      BY <2>1, <2>3, <3>2, <1>0
    <3>3. CASE w = u /\ j \notin DOMAIN up[u]
      <4>1. PICK k \in 1 .. Len(msgs) : up'[w][j] = msgs[k]
        BY <1>0, <2>3, <3>3
      <4>2. p \notin pars[u]
        BY <1>2, <2>1, <2>3, <3>3
      <4>3. IsEdit(msgs[k])
        BY <4>1 DEF Utters
      <4>4. QED
        BY <2>2, <4>1, <4>2, <4>3 DEF Utters, Mentions, IsEdit
    <3>4. QED
      BY <3>1, <3>2, <3>3
  <2>4. QED
    BY <1>2, <1>3, <2>1, <2>2, <2>3
<1>4. CASE v = u /\ i \notin DOMAIN up[u]
  <2>1. PICK k \in 1 .. Len(msgs) : up'[v][i] = msgs[k] /\ i = Len(up[u]) + k /\ Len(up[u]) \in Nat
    BY <1>1, <1>4, <1>0
  <2>2. p \notin made /\ msgs[k].type = "ins"
    BY <1>1, <2>1 DEF Utters, Brings
  <2>3. \A r \in Replicas \ {v} : p \notin pars'[r]
    BY <1>2, <1>4, <2>2 DEF AllMade
  <2>4. \A w \in Users : \A j \in DOMAIN down'[w] : p \notin Mentions(down'[w][j])
    BY <1>2, <2>2 DEF AllMade
  <2>5. \A w \in Users \ {v} : \A j \in DOMAIN up'[w] : p \notin Mentions(up'[w][j])
    BY <1>4, <2>2, <1>0 DEF AllMade
  <2>6. ASSUME NEW j \in 1 .. (i - 1) PROVE p \notin Mentions(up'[v][j])
    <3>1. CASE j \in DOMAIN up[u]
      BY <1>4, <2>2, <3>1, <1>0 DEF AllMade
    <3>2. CASE j \notin DOMAIN up[u]
      <4>1. PICK l \in 1 .. Len(msgs) : l \in 1 .. (k - 1) /\ up'[v][j] = msgs[l]
        <5>1. j \in DOMAIN up'[u] /\ j <= Len(up[u]) + (k - 1)
          BY <1>0, <2>1
        <5>2. PICK l \in 1 .. Len(msgs) : j = Len(up[u]) + l
          BY <1>0, <3>2, <5>1
        <5>3. l \in 1 .. (k - 1)
          BY <2>1, <5>1, <5>2
        <5>4. QED
          BY <1>0, <1>4, <5>2, <5>3
      <4>2. msgs[l].type # "ins" /\ IsEdit(msgs[l])
        BY <2>1, <2>2, <4>1 DEF Utters
      <4>3. msgs[l].type = "del" => msgs[l].pars \subseteq made
        BY <4>1, Channels DEF Utters, AllMade
      <4>4. QED
        BY <2>2, <4>1, <4>2, <4>3 DEF Mentions, IsEdit
    <3>3. QED
      BY <3>1, <3>2
  <2>7. QED
    BY <2>3, <2>4, <2>5, <2>6
<1>5. QED
  <2>1. v # u => i \in DOMAIN up[v] /\ up'[v] = up[v]
    BY <1>1, <1>0
  <2>2. v = u /\ i \in DOMAIN up[u] => /\ up'[v][i] = up[v][i]
                                       /\ \A j \in 1 .. (i - 1) : up'[v][j] = up[v][j]
    <3>1. i \in DOMAIN up[u] => /\ up'[u][i] = up[u][i] /\ i \in Nat
                                /\ \A j \in 1 .. i : j \in DOMAIN up[u]
      BY <1>0
    <3>2. i \in Nat => \A j \in 1 .. (i - 1) : j \in 1 .. i
      OBVIOUS
    <3>3. QED
      BY <1>0, <3>1, <3>2
  <2>3. QED
    BY <1>3, <1>4, <2>1, <2>2

\* What the server sends an editor is not what the editor brings itself.
LEMMA UtteredBrought ==
  ASSUME TypeInv, AllMade, NEW u \in Users, NEW msgs, Utters(u, msgs), NEW v \in Users, Brought(v)
  PROVE  Brought(v)'
<1>1. /\ down' = down /\ (v # u => pars'[v] = pars[v])
      /\ \A x \in pars'[u] : x \in pars[u] \/ x \notin made
  BY Channels DEF Utters, TypeInv
<1>2. \A i \in DOMAIN down[v] : \A p \in Brings(down[v][i]) : p \in made
  BY DEF AllMade, Brings, Mentions
<1>3. QED
  BY <1>1, <1>2 DEF Brought

\* Every comment has a number up to its author's last one.
LEMMA UtteredNumbered ==
  ASSUME TypeInv, Numbered, NEW u \in Users, NEW msgs, Utters(u, msgs)
  PROVE  Numbered'
<1>0. /\ \A w \in Users \ {u} : up'[w] = up[w]
      /\ Len(up[u]) \in Nat /\ Len(msgs) \in Nat /\ DOMAIN up[u] = 1 .. Len(up[u])
      /\ DOMAIN up'[u] = 1 .. (Len(up[u]) + Len(msgs))
      /\ \A i \in DOMAIN up[u] : /\ up'[u][i] = up[u][i] /\ i \in Nat
                                 /\ \A j \in 1 .. i : j \in DOMAIN up[u]
      /\ \A k \in 1 .. Len(msgs) : up'[u][Len(up[u]) + k] = msgs[k]
      /\ \A i \in DOMAIN up'[u] : \/ i \in DOMAIN up[u]
                                  \/ \E k \in 1 .. Len(msgs) : i = Len(up[u]) + k
  BY UtteredUp, Channels
<1>1. ASSUME NEW c \in Comment, Counted(c) PROVE Counted(c)'
  BY <1>1 DEF Counted, Utters, Comment, TypeInv
<1>2. ASSUME NEW r \in Replicas, NEW c \in comments'[r] PROVE Counted(c)'
  BY <1>1, <1>2, Channels DEF Utters, Numbered, TypeInv
<1>3. ASSUME NEW v \in Users, NEW i \in DOMAIN up[v], NEW c \in CommentsOf(up[v][i]) PROVE Counted(c)'
  <2>1. up[v][i] \in UpMsg /\ Counted(c)
    BY <1>3, Channels DEF Numbered
  <2>2. QED
    BY <1>1, <1>3, <2>1, UpFacts
<1>4. ASSUME NEW v \in Users, NEW i \in DOMAIN up'[v], NEW c \in CommentsOf(up'[v][i]) PROVE Counted(c)'
  <2>1. CASE v # u \/ i \in DOMAIN up[u]
    BY <1>0, <1>3, <1>4, <2>1
  <2>2. CASE v = u /\ i \notin DOMAIN up[u]
    <3>1. PICK k \in 1 .. Len(msgs) : up'[v][i] = msgs[k]
      BY <1>0, <1>4, <2>2
    <3>2. IsEdit(msgs[k]) /\ (AboutComment(msgs[k]) => Counted(msgs[k].comment)')
      BY <3>1 DEF Utters
    <3>3. QED
      BY <1>4, <3>1, <3>2 DEF CommentsOf, IsEdit
  <2>3. QED
    BY <2>1, <2>2
<1>5. ASSUME NEW v \in Users, NEW i \in DOMAIN down'[v], NEW c \in CommentsOf(down'[v][i]) PROVE Counted(c)'
  <2>1. down'[v] = down[v]
    BY DEF Utters
  <2>2. down[v][i] \in DownMsg /\ Counted(c)
    BY <1>5, <2>1, Channels DEF Numbered
  <2>3. QED
    BY <1>1, <1>5, <2>1, <2>2, DownFacts
<1>6. QED
  BY <1>2, <1>4, <1>5 DEF Numbered

\* An editor sends its own user's comments, and is sent those of others.
LEMMA UtteredAuthors ==
  ASSUME TypeInv, NEW u \in Users, NEW msgs, Utters(u, msgs), NEW v \in Users, Authors(v)
  PROVE  Authors(v)'
<1>0. /\ \A w \in Users \ {u} : up'[w] = up[w]
      /\ Len(up[u]) \in Nat /\ Len(msgs) \in Nat /\ DOMAIN up[u] = 1 .. Len(up[u])
      /\ DOMAIN up'[u] = 1 .. (Len(up[u]) + Len(msgs))
      /\ \A i \in DOMAIN up[u] : /\ up'[u][i] = up[u][i] /\ i \in Nat
                                 /\ \A j \in 1 .. i : j \in DOMAIN up[u]
      /\ \A k \in 1 .. Len(msgs) : up'[u][Len(up[u]) + k] = msgs[k]
      /\ \A i \in DOMAIN up'[u] : \/ i \in DOMAIN up[u]
                                  \/ \E k \in 1 .. Len(msgs) : i = Len(up[u]) + k
  BY UtteredUp, Channels
<1>1. ASSUME NEW i \in DOMAIN up'[v], AboutComment(up'[v][i]) PROVE up'[v][i].comment.author = v
  <2>1. CASE v # u \/ i \in DOMAIN up[u]
    BY <1>0, <1>1, <2>1 DEF Authors
  <2>2. CASE v = u /\ i \notin DOMAIN up[u]
    <3>1. PICK k \in 1 .. Len(msgs) : up'[v][i] = msgs[k]
      BY <1>0, <1>1, <2>2
    <3>2. QED
      BY <1>1, <2>2, <3>1 DEF Utters
  <2>3. QED
    BY <2>1, <2>2
<1>2. down'[v] = down[v]
  BY DEF Utters
<1>3. QED
  BY <1>1, <1>2 DEF Authors, AboutComment

\* What a user writes is apart from what is on the way to the editor.
LEMMA UtteredApart ==
  ASSUME TypeInv, AllMade, NEW u \in Users, NEW msgs, Utters(u, msgs), Session(u), Brought(u),
         Authors(u)
  PROVE  \A k \in 1 .. Len(msgs), j \in 1 .. Len(down[u]) : Apart(msgs[k], down[u][j])
<1>. TAKE k \in 1 .. Len(msgs), j \in 1 .. Len(down[u])
<1>1. j \in DOMAIN down[u] /\ u \in Replicas
  BY Channels
<1>2. down[u][j].type # "file" /\ msgs[k].type # "file"
  BY <1>1 DEF Session, Utters, Files, IsEdit
<1>3. msgs[k].type = "ins" /\ down[u][j].type = "del" => msgs[k].pars \cap down[u][j].pars = {}
  BY <1>1 DEF Utters, AllMade, Mentions
<1>4. msgs[k].type = "del" /\ down[u][j].type = "ins" => msgs[k].pars \cap down[u][j].pars = {}
  BY <1>1 DEF Utters, Brought, Brings
<1>5. QED
  BY <1>1, <1>2, <1>3, <1>4 DEF Apart, Utters, Authors

\* The same, for any number of the new messages and of those on the way to the editor.
LEMMA UtteredCross ==
  ASSUME TypeInv, AllMade, NEW u \in Users, NEW msgs, Utters(u, msgs), Session(u), Brought(u),
         Authors(u)
  PROVE  \A k \in 0 .. Len(msgs), i \in 0 .. Len(down[u]) :
            Steps(Steps(Held(u), msgs)[k], down[u])[i] = Steps(Steps(Held(u), down[u])[i], msgs)[k]
<1>. DEFINE X == Held(u)
            q == down[u]
<1>1. Len(msgs) \in Nat /\ Len(q) \in Nat /\ Len(msgs) \in 0 .. Len(msgs) /\ Len(q) \in 0 .. Len(q)
  BY Channels, UtteredUp
<1>2. \A k \in 1 .. Len(msgs), j \in 1 .. Len(q) : Apart(msgs[k], q[j])
  BY UtteredApart
<1>. HIDE DEF X, q
<1>3. \A k \in 0 .. Len(msgs), i \in 0 .. Len(q) :
         Steps(Steps(X, msgs)[k], q)[i] = Steps(Steps(X, q)[i], msgs)[k]
  BY <1>1, <1>2, StepsCross
<1>4. QED
  BY <1>3 DEF X, q

\* An editor that changes its File and sends the change still follows the server.
LEMMA UtteredFollows ==
  ASSUME TypeInv, AllMade, NEW u \in Users, NEW msgs, Utters(u, msgs), Session(u), Brought(u),
         Authors(u), NEW v \in Users, Follows(v)
  PROVE  Follows(v)'
<1>1. /\ inFile' = inFile /\ Ended(v)' = Ended(v) /\ down'[v] = down[v] /\ Held(Server)' = Held(Server)
      /\ v # u => up'[v] = up[v] /\ Held(v)' = Held(v)
  BY Channels, UtteredUp DEF Utters, Ended, Held, TypeInv
<1>2. CASE v # u
  BY <1>1, <1>2 DEF Follows
<1>3. CASE v = u
  <2>. DEFINE X == Held(u)
              q == down[u]
              Y == After(Held(Server), up[u])
  <2>1. Held(u)' = After(X, msgs)
    <3>1. /\ u \in Replicas /\ pars'[u] = After(X, msgs).pars
          /\ comments'[u] = After(X, msgs).comments /\ Len(msgs) \in Nat
      BY Channels, UtteredUp DEF Utters, TypeInv
    <3>2. After(X, msgs) = [pars |-> After(X, msgs).pars, comments |-> After(X, msgs).comments]
      BY <3>1, AfterRecord
    <3>3. QED
      BY <3>1, <3>2 DEF Held
  <2>2. u \in inFile /\ ~ Ended(u)
    BY DEF Session, Utters, Ended
  <2>3. After(X, q) = Y
    BY <1>3, <2>2 DEF Follows
  <2>4. After(Held(Server), up'[u]) = After(Y, msgs)
    <3>. DEFINE Z == Held(Server)
    <3>1. IsConcat(up'[u], up[u], msgs) /\ Len(up[u]) \in Nat /\ Len(msgs) \in Nat
      BY UtteredUp
    <3>. HIDE DEF Z
    <3>2. After(Z, up'[u]) = After(After(Z, up[u]), msgs)
      BY <3>1, StepsConcat
    <3>3. QED
      BY <3>2 DEF Z
  <2>5. After(After(X, msgs), q) = After(After(X, q), msgs)
    <3>1. Len(msgs) \in Nat /\ Len(q) \in Nat /\ Len(msgs) \in 0 .. Len(msgs) /\ Len(q) \in 0 .. Len(q)
      BY Channels, UtteredUp
    <3>2. \A k \in 0 .. Len(msgs), i \in 0 .. Len(q) :
             Steps(Steps(X, msgs)[k], q)[i] = Steps(Steps(X, q)[i], msgs)[k]
      BY UtteredCross
    <3>3. QED
      BY <3>1, <3>2 DEF After
  <2>. HIDE DEF Y, X
  <2>6. QED
    BY <1>1, <1>3, <2>1, <2>3, <2>4, <2>5 DEF Follows, X
<1>4. QED
  BY <1>2, <1>3

\* The changes of comments it sends will find their comments on the server.
LEMMA UtteredMeetsUp ==
  ASSUME TypeInv, AllMade, NEW u \in Users, NEW msgs, Utters(u, msgs), Session(u), Brought(u),
         Authors(u), Follows(u), NEW v \in Users, Meets(Held(Server), up[v])
  PROVE  Meets(Held(Server), up[v])'
<1>0. /\ \A w \in Users \ {u} : up'[w] = up[w]
      /\ Len(up[u]) \in Nat /\ Len(msgs) \in Nat /\ DOMAIN up[u] = 1 .. Len(up[u])
      /\ DOMAIN up'[u] = 1 .. (Len(up[u]) + Len(msgs))
      /\ \A i \in DOMAIN up[u] : /\ up'[u][i] = up[u][i] /\ i \in Nat
                                 /\ \A j \in 1 .. i : j \in DOMAIN up[u]
      /\ \A k \in 1 .. Len(msgs) : up'[u][Len(up[u]) + k] = msgs[k]
      /\ \A i \in DOMAIN up'[u] : \/ i \in DOMAIN up[u]
                                  \/ \E k \in 1 .. Len(msgs) : i = Len(up[u]) + k
  BY UtteredUp, Channels
<1>1. Held(Server)' = Held(Server)
  BY Channels DEF Utters, Held, TypeInv
<1>. DEFINE Z == Held(Server)
            X == Held(u)
            q == down[u]
<1>2. CASE v # u
  BY <1>0, <1>1, <1>2 DEF Meets, Has, Alters
<1>3. CASE v = u
  <2>1. IsConcat(up'[u], up[u], msgs) /\ Len(q) \in Nat
    BY UtteredUp, Channels
  <2>2. /\ \A i \in 0 .. Len(up[u]) : Steps(Z, up'[u])[i] = Steps(Z, up[u])[i]
        /\ \A k \in 0 .. Len(msgs) : Steps(Z, up'[u])[Len(up[u]) + k] = Steps(After(Z, up[u]), msgs)[k]
    <3>. HIDE DEF Z, X, q
    <3>1. Len(up[u]) \in Nat /\ Len(msgs) \in Nat
      BY <1>0
    <3>2. \A i \in 0 .. Len(up[u]) : Steps(Z, up'[u])[i] = Steps(Z, up[u])[i]
      BY <2>1, <3>1, StepsConcat, SMTT(60)
    <3>3. GoesOn(Z, up'[u], up[u], msgs)
      BY <2>1, <3>1, StepsGoOn
    <3>4. QED
      BY <3>2, <3>3 DEF GoesOn
  <2>3. After(Z, up[u]) = Steps(X, q)[Len(q)]
    BY DEF Follows, Session, Utters, Ended, After
  <2>4. \A k \in 1 .. Len(msgs), j \in 1 .. Len(q) : Apart(msgs[k], q[j])
    BY UtteredApart
  <2>5. \A k \in 0 .. Len(msgs), i \in 0 .. Len(q) :
             Steps(Steps(X, msgs)[k], q)[i] = Steps(Steps(X, q)[i], msgs)[k]
    BY UtteredCross
  <2>6. ASSUME NEW i \in DOMAIN up'[u], Alters(up'[u][i])
        PROVE  Has(Steps(Z, up'[u])[i - 1].comments, up'[u][i].comment)
    <3>1. CASE i \in DOMAIN up[u]
      <4>1. i - 1 \in 0 .. Len(up[u]) /\ up'[u][i] = up[u][i]
        BY <1>0, <3>1
      <4>2. QED
        BY <1>3, <2>2, <2>6, <3>1, <4>1 DEF Meets
    <3>2. CASE i \notin DOMAIN up[u]
      <4>1. PICK k \in 1 .. Len(msgs) : i = Len(up[u]) + k
        BY <1>0, <2>6, <3>2
      <4>. DEFINE c == msgs[k].comment
      <4>2. up'[u][i] = msgs[k] /\ Alters(msgs[k]) /\ k - 1 \in 0 .. Len(msgs)
            /\ i - 1 = Len(up[u]) + (k - 1)
        BY <1>0, <2>6, <4>1
      <4>3. Has(Steps(X, msgs)[k - 1].comments, c)
        BY <4>2 DEF Utters, Meets
      <4>4. \A j \in 1 .. Len(q) : /\ q[j].type # "file"
                                   /\ AboutComment(q[j]) => q[j].comment.author # c.author
        BY <2>4, <4>2 DEF Apart, Alters, AboutComment
      <4>5. Has(Steps(Steps(X, msgs)[k - 1], q)[Len(q)].comments, c)
        <5>. DEFINE Y == Steps(X, msgs)[k - 1]
        <5>1. Len(q) \in 0 .. Len(q)
          BY <2>1
        <5>. HIDE DEF Y, q, c
        <5>2. Has(Steps(Y, q)[Len(q)].comments, c) <=> Has(Y.comments, c)
          BY <2>1, <4>4, <5>1, KeyKept
        <5>3. QED
          BY <4>3, <5>2 DEF Y
      <4>6. Steps(Z, up'[u])[i - 1] = Steps(Steps(X, msgs)[k - 1], q)[Len(q)]
        <5>1. Len(q) \in 0 .. Len(q)
          BY <2>1
        <5>2. Steps(Z, up'[u])[i - 1] = Steps(After(Z, up[u]), msgs)[k - 1]
          BY <2>2, <4>2
        <5>3. QED
          BY <2>3, <2>5, <4>2, <5>1, <5>2
      <4>7. QED
        BY <4>2, <4>5, <4>6
    <3>3. QED
      BY <3>1, <3>2
  <2>7. QED
    BY <1>1, <1>3, <2>6 DEF Meets, Alters, Has
<1>4. QED
  BY <1>2, <1>3

\* The changes on the way to it will still find their comments.
LEMMA UtteredMeetsDown ==
  ASSUME TypeInv, AllMade, NEW u \in Users, NEW msgs, Utters(u, msgs), Session(u), Brought(u),
         Authors(u), NEW v \in Users, Meets(Held(v), down[v])
  PROVE  Meets(Held(v), down[v])'
<1>1. down'[v] = down[v] /\ (v # u => Held(v)' = Held(v))
  BY Channels DEF Utters, Held, TypeInv
<1>. DEFINE X == Held(u)
            q == down[u]
<1>2. CASE v # u
  BY <1>1, <1>2 DEF Meets, Has, Alters
<1>3. CASE v = u
  <2>1. Held(u)' = Steps(X, msgs)[Len(msgs)] /\ Len(msgs) \in Nat /\ Len(q) \in Nat
        /\ Len(msgs) \in 0 .. Len(msgs)
    <3>1. /\ u \in Replicas /\ pars'[u] = After(X, msgs).pars
          /\ comments'[u] = After(X, msgs).comments /\ Len(msgs) \in Nat /\ Len(q) \in Nat
      BY Channels, UtteredUp DEF Utters, TypeInv
    <3>2. After(X, msgs) = [pars |-> After(X, msgs).pars, comments |-> After(X, msgs).comments]
      BY <3>1, AfterRecord
    <3>3. Held(u)' = After(X, msgs)
      BY <3>1, <3>2 DEF Held
    <3>4. QED
      BY <3>1, <3>3 DEF After
  <2>2. \A k \in 1 .. Len(msgs), j \in 1 .. Len(q) : Apart(msgs[k], q[j])
    BY UtteredApart
  <2>3. \A k \in 0 .. Len(msgs), i \in 0 .. Len(q) :
             Steps(Steps(X, msgs)[k], q)[i] = Steps(Steps(X, q)[i], msgs)[k]
    BY UtteredCross
  <2>4. ASSUME NEW i \in DOMAIN q, Alters(q[i])
        PROVE  Has(Steps(Steps(X, msgs)[Len(msgs)], q)[i - 1].comments, q[i].comment)
    <3>. DEFINE c == q[i].comment
                Y == Steps(X, q)[i - 1]
    <3>1. i \in 1 .. Len(q) /\ i - 1 \in 0 .. Len(q)
      BY <2>1, <2>4, Channels
    <3>2. Has(Y.comments, c)
      BY <1>3, <2>4 DEF Meets
    <3>3. \A k \in 1 .. Len(msgs) : /\ msgs[k].type # "file"
                                    /\ AboutComment(msgs[k]) => msgs[k].comment.author # c.author
      BY <2>2, <2>4, <3>1 DEF Apart, Alters, AboutComment
    <3>4. Steps(Steps(X, msgs)[Len(msgs)], q)[i - 1] = Steps(Y, msgs)[Len(msgs)]
      BY <2>1, <2>3, <3>1
    <3>. HIDE DEF c, Y
    <3>5. Has(Steps(Y, msgs)[Len(msgs)].comments, c)
      BY <2>1, <3>2, <3>3, KeyKept
    <3>6. QED
      BY <3>4, <3>5 DEF c
  <2>5. QED
    BY <1>1, <1>3, <2>1, <2>4 DEF Meets, Alters, Has
<1>4. QED
  BY <1>2, <1>3

\* The requests and answers on the way go on fitting the window.
LEMMA UtteredSession ==
  ASSUME TypeInv, NEW u \in Users, NEW msgs, Utters(u, msgs), NEW v \in Users, Session(v)
  PROVE  Session(v)'
<1>0. /\ \A w \in Users \ {u} : up'[w] = up[w]
      /\ Len(up[u]) \in Nat /\ Len(msgs) \in Nat /\ DOMAIN up[u] = 1 .. Len(up[u])
      /\ DOMAIN up'[u] = 1 .. (Len(up[u]) + Len(msgs))
      /\ \A i \in DOMAIN up[u] : /\ up'[u][i] = up[u][i] /\ i \in Nat
                                 /\ \A j \in 1 .. i : j \in DOMAIN up[u]
      /\ \A k \in 1 .. Len(msgs) : up'[u][Len(up[u]) + k] = msgs[k]
      /\ \A i \in DOMAIN up'[u] : \/ i \in DOMAIN up[u]
                                  \/ \E k \in 1 .. Len(msgs) : i = Len(up[u]) + k
  BY UtteredUp, Channels
<1>1. /\ window' = window /\ inFile' = inFile /\ down' = down /\ Files(v)' = Files(v)
      /\ Ended(v)' = Ended(v)
  BY DEF Utters, Files, Ended
<1>2. CASE v # u
  <2>1. up'[v] = up[v] /\ Gets(v)' = Gets(v)
    BY <1>0, <1>2 DEF Gets
  <2>2. QED
    BY <1>1, <2>1 DEF Session, IsEdit
<1>3. CASE v = u
  <2>1. window[u] = "open"
    BY DEF Utters
  <2>2. \A i \in DOMAIN up'[u] : IsEdit(up'[u][i])
    <3>. TAKE i \in DOMAIN up'[u]
    <3>1. CASE i \in DOMAIN up[u]
      BY <1>0, <1>3, <2>1, <3>1 DEF Session
    <3>2. CASE i \notin DOMAIN up[u]
      <4>1. PICK k \in 1 .. Len(msgs) : up'[u][i] = msgs[k]
        BY <1>0, <3>2
      <4>2. QED
        BY <4>1 DEF Utters
    <3>3. QED
      BY <3>1, <3>2
  <2>3. Gets(u)' = {}
    BY <2>2 DEF Gets, IsEdit
  <2>4. QED
    BY <1>1, <1>3, <2>1, <2>2, <2>3 DEF Session, IsEdit, Ended
<1>4. QED
  BY <1>2, <1>3

\* The invariant holds after an editor has changed its File and sent the messages that say so.
LEMMA UtteredStep ==
  ASSUME TypeInv, FollowInv, NEW u \in Users, NEW msgs, Utters(u, msgs)
  PROVE  FollowInv'
<1>1. AllMade' /\ Numbered'
  BY UtteredMade, UtteredNumbered DEF FollowInv
<1>2. ASSUME NEW v \in Users
      PROVE  /\ Session(v)' /\ Private(v)' /\ Brought(v)' /\ Authors(v)' /\ Follows(v)'
             /\ Meets(Held(Server), up[v])' /\ Meets(Held(v), down[v])'
  BY UtteredSession, UtteredPrivate, UtteredBrought, UtteredAuthors, UtteredFollows,
     UtteredMeetsUp, UtteredMeetsDown DEF FollowInv
<1>3. QED
  BY <1>1, <1>2 DEF FollowInv

(***************************************************************************)
(* The server handles an edit and passes it on: n is what the others get.    *)
(***************************************************************************)
SameEdit(n, m) ==
  /\ n.type = m.type /\ (m.type \in {"ins", "del"} => n.syms = m.syms /\ n.pars = m.pars)
  /\ AboutComment(m) => n.comment = m.comment

Passes(u, n) ==
  /\ up[u] # << >> /\ IsEdit(up[u][1]) /\ n \in DownMsg /\ SameEdit(n, up[u][1])
  /\ up' = [up EXCEPT ![u] = Tail(@)]
  /\ down' = [v \in Users |-> IF v \in inFile \ {u} /\ ~ Ended(v) THEN Append(down[v], n)
                              ELSE down[v]]
  /\ pars' = [pars EXCEPT ![Server] = OnPars(@, up[u][1])]
  /\ comments' = [comments EXCEPT ![Server] = OnComments(@, up[u][1])]
  /\ window' = window /\ inFile' = inFile /\ made' = made /\ lastNo' = lastNo

\* A message with its sender's name does what the message does.
LEMMA SameEffect ==
  ASSUME NEW m, NEW n, SameEdit(n, m), IsEdit(m)
  PROVE  /\ \A X : Effect(X, n) = Effect(X, m)
         /\ IsEdit(n) /\ Mentions(n) = Mentions(m) /\ Brings(n) = Brings(m)
         /\ CommentsOf(n) = CommentsOf(m) /\ (AboutComment(n) <=> AboutComment(m))
         /\ (Alters(n) <=> Alters(m)) /\ n.type # "file" /\ m.type # "file"
<1>1. /\ IsEdit(n) /\ Mentions(n) = Mentions(m) /\ Brings(n) = Brings(m)
      /\ CommentsOf(n) = CommentsOf(m) /\ (AboutComment(n) <=> AboutComment(m))
      /\ (Alters(n) <=> Alters(m)) /\ n.type # "file" /\ m.type # "file"
  BY DEF SameEdit, IsEdit, Mentions, Brings, CommentsOf, AboutComment, Alters
<1>2. ASSUME NEW X PROVE Effect(X, n) = Effect(X, m)
  <2>1. OnPars(X.pars, n) = OnPars(X.pars, m)
    <3>1. CASE m.type \in {"ins", "del"}
      BY <3>1 DEF SameEdit, OnPars
    <3>2. CASE m.type \notin {"ins", "del"}
      BY <1>1, <3>2 DEF SameEdit, OnPars
    <3>3. QED
      BY <3>1, <3>2
  <2>2. OnComments(X.comments, n) = OnComments(X.comments, m)
    BY <1>1 DEF SameEdit, OnComments, CommentsAfter
  <2>3. QED
    BY <2>1, <2>2 DEF Effect
<1>3. QED
  BY <1>1, <1>2

\* A message about another author's comment leaves a comment where it is.
LEMMA HasEffect ==
  ASSUME NEW X, NEW m, NEW c, m.type # "file", AboutComment(m) => m.comment.author # c.author
  PROVE  Has(Effect(X, m).comments, c) <=> Has(X.comments, c)
<1>1. Effect(X, m).comments = OnComments(X.comments, m)
  BY DEF Effect
<1>. DEFINE C == X.comments
<1>. HIDE DEF C
<1>2. Has(OnComments(C, m), c) <=> Has(C, c)
  BY DEF OnComments, CommentsAfter, Without, Has, Key
<1>3. QED
  BY <1>1, <1>2 DEF C

\* The channels after the server has passed the first message of a user on.
LEMMA PassedChannels ==
  ASSUME TypeInv, NEW u \in Users, NEW n, Passes(u, n)
  PROVE  /\ \A v \in Users \ {u} : up'[v] = up[v]
         /\ Len(up'[u]) \in Nat /\ IsTail(up'[u], up[u]) /\ 1 \in DOMAIN up[u] /\ up[u][1] \in UpMsg
         /\ DOMAIN up'[u] = 1 .. Len(up'[u]) /\ DOMAIN up[u] = 1 .. Len(up[u])
         /\ \A i \in DOMAIN up'[u] : /\ i \in Nat /\ i + 1 \in DOMAIN up[u] /\ up'[u][i] = up[u][i + 1]
                                     /\ \A j \in 1 .. (i - 1) : j + 1 \in 1 .. i /\ j \in DOMAIN up'[u]
         /\ \A v \in Users : \/ down'[v] = down[v] /\ (v \in inFile \ {u} => Ended(v))
                             \/ /\ v \in inFile \ {u} /\ ~ Ended(v) /\ IsAppend(down'[v], down[v], n)
                                /\ DOMAIN down'[v] = 1 .. (Len(down[v]) + 1)
         /\ \A v \in Users : \A i \in DOMAIN down'[v] :
               \/ i \in DOMAIN down[v] /\ down'[v][i] = down[v][i]
               \/ v \in inFile \ {u} /\ ~ Ended(v) /\ i = Len(down[v]) + 1 /\ down'[v][i] = n
<1>1. /\ up[u] \in Seq(UpMsg) /\ up'[u] = Tail(up[u]) /\ up[u] # << >>
      /\ \A v \in Users \ {u} : up'[v] = up[v]
  BY Channels DEF Passes, TypeInv
<1>. DEFINE q == up[u]
            r == up'[u]
<1>2. /\ r \in Seq(UpMsg) /\ IsTail(r, q) /\ Len(q) \in Nat /\ Len(r) \in Nat
      /\ q[1] \in UpMsg /\ 1 \in DOMAIN q /\ \A i \in 1 .. Len(r) : i + 1 \in DOMAIN q
  <2>1. q \in Seq(UpMsg) /\ r = Tail(q) /\ q # << >>
    BY <1>1
  <2>. HIDE DEF q, r
  <2>2. QED
    BY <2>1, TailFacts
<1>3. DOMAIN r = 1 .. Len(r) /\ DOMAIN q = 1 .. Len(q)
  BY <1>1, <1>2
<1>4. ASSUME NEW i \in DOMAIN r
      PROVE  /\ i \in Nat /\ i + 1 \in DOMAIN q /\ r[i] = q[i + 1]
             /\ \A j \in 1 .. (i - 1) : j + 1 \in 1 .. i /\ j \in DOMAIN r
  BY <1>2, <1>3, <1>4 DEF IsTail
<1>5. ASSUME NEW v \in Users
      PROVE  /\ \/ down'[v] = down[v] /\ (v \in inFile \ {u} => Ended(v))
                \/ /\ v \in inFile \ {u} /\ ~ Ended(v) /\ IsAppend(down'[v], down[v], n)
                   /\ DOMAIN down'[v] = 1 .. (Len(down[v]) + 1)
             /\ \A i \in DOMAIN down'[v] :
                  \/ i \in DOMAIN down[v] /\ down'[v][i] = down[v][i]
                  \/ v \in inFile \ {u} /\ ~ Ended(v) /\ i = Len(down[v]) + 1 /\ down'[v][i] = n
  <2>1. CASE v \in inFile \ {u} /\ ~ Ended(v)
    <3>1. down'[v] = Append(down[v], n) /\ down[v] \in Seq(DownMsg) /\ n \in DownMsg
      BY <2>1, Channels DEF Passes
    <3>. DEFINE d == down[v]
                e == down'[v]
    <3>2. e \in Seq(DownMsg) /\ IsAppend(e, d, n) /\ Len(d) \in Nat
      <4>1. e = Append(d, n) /\ d \in Seq(DownMsg) /\ n \in DownMsg
        BY <3>1
      <4>. HIDE DEF d, e
      <4>2. QED
        BY <4>1, AppendFacts
    <3>3. DOMAIN e = 1 .. (Len(d) + 1) /\ DOMAIN d = 1 .. Len(d)
      BY <3>1, <3>2 DEF IsAppend
    <3>4. \A i \in DOMAIN e : i \in DOMAIN d \/ i = Len(d) + 1
      BY <3>2, <3>3
    <3>5. QED
      BY <2>1, <3>2, <3>3, <3>4 DEF IsAppend
  <2>2. CASE ~ (v \in inFile \ {u} /\ ~ Ended(v))
    BY <2>2 DEF Passes
  <2>3. QED
    BY <2>1, <2>2
<1>6. QED
  BY <1>1, <1>2, <1>3, <1>4, <1>5

\* No paragraph is used by two.
LEMMA PassedMade ==
  ASSUME TypeInv, AllMade, NEW u \in Users, NEW n, Passes(u, n)
  PROVE  AllMade'
<1>. DEFINE m == up[u][1]
<1>0. 1 \in DOMAIN up[u]
  BY PassedChannels
<1>1. made' = made /\ Mentions(m) \subseteq made /\ Mentions(n) = Mentions(m) /\ IsEdit(m)
  BY <1>0, SameEffect DEF Passes, AllMade
<1>2. ASSUME NEW r \in Replicas PROVE pars'[r] \subseteq made'
  <2>1. CASE r = Server
    <3>1. pars'[Server] = OnPars(pars[Server], m) /\ pars[Server] \subseteq made
      BY <1>2, <2>1 DEF Passes, TypeInv, AllMade
    <3>. HIDE DEF m
    <3>2. QED
      BY <1>1, <2>1, <3>1 DEF OnPars, Mentions, IsEdit
  <2>2. CASE r # Server
    BY <1>1, <1>2, <2>2 DEF Passes, TypeInv, AllMade
  <2>3. QED
    BY <2>1, <2>2
<1>3. ASSUME NEW v \in Users, NEW i \in DOMAIN up'[v] PROVE Mentions(up'[v][i]) \subseteq made'
  BY <1>1, <1>3, PassedChannels DEF AllMade
<1>4. ASSUME NEW v \in Users, NEW i \in DOMAIN down'[v] PROVE Mentions(down'[v][i]) \subseteq made'
  BY <1>1, <1>4, PassedChannels DEF AllMade
<1>5. QED
  BY <1>2, <1>3, <1>4 DEF AllMade

\* What a user's other messages bring is in no other's messages or File.
LEMMA PassedPrivate ==
  ASSUME TypeInv, NEW u \in Users, NEW n, Passes(u, n), NEW v \in Users, Private(v)
  PROVE  Private(v)'
<1>. DEFINE m == up[u][1]
<1>1. SUFFICES ASSUME NEW i \in DOMAIN up'[v], NEW p \in Brings(up'[v][i])
               PROVE  /\ \A r \in Replicas \ {v} : p \notin pars'[r]
                      /\ \A w \in Users : \A j \in DOMAIN down'[w] : p \notin Mentions(down'[w][j])
                      /\ \A w \in Users \ {v} : \A j \in DOMAIN up'[w] : p \notin Mentions(up'[w][j])
                      /\ \A j \in 1 .. (i - 1) : p \notin Mentions(up'[v][j])
  BY DEF Private
<1>2. /\ \A w \in Users \ {u} : up'[w] = up[w]
      /\ 1 \in DOMAIN up[u]
      /\ \A k \in DOMAIN up'[u] : /\ k \in Nat /\ k + 1 \in DOMAIN up[u] /\ up'[u][k] = up[u][k + 1]
                                  /\ \A j \in 1 .. (k - 1) : j + 1 \in 1 .. k /\ j \in DOMAIN up'[u]
      /\ \A w \in Users : \A k \in DOMAIN down'[w] :
               \/ k \in DOMAIN down[w] /\ down'[w][k] = down[w][k]
               \/ down'[w][k] = n
  BY PassedChannels
<1>3. Mentions(n) = Mentions(m) /\ IsEdit(m)
  BY SameEffect DEF Passes
<1>4. PICK i0 \in DOMAIN up[v] :
         /\ up'[v][i] = up[v][i0]
         /\ v = u => i0 = i + 1 /\ i \in Nat
         /\ v # u => i0 = i
  BY <1>1, <1>2
<1>5. /\ \A r \in Replicas \ {v} : p \notin pars[r]
      /\ \A w \in Users : \A j \in DOMAIN down[w] : p \notin Mentions(down[w][j])
      /\ \A w \in Users \ {v} : \A j \in DOMAIN up[w] : p \notin Mentions(up[w][j])
      /\ \A j \in 1 .. (i0 - 1) : p \notin Mentions(up[v][j])
  BY <1>1, <1>4 DEF Private
<1>6. p \notin Mentions(m)
  <2>1. CASE v = u
    <3>1. 1 \in 1 .. (i0 - 1)
      BY <1>1, <1>2, <1>4, <2>1, PassedChannels
    <3>2. QED
      BY <1>5, <2>1, <3>1
  <2>2. CASE v # u
    BY <1>2, <1>5, <2>2
  <2>3. QED
    BY <2>1, <2>2
<1>7. ASSUME NEW r \in Replicas \ {v} PROVE p \notin pars'[r]
  <2>1. CASE r = Server
    <3>1. pars'[Server] = OnPars(pars[Server], m) /\ p \notin pars[Server]
      BY <1>5, <1>7, <2>1 DEF Passes, TypeInv
    <3>. HIDE DEF m
    <3>2. QED
      BY <1>3, <1>6, <2>1, <3>1 DEF OnPars, Mentions, IsEdit
  <2>2. CASE r # Server
    BY <1>5, <1>7, <2>2 DEF Passes, TypeInv
  <2>3. QED
    BY <2>1, <2>2
<1>8. \A w \in Users : \A j \in DOMAIN down'[w] : p \notin Mentions(down'[w][j])
  BY <1>2, <1>3, <1>5, <1>6
<1>9. \A w \in Users \ {v} : \A j \in DOMAIN up'[w] : p \notin Mentions(up'[w][j])
  BY <1>2, <1>5
<1>10. ASSUME NEW j \in 1 .. (i - 1) PROVE p \notin Mentions(up'[v][j])
  <2>1. CASE v = u
    <3>1. j + 1 \in 1 .. (i0 - 1) /\ up'[u][j] = up[u][j + 1]
      BY <1>1, <1>2, <1>4, <1>10, <2>1
    <3>2. QED
      BY <1>5, <2>1, <3>1
  <2>2. CASE v # u
    BY <1>2, <1>4, <1>5, <1>10, <2>2
  <2>3. QED
    BY <2>1, <2>2
<1>11. QED
  BY <1>7, <1>8, <1>9, <1>10

\* What is passed to an editor is not what it brings itself.
LEMMA PassedBrought ==
  ASSUME TypeInv, NEW u \in Users, NEW n, Passes(u, n), Private(u), NEW v \in Users, Brought(v)
  PROVE  Brought(v)'
<1>. DEFINE m == up[u][1]
<1>0. /\ 1 \in DOMAIN up[u] /\ v \in Replicas /\ v # Server
      /\ DOMAIN down[v] = 1 .. Len(down[v]) /\ Len(down[v]) \in Nat
  BY PassedChannels, Channels
<1>1. /\ 1 \in DOMAIN up[u] /\ Brings(n) = Brings(m) /\ pars'[v] = pars[v] /\ v \in Replicas
      /\ DOMAIN down[v] = 1 .. Len(down[v]) /\ Len(down[v]) \in Nat
  BY <1>0, SameEffect DEF Passes, TypeInv
<1>2. ASSUME NEW i \in DOMAIN down'[v], NEW p \in Brings(down'[v][i])
      PROVE  p \notin pars[v] /\ \A j \in 1 .. (i - 1) : p \notin Mentions(down'[v][j])
  <2>1. CASE down'[v] = down[v]
    BY <1>2, <2>1 DEF Brought
  <2>2. CASE down'[v] # down[v]
    <3>1. /\ v # u /\ IsAppend(down'[v], down[v], n)
          /\ DOMAIN down'[v] = 1 .. (Len(down[v]) + 1)
      BY <2>2, PassedChannels
    <3>2. CASE i = Len(down[v]) + 1
      <4>1. p \in Brings(m) /\ \A j \in 1 .. (i - 1) : j \in DOMAIN down[v] /\ down'[v][j] = down[v][j]
        BY <1>1, <1>2, <3>1, <3>2 DEF IsAppend
      <4>2. QED
        BY <1>1, <3>1, <4>1 DEF Private
    <3>3. CASE i # Len(down[v]) + 1
      <4>1. /\ i \in DOMAIN down[v] /\ down'[v][i] = down[v][i]
            /\ \A j \in 1 .. (i - 1) : down'[v][j] = down[v][j]
        BY <1>1, <1>2, <3>1, <3>3 DEF IsAppend
      <4>2. QED
        BY <1>2, <4>1 DEF Brought
    <3>4. QED
      BY <3>2, <3>3
  <2>3. QED
    BY <2>1, <2>2
<1>3. QED
  BY <1>1, <1>2 DEF Brought

\* Every comment has a number up to its author's last one.
LEMMA PassedNumbered ==
  ASSUME TypeInv, Numbered, NEW u \in Users, NEW n, Passes(u, n)
  PROVE  Numbered'
<1>. DEFINE m == up[u][1]
<1>0. 1 \in DOMAIN up[u]
  BY PassedChannels
<1>1. /\ lastNo' = lastNo /\ 1 \in DOMAIN up[u] /\ CommentsOf(n) = CommentsOf(m) /\ IsEdit(m)
      /\ \A c \in CommentsOf(m) : Counted(c)
  BY <1>0, SameEffect DEF Passes, Numbered
<1>2. ASSUME NEW c, Counted(c) PROVE Counted(c)'
  BY <1>1, <1>2 DEF Counted
<1>3. ASSUME NEW r \in Replicas, NEW c \in comments'[r] PROVE Counted(c)'
  <2>1. CASE r = Server
    <3>1. comments'[Server] = OnComments(comments[Server], m)
      BY <1>3, <2>1 DEF Passes, TypeInv
    <3>2. c \in comments[Server] \/ c \in CommentsOf(m)
      <4>. HIDE DEF m
      <4>1. QED
        BY <1>1, <1>3, <2>1, <3>1 DEF OnComments, CommentsAfter, Without, CommentsOf, IsEdit,
           AboutComment
    <3>3. QED
      BY <1>1, <1>2, <1>3, <2>1, <3>2 DEF Numbered
  <2>2. CASE r # Server
    BY <1>2, <1>3, <2>2 DEF Passes, TypeInv, Numbered
  <2>3. QED
    BY <2>1, <2>2
<1>4. ASSUME NEW v \in Users, NEW i \in DOMAIN up'[v], NEW c \in CommentsOf(up'[v][i]) PROVE Counted(c)'
  BY <1>2, <1>4, PassedChannels DEF Numbered
<1>5. ASSUME NEW v \in Users, NEW i \in DOMAIN down'[v], NEW c \in CommentsOf(down'[v][i]) PROVE Counted(c)'
  BY <1>1, <1>2, <1>5, PassedChannels DEF Numbered
<1>6. QED
  BY <1>3, <1>4, <1>5 DEF Numbered

\* An editor is passed the comments of others.
LEMMA PassedAuthors ==
  ASSUME TypeInv, NEW u \in Users, NEW n, Passes(u, n), Authors(u), NEW v \in Users, Authors(v)
  PROVE  Authors(v)'
<1>. DEFINE m == up[u][1]
<1>0. 1 \in DOMAIN up[u]
  BY PassedChannels
<1>1. /\ (AboutComment(n) <=> AboutComment(m)) /\ IsEdit(m)
      /\ AboutComment(m) => n.comment = m.comment /\ m.comment.author = u
  BY <1>0, SameEffect DEF Passes, Authors, SameEdit
<1>2. ASSUME NEW i \in DOMAIN up'[v], AboutComment(up'[v][i]) PROVE up'[v][i].comment.author = v
  BY <1>2, PassedChannels DEF Authors
<1>3. ASSUME NEW i \in DOMAIN down'[v], AboutComment(down'[v][i]) PROVE down'[v][i].comment.author # v
  BY <1>1, <1>3, PassedChannels DEF Authors
<1>4. QED
  BY <1>2, <1>3 DEF Authors, AboutComment

\* What is passed on is apart from what is on the way from another user.
LEMMA PassedApart ==
  ASSUME TypeInv, NEW u \in Users, NEW n, Passes(u, n), Private(u), Authors(u),
         NEW v \in Users \ {u}, Private(v), Authors(v), NEW j \in DOMAIN up[v]
  PROVE  Apart(up[u][1], up[v][j])
<1>0. 1 \in DOMAIN up[u]
  BY PassedChannels
<1>1. IsEdit(up[u][1])
  BY DEF Passes
<1>. DEFINE m == up[u][1]
            k == up[v][j]
<1>2. m.type # "file" /\ k.type # "file"
  <2>1. k \in UpMsg
    BY Channels
  <2>2. QED
    BY <1>1, <2>1, UpFacts DEF IsEdit
<1>3. m.type = "ins" /\ k.type = "del" => m.pars \cap k.pars = {}
  BY <1>0 DEF Private, Brings, Mentions
<1>4. m.type = "del" /\ k.type = "ins" => m.pars \cap k.pars = {}
  BY <1>0 DEF Private, Brings, Mentions
<1>5. AboutComment(m) /\ AboutComment(k) => m.comment.author # k.comment.author
  BY <1>0 DEF Authors
<1>6. QED
  BY <1>2, <1>3, <1>4, <1>5 DEF Apart

\* What the server holds after it has passed a message on.
LEMMA PassedHeld ==
  ASSUME TypeInv, NEW u \in Users, NEW n, Passes(u, n)
  PROVE  /\ Held(Server)' = Effect(Held(Server), up[u][1])
         /\ \A v \in Users : Held(v)' = Held(v) /\ Ended(v)' = Ended(v)
<1>1. /\ pars'[Server] = OnPars(pars[Server], up[u][1])
      /\ comments'[Server] = OnComments(comments[Server], up[u][1])
      /\ \A v \in Users : pars'[v] = pars[v] /\ comments'[v] = comments[v]
  BY Channels DEF Passes, TypeInv
<1>2. \A v \in Users : Ended(v)' = Ended(v)
  BY DEF Passes, Ended
<1>3. QED
  BY <1>1, <1>2 DEF Held, Effect

\* Every editor follows: those the message is passed to get it last, its sender had it before.
LEMMA PassedFollows ==
  ASSUME TypeInv, NEW u \in Users, NEW n, Passes(u, n), Private(u), Authors(u),
         NEW v \in Users, Private(v), Authors(v), Follows(v)
  PROVE  Follows(v)'
<1>. DEFINE X == Held(v)
            Z == Held(Server)
            m == up[u][1]
<1>1. /\ Held(Server)' = Effect(Z, m) /\ Held(v)' = X /\ Ended(v)' = Ended(v) /\ inFile' = inFile
      /\ SameEdit(n, m) /\ IsEdit(m)
  BY PassedHeld DEF Passes
<1>2. SUFFICES ASSUME v \in inFile, ~ Ended(v)
               PROVE  After(X, down'[v]) = After(Effect(Z, m), up'[v])
  BY <1>1 DEF Follows
<1>3. After(X, down[v]) = After(Z, up[v]) /\ Len(down[v]) \in Nat /\ Len(up[v]) \in Nat
      /\ DOMAIN up[v] = 1 .. Len(up[v])
  BY <1>2, Channels DEF Follows
<1>4. CASE v = u
  <2>1. down'[v] = down[v] /\ IsTail(up'[u], up[u]) /\ Len(up'[u]) \in Nat
    BY <1>4, PassedChannels
  <2>. HIDE DEF Z
  <2>2. After(Effect(Z, m), up'[u]) = After(Z, up[u])
    BY <2>1, StepsTail, SMTT(60)
  <2>3. QED
    BY <1>3, <1>4, <2>1, <2>2
<1>5. CASE v # u
  <2>1. up'[v] = up[v] /\ IsAppend(down'[v], down[v], n)
    BY <1>2, <1>5, PassedChannels
  <2>2. \A j \in 1 .. Len(up[v]) : Apart(m, up[v][j])
    BY <1>2, <1>3, <1>5, PassedApart
  <2>. HIDE DEF Z, X, m
  <2>3. After(X, down'[v]) = Effect(After(X, down[v]), n)
    BY <1>3, <2>1, StepsAppend
  <2>4. After(Effect(Z, m), up[v]) = Effect(After(Z, up[v]), m)
    BY <1>3, <2>2, StepsCommute
  <2>5. \A W : Effect(W, n) = Effect(W, m)
    BY <1>1, SameEffect
  <2>6. QED
    BY <1>3, <2>1, <2>3, <2>4, <2>5
<1>6. QED
  BY <1>4, <1>5

\* The changes of comments still on the way to the server will find their comments.
LEMMA PassedMeetsUp ==
  ASSUME TypeInv, NEW u \in Users, NEW n, Passes(u, n), Private(u), Authors(u),
         NEW v \in Users, Private(v), Authors(v), Meets(Held(Server), up[v])
  PROVE  Meets(Held(Server), up[v])'
<1>. DEFINE Z == Held(Server)
            m == up[u][1]
<1>1. Held(Server)' = Effect(Z, m) /\ IsEdit(m) /\ SameEdit(n, m)
  BY PassedHeld DEF Passes
<1>2. SUFFICES ASSUME NEW i \in DOMAIN up'[v], Alters(up'[v][i])
               PROVE  Has(Steps(Effect(Z, m), up'[v])[i - 1].comments, up'[v][i].comment)
  BY <1>1 DEF Meets, Alters, Has
<1>3. CASE v = u
  <2>1. /\ IsTail(up'[u], up[u]) /\ Len(up'[u]) \in Nat /\ DOMAIN up'[u] = 1 .. Len(up'[u])
        /\ i \in Nat /\ i + 1 \in DOMAIN up[u] /\ up'[u][i] = up[u][i + 1]
    BY <1>2, <1>3, PassedChannels
  <2>2. Has(Steps(Z, up[u])[(i + 1) - 1].comments, up[u][i + 1].comment)
    BY <1>2, <1>3, <2>1 DEF Meets
  <2>3. i - 1 \in 0 .. Len(up'[u]) /\ (i - 1) + 1 = i /\ (i + 1) - 1 = i
    BY <1>2, <1>3, <2>1
  <2>. HIDE DEF Z
  <2>4. Steps(Effect(Z, m), up'[u])[i - 1] = Steps(Z, up[u])[(i - 1) + 1]
    BY <2>1, <2>3, StepsTail
  <2>5. QED
    BY <1>3, <2>1, <2>2, <2>3, <2>4
<1>4. CASE v # u
  <2>1. /\ up'[v] = up[v] /\ Len(up[v]) \in Nat /\ i \in DOMAIN up[v] /\ DOMAIN up[v] = 1 .. Len(up[v])
        /\ \A j \in 1 .. Len(up[v]) : Apart(m, up[v][j])
    BY <1>2, <1>4, PassedChannels, PassedApart, Channels
  <2>2. i - 1 \in 0 .. Len(up[v]) /\ Apart(m, up[v][i])
    BY <2>1
  <2>3. Has(Steps(Z, up[v])[i - 1].comments, up[v][i].comment)
    BY <1>2, <2>1 DEF Meets
  <2>. DEFINE c == up[v][i].comment
              Y == Steps(Z, up[v])[i - 1]
  <2>4. m.type # "file" /\ (AboutComment(m) => m.comment.author # c.author)
    BY <1>2, <2>1, <2>2 DEF Apart, Alters, AboutComment
  <2>5. Steps(Effect(Z, m), up[v])[i - 1] = Effect(Y, m)
    <3>. HIDE DEF Z, m
    <3>1. QED
      BY <2>1, <2>2, StepsCommute
  <2>. HIDE DEF c, Y, m
  <2>6. Has(Effect(Y, m).comments, c) <=> Has(Y.comments, c)
    BY <2>4, HasEffect
  <2>7. QED
    BY <2>1, <2>3, <2>5, <2>6 DEF c, Y
<1>5. QED
  BY <1>3, <1>4

\* A change of a comment that is passed on finds the comment in every editor.
LEMMA PassedMeetsDown ==
  ASSUME TypeInv, NEW u \in Users, NEW n, Passes(u, n), Private(u), Authors(u),
         Meets(Held(Server), up[u]),
         NEW v \in Users, Private(v), Authors(v), Follows(v), Meets(Held(v), down[v])
  PROVE  Meets(Held(v), down[v])'
<1>. DEFINE X == Held(v)
            Z == Held(Server)
            m == up[u][1]
<1>0. IsEdit(m) /\ SameEdit(n, m)
  BY DEF Passes
<1>1. Held(v)' = X /\ IsEdit(m) /\ SameEdit(n, m) /\ 1 \in DOMAIN up[u]
  BY <1>0, PassedHeld, PassedChannels
<1>2. CASE down'[v] = down[v]
  BY <1>1, <1>2 DEF Meets, Alters, Has
<1>3. CASE down'[v] # down[v]
  <2>1. /\ v \in inFile \ {u} /\ ~ Ended(v) /\ IsAppend(down'[v], down[v], n)
        /\ DOMAIN down'[v] = 1 .. (Len(down[v]) + 1)
        /\ Len(down[v]) \in Nat /\ DOMAIN down[v] = 1 .. Len(down[v])
        /\ Len(up[v]) \in Nat
    BY <1>3, PassedChannels, Channels
  <2>2. \A i \in 0 .. Len(down[v]) : Steps(X, down'[v])[i] = Steps(X, down[v])[i]
    <3>. HIDE DEF X
    <3>1. QED
      BY <2>1, StepsAppend
  <2>3. ASSUME NEW i \in DOMAIN down'[v], Alters(down'[v][i])
        PROVE  Has(Steps(X, down'[v])[i - 1].comments, down'[v][i].comment)
    <3>1. CASE i \in DOMAIN down[v]
      <4>1. down'[v][i] = down[v][i] /\ i - 1 \in 0 .. Len(down[v])
        BY <2>1, <3>1 DEF IsAppend
      <4>2. QED
        BY <2>2, <2>3, <3>1, <4>1 DEF Meets
    <3>2. CASE i \notin DOMAIN down[v]
      <4>1. /\ i = Len(down[v]) + 1 /\ i - 1 = Len(down[v]) /\ Len(down[v]) \in 0 .. Len(down[v])
            /\ down'[v][i] = n
        BY <2>1, <2>3, <3>2 DEF IsAppend
      <4>. DEFINE c == m.comment
      <4>2. Alters(m) /\ n.comment = c
        BY <1>1, <2>3, <4>1 DEF SameEdit, Alters, AboutComment
      <4>3. Has(Z.comments, c)
        <5>1. Has(Steps(Z, up[u])[1 - 1].comments, c)
          BY <1>1, <4>2 DEF Meets
        <5>2. Steps(Z, up[u])[0] = Z
          <6>1. Len(up[u]) \in Nat
            BY Channels
          <6>2. QED
            BY <6>1, StepsFacts
        <5>3. QED
          BY <5>1, <5>2
      <4>4. After(X, down[v]) = Steps(Z, up[v])[Len(up[v])]
        BY <2>1 DEF Follows, After
      <4>5. \A j \in 1 .. Len(up[v]) : /\ up[v][j].type # "file"
                                       /\ AboutComment(up[v][j]) => up[v][j].comment.author # c.author
        <5>1. \A j \in 1 .. Len(up[v]) : Apart(m, up[v][j])
          BY <2>1, PassedApart, Channels
        <5>2. QED
          BY <4>2, <5>1 DEF Apart, Alters, AboutComment
      <4>6. Has(Steps(Z, up[v])[Len(up[v])].comments, c)
        <5>1. Len(up[v]) \in 0 .. Len(up[v])
          BY <2>1
        <5>. HIDE DEF Z, c
        <5>2. QED
          BY <2>1, <4>3, <4>5, <5>1, KeyKept
      <4>7. Steps(X, down'[v])[i - 1] = After(X, down[v])
        BY <2>2, <4>1 DEF After
      <4>8. QED
        BY <4>1, <4>2, <4>4, <4>6, <4>7
    <3>3. QED
      BY <3>1, <3>2
  <2>4. QED
    BY <1>1, <2>3 DEF Meets, Alters, Has
<1>4. QED
  BY <1>2, <1>3

\* The requests and answers on the way go on fitting the window.
LEMMA PassedSession ==
  ASSUME TypeInv, NEW u \in Users, NEW n, Passes(u, n), NEW v \in Users, Session(v)
  PROVE  Session(v)'
<1>1. window' = window /\ inFile' = inFile /\ Ended(v)' = Ended(v) /\ IsEdit(n) /\ n.type # "file"
  BY SameEffect DEF Passes, Ended
<1>2. Ended(v) => down'[v] = down[v]
  BY DEF Passes
<1>3. /\ DOMAIN down[v] \subseteq DOMAIN down'[v]
      /\ \A i \in DOMAIN down[v] : down'[v][i] = down[v][i]
      /\ \A i \in DOMAIN down'[v] : i \in DOMAIN down[v] \/ down'[v][i] = n
  <2>1. /\ DOMAIN down[v] = 1 .. Len(down[v]) /\ Len(down[v]) \in Nat
        /\ \/ down'[v] = down[v]
           \/ /\ IsAppend(down'[v], down[v], n)
              /\ DOMAIN down'[v] = 1 .. (Len(down[v]) + 1)
    BY PassedChannels, Channels
  <2>2. CASE down'[v] = down[v]
    BY <2>2
  <2>3. CASE IsAppend(down'[v], down[v], n) /\ DOMAIN down'[v] = 1 .. (Len(down[v]) + 1)
    <3>1. \A i \in 1 .. (Len(down[v]) + 1) : i \in 1 .. Len(down[v]) \/ i = Len(down[v]) + 1
      BY <2>1
    <3>2. 1 .. Len(down[v]) \subseteq 1 .. (Len(down[v]) + 1)
      BY <2>1
    <3>3. QED
      BY <2>1, <2>3, <3>1, <3>2 DEF IsAppend
  <2>4. QED
    BY <2>1, <2>2, <2>3
<1>4. Files(v)' = Files(v)
  BY <1>1, <1>3 DEF Files
<1>5. CASE v # u
  <2>1. up'[v] = up[v] /\ Gets(v)' = Gets(v)
    BY <1>5, PassedChannels DEF Gets
  <2>2. QED
    BY <1>1, <1>2, <1>3, <1>4, <2>1 DEF Session, IsEdit
<1>6. CASE v = u
  <2>1. /\ Len(up'[u]) \in Nat /\ IsTail(up'[u], up[u]) /\ 1 \in DOMAIN up[u]
        /\ DOMAIN up'[u] = 1 .. Len(up'[u]) /\ DOMAIN up[u] = 1 .. Len(up[u])
        /\ \A i \in DOMAIN up'[u] : i + 1 \in DOMAIN up[u] /\ up'[u][i] = up[u][i + 1]
    BY PassedChannels
  <2>2. up[u][1].type # "get" /\ up[u] # << >>
    BY DEF Passes, IsEdit
  <2>3. Gets(u) = {} => Gets(u)' = {}
    BY <2>1 DEF Gets
  <2>4. Gets(u) = {Len(up[u])} => up'[u] # << >> /\ Gets(u)' = {Len(up'[u])}
    <3>1. SUFFICES ASSUME Gets(u) = {Len(up[u])}
                   PROVE  up'[u] # << >> /\ Gets(u)' = {Len(up'[u])}
      OBVIOUS
    <3>2. Len(up[u]) # 1 /\ Len(up[u]) = Len(up'[u]) + 1 /\ up[u][Len(up[u])].type = "get"
      BY <2>1, <2>2, <3>1 DEF Gets, IsTail
    <3>3. Len(up'[u]) # 0 /\ Len(up'[u]) \in DOMAIN up'[u] /\ up'[u][Len(up'[u])] = up[u][Len(up[u])]
      BY <2>1, <3>2
    <3>4. \A i \in DOMAIN up'[u] : up'[u][i].type = "get" => i = Len(up'[u])
      <4>. TAKE i \in DOMAIN up'[u]
      <4>1. HAVE up'[u][i].type = "get"
      <4>2. i + 1 \in Gets(u)
        BY <2>1, <4>1 DEF Gets
      <4>3. i + 1 = Len(up[u])
        BY <3>1, <4>2
      <4>4. QED
        BY <2>1, <3>2, <4>3
    <3>5. QED
      BY <3>2, <3>3, <3>4 DEF Gets
  <2>5. (\A i \in DOMAIN up[u] : IsEdit(up[u][i])) => \A i \in DOMAIN up'[u] : IsEdit(up'[u][i])
    BY <2>1
  <2>6. QED
    BY <1>1, <1>2, <1>3, <1>4, <1>6, <2>2, <2>3, <2>4, <2>5 DEF Session, IsEdit
<1>7. QED
  BY <1>5, <1>6

\* The invariant holds after the server has taken a message and passed it on.
LEMMA PassedStep ==
  ASSUME TypeInv, FollowInv, NEW u \in Users, NEW n, Passes(u, n)
  PROVE  FollowInv'
<1>1. AllMade' /\ Numbered'
  BY PassedMade, PassedNumbered DEF FollowInv
<1>2. ASSUME NEW v \in Users
      PROVE  /\ Session(v)' /\ Private(v)' /\ Brought(v)' /\ Authors(v)' /\ Follows(v)'
             /\ Meets(Held(Server), up[v])' /\ Meets(Held(v), down[v])'
  BY PassedSession, PassedPrivate, PassedBrought, PassedAuthors, PassedFollows,
     PassedMeetsUp, PassedMeetsDown DEF FollowInv
<1>3. QED
  BY <1>1, <1>2 DEF FollowInv

(***************************************************************************)
(* Steps that bring nothing new: messages are taken from the channels or     *)
(* written at their ends, but the new ones say what the writer holds.        *)
(***************************************************************************)
Carries(m, r) == Brings(m) = {} /\ ~ AboutComment(m) /\ Mentions(m) \subseteq pars[r]
                 /\ CommentsOf(m) \subseteq comments[r]

Moves ==
  /\ made' = made /\ lastNo' = lastNo
  /\ \A v \in Users : \A i \in DOMAIN up'[v] :
        \/ Carries(up'[v][i], v)
        \/ \E k \in DOMAIN up[v] :
              /\ up'[v][i] = up[v][k]
              /\ \A j \in 1 .. (i - 1) : \E l \in 1 .. (k - 1) : up'[v][j] = up[v][l]
  /\ \A v \in Users : \A i \in DOMAIN down'[v] :
        \/ Carries(down'[v][i], Server)
        \/ \E k \in DOMAIN down[v] :
              /\ down'[v][i] = down[v][k]
              /\ \A j \in 1 .. (i - 1) : \E l \in 1 .. (k - 1) : down'[v][j] = down[v][l]
              /\ pars'[v] \subseteq pars[v] \/ 1 \in 1 .. (k - 1)
  /\ \A r \in Replicas :
        \/ pars'[r] \subseteq pars[r] /\ comments'[r] \subseteq comments[r]
        \/ /\ r \in Users /\ 1 \in DOMAIN down[r]
           /\ pars'[r] \subseteq pars[r] \cup Mentions(down[r][1])
           /\ comments'[r] \subseteq comments[r] \cup CommentsOf(down[r][1])

\* Where paragraphs and messages only move, none is used by two.
LEMMA MovedMade ==
  ASSUME TypeInv, AllMade, Moves
  PROVE  AllMade'
<1>1. \A r \in Replicas : pars'[r] \subseteq made'
  BY DEF Moves, AllMade
<1>2. \A v \in Users : \A i \in DOMAIN up'[v] : Mentions(up'[v][i]) \subseteq made'
  BY Channels DEF Moves, AllMade, Carries
<1>3. \A v \in Users : \A i \in DOMAIN down'[v] : Mentions(down'[v][i]) \subseteq made'
  BY Channels DEF Moves, AllMade, Carries
<1>4. QED
  BY <1>1, <1>2, <1>3 DEF AllMade

\* Comments that only move keep their numbers.
LEMMA MovedNumbered ==
  ASSUME TypeInv, Numbered, Moves
  PROVE  Numbered'
<1>1. lastNo' = lastNo /\ \A c : Counted(c) => Counted(c)'
  BY DEF Moves, Counted
<1>2. \A r \in Replicas : \A c \in comments'[r] : Counted(c)
  BY DEF Moves, Numbered
<1>3. \A v \in Users : \A i \in DOMAIN up'[v] : \A c \in CommentsOf(up'[v][i]) : Counted(c)
  BY Channels DEF Moves, Numbered, Carries
<1>4. \A v \in Users : \A i \in DOMAIN down'[v] : \A c \in CommentsOf(down'[v][i]) : Counted(c)
  BY Channels DEF Moves, Numbered, Carries
<1>5. QED
  BY <1>1, <1>2, <1>3, <1>4 DEF Numbered

\* Messages that only move keep their authors.
LEMMA MovedAuthors ==
  ASSUME TypeInv, Moves, NEW u \in Users, Authors(u)
  PROVE  Authors(u)'
<1>1. \A i \in DOMAIN up'[u] : AboutComment(up'[u][i]) => up'[u][i].comment.author = u
  BY DEF Moves, Authors, Carries
<1>2. \A i \in DOMAIN down'[u] : AboutComment(down'[u][i]) => down'[u][i].comment.author # u
  BY DEF Moves, Authors, Carries
<1>3. QED
  BY <1>1, <1>2 DEF Authors, AboutComment

\* Messages that only move bring an editor nothing of its own.
LEMMA MovedBrought ==
  ASSUME TypeInv, Moves, NEW u \in Users, Brought(u)
  PROVE  Brought(u)'
<1>1. SUFFICES ASSUME NEW i \in DOMAIN down'[u], NEW p \in Brings(down'[u][i])
               PROVE  p \notin pars'[u] /\ \A j \in 1 .. (i - 1) : p \notin Mentions(down'[u][j])
  BY DEF Brought
<1>2. PICK k \in DOMAIN down[u] :
         /\ down'[u][i] = down[u][k]
         /\ \A j \in 1 .. (i - 1) : \E l \in 1 .. (k - 1) : down'[u][j] = down[u][l]
         /\ pars'[u] \subseteq pars[u] \/ 1 \in 1 .. (k - 1)
  BY <1>1 DEF Moves, Carries
<1>3. p \notin pars[u] /\ \A l \in 1 .. (k - 1) : p \notin Mentions(down[u][l])
  BY <1>1, <1>2 DEF Brought
<1>4. pars'[u] \subseteq pars[u] \/ pars'[u] \subseteq pars[u] \cup Mentions(down[u][1])
  BY Channels DEF Moves
<1>5. QED
  BY <1>2, <1>3, <1>4

\* Messages that only move bring nothing that another has.
LEMMA MovedPrivate ==
  ASSUME TypeInv, Moves, NEW v \in Users, Private(v)
  PROVE  Private(v)'
<1>1. SUFFICES ASSUME NEW i \in DOMAIN up'[v], NEW p \in Brings(up'[v][i])
               PROVE  /\ \A r \in Replicas \ {v} : p \notin pars'[r]
                      /\ \A w \in Users : \A j \in DOMAIN down'[w] : p \notin Mentions(down'[w][j])
                      /\ \A w \in Users \ {v} : \A j \in DOMAIN up'[w] : p \notin Mentions(up'[w][j])
                      /\ \A j \in 1 .. (i - 1) : p \notin Mentions(up'[v][j])
  BY DEF Private
<1>2. PICK k \in DOMAIN up[v] :
         /\ up'[v][i] = up[v][k]
         /\ \A j \in 1 .. (i - 1) : \E l \in 1 .. (k - 1) : up'[v][j] = up[v][l]
  BY <1>1 DEF Moves, Carries
<1>3. /\ \A r \in Replicas \ {v} : p \notin pars[r]
      /\ \A w \in Users : \A j \in DOMAIN down[w] : p \notin Mentions(down[w][j])
      /\ \A w \in Users \ {v} : \A j \in DOMAIN up[w] : p \notin Mentions(up[w][j])
      /\ \A j \in 1 .. (k - 1) : p \notin Mentions(up[v][j])
  BY <1>1, <1>2 DEF Private
<1>4. \A r \in Replicas \ {v} : p \notin pars'[r]
  BY <1>3 DEF Moves
<1>5. \A w \in Users : \A j \in DOMAIN down'[w] : p \notin Mentions(down'[w][j])
  BY <1>3, Channels DEF Moves, Carries
<1>6. \A w \in Users \ {v} : \A j \in DOMAIN up'[w] : p \notin Mentions(up'[w][j])
  BY <1>3, Channels DEF Moves, Carries
<1>7. QED
  BY <1>2, <1>3, <1>4, <1>5, <1>6

\* Where paragraphs, comments and messages only move, the rest of the invariant has to be shown.
LEMMA MovedStep ==
  ASSUME TypeInv, FollowInv, Moves,
         \A v \in Users : /\ Session(v)' /\ Follows(v)'
                          /\ Meets(Held(Server), up[v])' /\ Meets(Held(v), down[v])'
  PROVE  FollowInv'
<1>1. AllMade' /\ Numbered'
  BY MovedMade, MovedNumbered DEF FollowInv
<1>2. \A v \in Users : Private(v)' /\ Brought(v)' /\ Authors(v)'
  BY MovedPrivate, MovedBrought, MovedAuthors DEF FollowInv
<1>3. QED
  BY <1>1, <1>2 DEF FollowInv

\* Whom a step does not touch.
Untouched(v) ==
  /\ up'[v] = up[v] /\ down'[v] = down[v] /\ window'[v] = window[v]
  /\ (v \in inFile' <=> v \in inFile)
  /\ pars'[v] = pars[v] /\ comments'[v] = comments[v]
  /\ pars'[Server] = pars[Server] /\ comments'[Server] = comments[Server]

\* A user whose window, channels and File stay, and the server's File with them.
LEMMA UntouchedHolds ==
  ASSUME NEW v \in Users, Untouched(v), Session(v), Follows(v),
         Meets(Held(Server), up[v]), Meets(Held(v), down[v])
  PROVE  /\ Session(v)' /\ Follows(v)'
         /\ Meets(Held(Server), up[v])' /\ Meets(Held(v), down[v])'
<1>1. Held(v)' = Held(v) /\ Held(Server)' = Held(Server)
  BY DEF Untouched, Held
<1>2. Ended(v)' = Ended(v) /\ Gets(v)' = Gets(v) /\ Files(v)' = Files(v)
  BY DEF Untouched, Ended, Gets, Files
<1>3. Session(v)'
  BY <1>2 DEF Untouched, Session, IsEdit
<1>4. Follows(v)'
  BY <1>1, <1>2 DEF Untouched, Follows
<1>5. Meets(Held(Server), up[v])' /\ Meets(Held(v), down[v])'
  BY <1>1 DEF Untouched, Meets, Alters, Has
<1>6. QED
  BY <1>3, <1>4, <1>5

(***************************************************************************)
(* An editor does what the first message to it says; a file opens it.        *)
(***************************************************************************)
Hears(u) ==
  /\ down[u] # << >>
  /\ down' = [down EXCEPT ![u] = Tail(@)]
  /\ pars' = [pars EXCEPT ![u] = OnPars(@, down[u][1])]
  /\ comments' = [comments EXCEPT ![u] = OnComments(@, down[u][1])]
  /\ window' = IF down[u][1].type = "file" THEN [window EXCEPT ![u] = "open"] ELSE window
  /\ up' = up /\ inFile' = inFile /\ made' = made /\ lastNo' = lastNo

\* The channel of an editor after it has received a message.
LEMMA HeardDown ==
  ASSUME TypeInv, NEW u \in Users, Hears(u)
  PROVE  /\ \A v \in Users \ {u} : down'[v] = down[v]
         /\ Len(down'[u]) \in Nat /\ IsTail(down'[u], down[u]) /\ 1 \in DOMAIN down[u]
         /\ down[u][1] \in DownMsg
         /\ DOMAIN down'[u] = 1 .. Len(down'[u]) /\ DOMAIN down[u] = 1 .. Len(down[u])
         /\ \A i \in DOMAIN down'[u] :
               /\ i \in Nat /\ i + 1 \in DOMAIN down[u] /\ down'[u][i] = down[u][i + 1]
               /\ \A j \in 1 .. (i - 1) : j + 1 \in 1 .. ((i + 1) - 1) /\ j \in DOMAIN down'[u]
               /\ 1 \in 1 .. ((i + 1) - 1)
<1>1. /\ down[u] \in Seq(DownMsg) /\ down'[u] = Tail(down[u]) /\ down[u] # << >>
      /\ \A v \in Users \ {u} : down'[v] = down[v]
  BY Channels DEF Hears, TypeInv
<1>. DEFINE q == down[u]
            r == down'[u]
<1>2. /\ r \in Seq(DownMsg) /\ IsTail(r, q) /\ Len(q) \in Nat /\ Len(r) \in Nat
      /\ q[1] \in DownMsg /\ 1 \in DOMAIN q /\ \A i \in 1 .. Len(r) : i + 1 \in DOMAIN q
  <2>1. q \in Seq(DownMsg) /\ r = Tail(q) /\ q # << >>
    BY <1>1
  <2>. HIDE DEF q, r
  <2>2. QED
    BY <2>1, TailFacts
<1>3. DOMAIN r = 1 .. Len(r) /\ DOMAIN q = 1 .. Len(q)
  BY <1>1, <1>2
<1>4. ASSUME NEW i \in DOMAIN r
      PROVE  /\ i \in Nat /\ i + 1 \in DOMAIN q /\ r[i] = q[i + 1]
             /\ \A j \in 1 .. (i - 1) : j + 1 \in 1 .. ((i + 1) - 1) /\ j \in DOMAIN r
             /\ 1 \in 1 .. ((i + 1) - 1)
  BY <1>2, <1>3, <1>4 DEF IsTail
<1>5. QED
  BY <1>1, <1>2, <1>3, <1>4

\* What an editor holds after it has received a message.
LEMMA HeardHeld ==
  ASSUME TypeInv, NEW u \in Users, Hears(u)
  PROVE  /\ Held(u)' = Effect(Held(u), down[u][1]) /\ Held(Server)' = Held(Server)
         /\ \A v \in Users \ {u} : Held(v)' = Held(v)
<1>1. /\ pars'[u] = OnPars(pars[u], down[u][1])
      /\ comments'[u] = OnComments(comments[u], down[u][1])
      /\ \A r \in Replicas \ {u} : pars'[r] = pars[r] /\ comments'[r] = comments[r]
  BY Channels DEF Hears, TypeInv
<1>2. QED
  BY <1>1, Channels DEF Held, Effect, Replicas

\* What a message makes of paragraphs and comments is of them and of it.
LEMMA EffectWithin ==
  ASSUME NEW P, NEW C, NEW m
  PROVE  OnPars(P, m) \subseteq P \cup Mentions(m) /\ OnComments(C, m) \subseteq C \cup CommentsOf(m)
<1>1. OnPars(P, m) \subseteq P \cup Mentions(m)
  BY DEF OnPars, Mentions
<1>2. OnComments(C, m) \subseteq C \cup CommentsOf(m)
  <2>1. CASE AboutComment(m)
    BY <2>1 DEF OnComments, CommentsOf, CommentsAfter, Without
  <2>2. CASE ~ AboutComment(m)
    BY <2>2 DEF OnComments, CommentsOf
  <2>3. QED
    BY <2>1, <2>2
<1>3. QED
  BY <1>1, <1>2

\* A message leaves comments that were there, and its own.
LEMMA CommentsWithin ==
  ASSUME NEW C, NEW m
  PROVE  OnComments(C, m) \subseteq C \cup CommentsOf(m)
  BY EffectWithin

\* Messages that stay where they are.
LEMMA StaysInPlace ==
  ASSUME TypeInv, NEW v \in Users
  PROVE  /\ up'[v] = up[v] =>
              \A i \in DOMAIN up'[v] : \E k \in DOMAIN up[v] :
                 /\ up'[v][i] = up[v][k]
                 /\ \A j \in 1 .. (i - 1) : \E l \in 1 .. (k - 1) : up'[v][j] = up[v][l]
         /\ down'[v] = down[v] =>
              \A i \in DOMAIN down'[v] : \E k \in DOMAIN down[v] :
                 /\ down'[v][i] = down[v][k]
                 /\ \A j \in 1 .. (i - 1) : \E l \in 1 .. (k - 1) : down'[v][j] = down[v][l]
  OBVIOUS

\* An editor that receives a message moves paragraphs and comments into its File.
LEMMA HeardMoves ==
  ASSUME TypeInv, NEW u \in Users, Hears(u)
  PROVE  Moves
<1>0. /\ \A v \in Users \ {u} : down'[v] = down[v]
      /\ 1 \in DOMAIN down[u]
      /\ \A i \in DOMAIN down'[u] :
               /\ i \in Nat /\ i + 1 \in DOMAIN down[u] /\ down'[u][i] = down[u][i + 1]
               /\ \A j \in 1 .. (i - 1) : j + 1 \in 1 .. ((i + 1) - 1) /\ j \in DOMAIN down'[u]
               /\ 1 \in 1 .. ((i + 1) - 1)
  BY HeardDown
<1>1. /\ pars'[u] = OnPars(pars[u], down[u][1])
      /\ comments'[u] = OnComments(comments[u], down[u][1])
      /\ \A r \in Replicas \ {u} : pars'[r] = pars[r] /\ comments'[r] = comments[r]
      /\ made' = made /\ lastNo' = lastNo /\ up' = up /\ u \in Replicas
  BY Channels DEF Hears, TypeInv
<1>2. /\ pars'[u] \subseteq pars[u] \cup Mentions(down[u][1])
      /\ comments'[u] \subseteq comments[u] \cup CommentsOf(down[u][1])
  BY <1>1, EffectWithin
<1>3. \A v \in Users : \A i \in DOMAIN up'[v] : \E k \in DOMAIN up[v] :
              /\ up'[v][i] = up[v][k]
              /\ \A j \in 1 .. (i - 1) : \E l \in 1 .. (k - 1) : up'[v][j] = up[v][l]
  BY <1>1, StaysInPlace
<1>4. ASSUME NEW v \in Users, NEW i \in DOMAIN down'[v]
      PROVE  \E k \in DOMAIN down[v] :
              /\ down'[v][i] = down[v][k]
              /\ \A j \in 1 .. (i - 1) : \E l \in 1 .. (k - 1) : down'[v][j] = down[v][l]
              /\ pars'[v] \subseteq pars[v] \/ 1 \in 1 .. (k - 1)
  <2>1. CASE v = u
    <3>1. /\ i + 1 \in DOMAIN down[u] /\ down'[u][i] = down[u][i + 1] /\ 1 \in 1 .. ((i + 1) - 1)
          /\ \A j \in 1 .. (i - 1) : j + 1 \in 1 .. ((i + 1) - 1) /\ down'[u][j] = down[u][j + 1]
      BY <1>0, <1>4, <2>1
    <3>2. QED
      BY <2>1, <3>1
  <2>2. CASE v # u
    <3>1. down'[v] = down[v] /\ pars'[v] = pars[v]
      BY <1>0, <1>1, <2>2, Channels
    <3>2. QED
      BY <1>4, <3>1, StaysInPlace
  <2>3. QED
    BY <2>1, <2>2
<1>5. QED
  BY <1>0, <1>1, <1>2, <1>3, <1>4 DEF Moves

\* An editor that receives a message follows as before: it was the first on the way.
LEMMA HeardUser ==
  ASSUME TypeInv, NEW u \in Users, Hears(u), Session(u), Follows(u),
         Meets(Held(Server), up[u]), Meets(Held(u), down[u])
  PROVE  /\ Session(u)' /\ Follows(u)'
         /\ Meets(Held(Server), up[u])' /\ Meets(Held(u), down[u])'
<1>. DEFINE X == Held(u)
            Z == Held(Server)
            m == down[u][1]
<1>0. /\ Len(down'[u]) \in Nat /\ IsTail(down'[u], down[u]) /\ 1 \in DOMAIN down[u]
      /\ DOMAIN down'[u] = 1 .. Len(down'[u]) /\ DOMAIN down[u] = 1 .. Len(down[u])
      /\ \A i \in DOMAIN down'[u] :
               i \in Nat /\ i + 1 \in DOMAIN down[u] /\ down'[u][i] = down[u][i + 1]
  BY HeardDown
<1>1. Held(u)' = Effect(X, m) /\ Held(Server)' = Z
  BY HeardHeld
<1>2. up' = up /\ inFile' = inFile /\ Gets(u)' = Gets(u) /\ ~ Ended(u) /\ down[u] # << >>
  BY DEF Hears, Gets, Session
<1>3. m.type = "file" => window[u] = "opening" /\ Files(u) = {1} /\ u \in inFile /\ up[u] = << >>
  <2>1. HAVE m.type = "file"
  <2>2. 1 \in Files(u)
    BY <1>0, <2>1 DEF Files
  <2>3. window[u] \in Windows /\ window[u] \notin {"closed", "open", "left"}
    BY <2>2 DEF TypeInv, Session
  <2>4. window[u] = "opening"
    BY <1>2, <2>3 DEF Windows, Ended
  <2>5. u \in inFile /\ up[u] = << >> /\ \E k \in DOMAIN down[u] : Files(u) = {k}
    BY <2>2, <2>4 DEF Session
  <2>6. QED
    BY <2>2, <2>4, <2>5
<1>4. /\ Files(u) = {} => Files(u)' = {}
      /\ m.type = "file" => Files(u)' = {}
      /\ m.type # "file" /\ (\E k \in DOMAIN down[u] : Files(u) = {k}) =>
           \E k \in DOMAIN down'[u] : Files(u)' = {k}
  <2>1. Files(u) = {} => Files(u)' = {}
    BY <1>0 DEF Files
  <2>2. m.type = "file" => Files(u)' = {}
    <3>1. HAVE m.type = "file"
    <3>2. \A i \in DOMAIN down'[u] : i + 1 \notin Files(u)
      BY <1>0, <1>3, <3>1
    <3>3. QED
      BY <1>0, <3>2 DEF Files
  <2>3. ASSUME m.type # "file", NEW k \in DOMAIN down[u], Files(u) = {k}
        PROVE  \E l \in DOMAIN down'[u] : Files(u)' = {l}
    <3>1. k # 1 /\ down[u][k].type = "file"
      BY <2>3 DEF Files
    <3>2. k - 1 \in DOMAIN down'[u] /\ down'[u][k - 1] = down[u][k]
      BY <1>0, <2>3, <3>1 DEF IsTail
    <3>3. \A i \in DOMAIN down'[u] : down'[u][i].type = "file" => i = k - 1
      <4>. TAKE i \in DOMAIN down'[u]
      <4>1. HAVE down'[u][i].type = "file"
      <4>2. i + 1 \in Files(u)
        BY <1>0, <4>1 DEF Files
      <4>3. i + 1 = k
        BY <2>3, <4>2
      <4>4. QED
        BY <1>0, <4>3
    <3>4. Files(u)' = {k - 1}
      BY <3>1, <3>2, <3>3 DEF Files
    <3>5. QED
      BY <3>2, <3>4
  <2>4. QED
    BY <2>1, <2>2, <2>3
<1>5. Session(u)'
  <2>1. CASE m.type = "file"
    <3>1. window'[u] = "open"
      BY <2>1 DEF Hears, TypeInv
    <3>2. up'[u] = << >> /\ Gets(u)' = {}
      BY <1>2, <1>3, <2>1 DEF Gets
    <3>3. QED
      BY <1>2, <1>3, <1>4, <2>1, <3>1, <3>2 DEF Session, Ended
  <2>2. CASE m.type # "file"
    <3>1. window' = window /\ Ended(u)' = Ended(u)
      BY <2>2 DEF Hears, Ended
    <3>2. QED
      BY <1>2, <1>4, <2>2, <3>1 DEF Session, IsEdit
  <2>3. QED
    BY <2>1, <2>2
<1>6. Follows(u)'
  <2>1. SUFFICES ASSUME u \in inFile
                 PROVE  After(Effect(X, m), down'[u]) = After(Z, up[u])
    BY <1>1, <1>2 DEF Follows
  <2>2. After(X, down[u]) = After(Z, up[u])
    BY <1>2, <2>1 DEF Follows
  <2>. HIDE DEF X
  <2>3. After(Effect(X, m), down'[u]) = After(X, down[u])
    BY <1>0, StepsTail
  <2>4. QED
    BY <2>2, <2>3
<1>7. Meets(Held(Server), up[u])'
  BY <1>1, <1>2 DEF Meets, Alters, Has
<1>8. Meets(Held(u), down[u])'
  <2>1. SUFFICES ASSUME NEW i \in DOMAIN down'[u], Alters(down'[u][i])
                 PROVE  Has(Steps(Effect(X, m), down'[u])[i - 1].comments, down'[u][i].comment)
    BY <1>1 DEF Meets, Alters, Has
  <2>2. Has(Steps(X, down[u])[(i + 1) - 1].comments, down[u][i + 1].comment)
    BY <1>0, <2>1 DEF Meets
  <2>3. i - 1 \in 0 .. Len(down'[u]) /\ (i - 1) + 1 = i /\ (i + 1) - 1 = i
    BY <1>0, <2>1
  <2>. HIDE DEF X
  <2>4. Steps(Effect(X, m), down'[u])[i - 1] = Steps(X, down[u])[(i - 1) + 1]
    <3>1. \A k \in 0 .. Len(down'[u]) :
             Steps(Effect(X, m), down'[u])[k] = Steps(X, down[u])[k + 1]
      BY <1>0, StepsTail, SMTT(60)
    <3>2. QED
      BY <2>3, <3>1, Zenon
  <2>5. QED
    BY <1>0, <2>1, <2>2, <2>3, <2>4
<1>9. QED
  BY <1>5, <1>6, <1>7, <1>8

\* The invariant holds after an editor has received a message.
LEMMA HeardStep ==
  ASSUME TypeInv, FollowInv, NEW u \in Users, Hears(u)
  PROVE  FollowInv'
<1>1. ASSUME NEW v \in Users
      PROVE  /\ Session(v)' /\ Follows(v)'
             /\ Meets(Held(Server), up[v])' /\ Meets(Held(v), down[v])'
  <2>1. /\ Session(v) /\ Follows(v) /\ Meets(Held(Server), up[v]) /\ Meets(Held(v), down[v])
    BY DEF FollowInv
  <2>2. CASE v = u
    BY <2>1, <2>2, HeardUser
  <2>3. CASE v # u
    <3>1. Untouched(v)
      BY <2>3, Channels DEF Hears, Untouched, TypeInv
    <3>2. QED
      BY <2>1, <3>1, UntouchedHolds
  <2>4. QED
    BY <2>2, <2>3
<1>2. Moves
  BY HeardMoves
<1>3. QED
  BY <1>1, <1>2, MovedStep

(***************************************************************************)
(* A client ends: of what it had written the server receives the first n     *)
(* messages, then ones that only say what the editor held.                   *)
(***************************************************************************)
Falls(u, n) ==
  /\ window'[u] \in Windows /\ Ended(u)' /\ \A v \in Users \ {u} : window'[v] = window[v]
  /\ down' = [down EXCEPT ![u] = << >>]
  /\ \A v \in Users \ {u} : up'[v] = up[v]
  /\ n \in 0 .. Len(up[u]) /\ up'[u] \in Seq(UpMsg) /\ n <= Len(up'[u])
  /\ \A i \in 1 .. n : up'[u][i] = up[u][i]
  /\ \A i \in DOMAIN up'[u] : i \notin 1 .. n => Carries(up'[u][i], u) /\ ~ Alters(up'[u][i])
  /\ \A r \in Replicas \ {u} : pars'[r] = pars[r] /\ comments'[r] = comments[r]
  /\ \/ pars'[u] = pars[u] /\ comments'[u] = comments[u]
     \/ /\ 1 \in DOMAIN down[u] /\ down[u][1].type = "file"
        /\ pars'[u] = down[u][1].pars /\ comments'[u] = down[u][1].comments
  /\ inFile' = inFile /\ made' = made /\ lastNo' = lastNo

\* A client that ends only loses paragraphs, comments and messages.
LEMMA FallenMoves ==
  ASSUME TypeInv, NEW u \in Users, NEW n, Falls(u, n)
  PROVE  Moves
<1>1. ASSUME NEW v \in Users, NEW i \in DOMAIN up'[v]
      PROVE  \/ Carries(up'[v][i], v)
             \/ \E k \in DOMAIN up[v] :
                   /\ up'[v][i] = up[v][k]
                   /\ \A j \in 1 .. (i - 1) : \E l \in 1 .. (k - 1) : up'[v][j] = up[v][l]
  <2>1. CASE v # u
    <3>1. up'[v] = up[v]
      BY <2>1 DEF Falls
    <3>2. QED
      BY <1>1, <3>1, StaysInPlace
  <2>2. CASE v = u /\ i \in 1 .. n
    <3>1. i \in DOMAIN up[u] /\ \A j \in 1 .. (i - 1) : j \in 1 .. n
      BY <2>2, Channels DEF Falls
    <3>2. up'[u][i] = up[u][i] /\ \A j \in 1 .. (i - 1) : up'[u][j] = up[u][j]
      BY <2>2, <3>1 DEF Falls
    <3>3. QED
      BY <2>2, <3>1, <3>2
  <2>3. CASE v = u /\ i \notin 1 .. n
    BY <1>1, <2>3 DEF Falls
  <2>4. QED
    BY <2>1, <2>2, <2>3
<1>2. ASSUME NEW v \in Users, NEW i \in DOMAIN down'[v]
      PROVE  \E k \in DOMAIN down[v] :
              /\ down'[v][i] = down[v][k]
              /\ \A j \in 1 .. (i - 1) : \E l \in 1 .. (k - 1) : down'[v][j] = down[v][l]
              /\ pars'[v] \subseteq pars[v] \/ 1 \in 1 .. (k - 1)
  <2>1. v # u
    BY <1>2 DEF Falls, TypeInv
  <2>2. down'[v] = down[v] /\ pars'[v] = pars[v]
    BY <2>1, Channels DEF Falls, TypeInv
  <2>3. QED
    BY <1>2, <2>2, StaysInPlace
<1>3. ASSUME NEW r \in Replicas
      PROVE  \/ pars'[r] \subseteq pars[r] /\ comments'[r] \subseteq comments[r]
             \/ /\ r \in Users /\ 1 \in DOMAIN down[r]
                /\ pars'[r] \subseteq pars[r] \cup Mentions(down[r][1])
                /\ comments'[r] \subseteq comments[r] \cup CommentsOf(down[r][1])
  BY DEF Falls, Mentions, CommentsOf, AboutComment
<1>4. made' = made /\ lastNo' = lastNo
  BY DEF Falls
<1>5. QED
  BY <1>1, <1>2, <1>3, <1>4 DEF Moves

\* The invariant holds after a client has ended.
LEMMA FallenStep ==
  ASSUME TypeInv, FollowInv, NEW u \in Users, NEW n, Falls(u, n)
  PROVE  FollowInv'
<1>1. ASSUME NEW v \in Users \ {u}
      PROVE  /\ Session(v)' /\ Follows(v)'
             /\ Meets(Held(Server), up[v])' /\ Meets(Held(v), down[v])'
  <2>1. /\ Session(v) /\ Follows(v) /\ Meets(Held(Server), up[v]) /\ Meets(Held(v), down[v])
    BY DEF FollowInv
  <2>2. Untouched(v)
    BY Channels DEF Falls, Untouched, TypeInv
  <2>3. QED
    BY <2>1, <2>2, UntouchedHolds
<1>2. down'[u] = << >> /\ Ended(u)'
  BY DEF Falls, TypeInv
<1>3. Session(u)'
  BY <1>2 DEF Session, Ended
<1>4. Follows(u)'
  BY <1>2 DEF Follows
<1>5. Meets(Held(u), down[u])'
  BY <1>2 DEF Meets
<1>6. Meets(Held(Server), up[u])'
  <2>. DEFINE Z == Held(Server)
  <2>1. Held(Server)' = Z
    BY Channels DEF Falls, Held, Replicas
  <2>2. SUFFICES ASSUME NEW i \in DOMAIN up'[u], Alters(up'[u][i])
                 PROVE  Has(Steps(Z, up'[u])[i - 1].comments, up'[u][i].comment)
    BY <2>1 DEF Meets, Alters, Has
  <2>3. /\ i \in 1 .. n /\ n \in Nat /\ n <= Len(up[u]) /\ n <= Len(up'[u]) /\ i \in DOMAIN up[u]
        /\ Len(up[u]) \in Nat /\ Len(up'[u]) \in Nat
        /\ \A j \in 1 .. n : up'[u][j] = up[u][j]
    BY <2>2, Channels DEF Falls
  <2>4. Has(Steps(Z, up[u])[i - 1].comments, up[u][i].comment)
    BY <2>2, <2>3 DEF FollowInv, Meets
  <2>5. i - 1 \in 0 .. n
    BY <2>3
  <2>. HIDE DEF Z
  <2>6. Steps(Z, up'[u])[i - 1] = Steps(Z, up[u])[i - 1]
    BY <2>3, <2>5, StepsPrefix, SMTT(60)
  <2>7. QED
    BY <2>3, <2>4, <2>6
<1>7. Moves
  BY FallenMoves
<1>8. QED
  BY <1>1, <1>3, <1>4, <1>5, <1>6, <1>7, MovedStep

(***************************************************************************)
(* A user opens the file, or leaves it: a message that changes nothing.      *)
(***************************************************************************)
Turns(u, how, m) ==
  /\ \/ window[u] = "closed" /\ how = "opening" /\ m.type = "get"
     \/ window[u] = "open" /\ how \in {"closed", "left"} /\ m.type \in {"close", "remove"}
  /\ m \in UpMsg
  /\ window' = [window EXCEPT ![u] = how]
  /\ up' = [up EXCEPT ![u] = Append(@, m)]
  /\ pars' = pars /\ comments' = comments /\ down' = down
  /\ inFile' = inFile /\ made' = made /\ lastNo' = lastNo

\* The channel of a client that has sent a request.
LEMMA TurnedUp ==
  ASSUME TypeInv, NEW u \in Users, NEW how, NEW m, Turns(u, how, m)
  PROVE  /\ \A v \in Users \ {u} : up'[v] = up[v]
         /\ IsAppend(up'[u], up[u], m) /\ Len(up[u]) \in Nat /\ DOMAIN up[u] = 1 .. Len(up[u])
         /\ DOMAIN up'[u] = 1 .. (Len(up[u]) + 1)
         /\ \A i \in DOMAIN up'[u] : i \in DOMAIN up[u] \/ i = Len(up[u]) + 1
         /\ \A i \in DOMAIN up[u] : /\ up'[u][i] = up[u][i] /\ i \in DOMAIN up'[u]
                                    /\ \A j \in 1 .. (i - 1) : j \in DOMAIN up[u]
         /\ up'[u][Len(up[u]) + 1] = m /\ Len(up'[u]) = Len(up[u]) + 1
<1>1. /\ up[u] \in Seq(UpMsg) /\ m \in UpMsg /\ up'[u] = Append(up[u], m)
      /\ \A v \in Users \ {u} : up'[v] = up[v]
  BY Channels DEF Turns, TypeInv
<1>. DEFINE q == up[u]
            r == up'[u]
<1>2. r \in Seq(UpMsg) /\ IsAppend(r, q, m) /\ Len(q) \in Nat
  <2>1. q \in Seq(UpMsg) /\ m \in UpMsg /\ r = Append(q, m)
    BY <1>1
  <2>. HIDE DEF q, r
  <2>2. QED
    BY <2>1, AppendFacts
<1>3. DOMAIN r = 1 .. (Len(q) + 1) /\ DOMAIN q = 1 .. Len(q)
  BY <1>1, <1>2 DEF IsAppend
<1>4. \A i \in DOMAIN r : i \in DOMAIN q \/ i = Len(q) + 1
  BY <1>2, <1>3
<1>5. ASSUME NEW i \in DOMAIN q
      PROVE  r[i] = q[i] /\ i \in DOMAIN r /\ \A j \in 1 .. (i - 1) : j \in DOMAIN q
  BY <1>2, <1>3, <1>5 DEF IsAppend
<1>6. QED
  BY <1>1, <1>2, <1>3, <1>4, <1>5 DEF IsAppend


\* Messages that change nothing.
LEMMA SilentFacts ==
  ASSUME NEW m, m.type \in {"upd", "get", "close", "remove"}
  PROVE  /\ \A P : OnPars(P, m) = P
         /\ \A C : OnComments(C, m) = C
         /\ Brings(m) = {} /\ Mentions(m) = {} /\ ~ AboutComment(m) /\ CommentsOf(m) = {}
         /\ ~ Alters(m) /\ \A r : Carries(m, r)
  BY DEF OnPars, OnComments, Brings, Mentions, AboutComment, CommentsOf, Alters, Carries

\* Such a message leaves what a replica holds.
LEMMA SilentHeld ==
  ASSUME NEW m, m.type \in {"upd", "get", "close", "remove"}, NEW r
  PROVE  Effect(Held(r), m) = Held(r)
  BY SilentFacts DEF Effect, Held

\* Such a message leaves what other messages have made of a replica.
LEMMA SilentEffect ==
  ASSUME NEW m, m.type \in {"upd", "get", "close", "remove"}, NEW r, NEW q, Len(q) \in Nat
  PROVE  Effect(After(Held(r), q), m) = After(Held(r), q)
<1>1. After(Held(r), q) = [pars |-> After(Held(r), q).pars, comments |-> After(Held(r), q).comments]
  BY AfterRecord
<1>2. QED
  BY <1>1, SilentFacts DEF Effect

\* The invariant holds after a client has asked for the file, closed it or dropped the link.
LEMMA TurnedStep ==
  ASSUME TypeInv, FollowInv, NEW u \in Users, NEW how, NEW m, Turns(u, how, m)
  PROVE  FollowInv'
<1>. DEFINE Z == Held(Server)
<1>0. /\ \A v \in Users \ {u} : up'[v] = up[v]
      /\ IsAppend(up'[u], up[u], m) /\ Len(up[u]) \in Nat /\ DOMAIN up[u] = 1 .. Len(up[u])
      /\ DOMAIN up'[u] = 1 .. (Len(up[u]) + 1)
      /\ \A i \in DOMAIN up'[u] : i \in DOMAIN up[u] \/ i = Len(up[u]) + 1
      /\ \A i \in DOMAIN up[u] : /\ up'[u][i] = up[u][i] /\ i \in DOMAIN up'[u]
                                 /\ \A j \in 1 .. (i - 1) : j \in DOMAIN up[u]
      /\ up'[u][Len(up[u]) + 1] = m /\ Len(up'[u]) = Len(up[u]) + 1
  BY TurnedUp
<1>1. /\ pars' = pars /\ comments' = comments /\ down' = down /\ inFile' = inFile
      /\ \A v \in Users \ {u} : window'[v] = window[v]
      /\ window'[u] = how /\ made' = made /\ lastNo' = lastNo
      /\ \A r \in Replicas : Held(r)' = Held(r)
      /\ m.type \in {"upd", "get", "close", "remove"}
      /\ \A v \in Users : Files(v)' = Files(v)
  BY DEF Turns, TypeInv, Held, Files
<1>2. ASSUME NEW v \in Users \ {u}
      PROVE  /\ Session(v)' /\ Follows(v)'
             /\ Meets(Held(Server), up[v])' /\ Meets(Held(v), down[v])'
  <2>1. /\ Session(v) /\ Follows(v) /\ Meets(Held(Server), up[v]) /\ Meets(Held(v), down[v])
    BY DEF FollowInv
  <2>2. Untouched(v)
    BY <1>0, <1>1 DEF Untouched
  <2>3. QED
    BY <2>1, <2>2, UntouchedHolds
<1>3. Session(u)'
  <2>1. Session(u) /\ ~ Ended(u) /\ ~ Ended(u)'
    BY <1>1 DEF FollowInv, Turns, Ended
  <2>2. Files(u)' = {} /\ Gets(u) = {}
    BY <1>1, <2>1 DEF Session, Turns
  <2>3. CASE how = "opening"
    <3>1. m.type = "get" /\ up'[u] # << >>
      <4>1. m.type = "get"
        BY <2>3 DEF Turns
      <4>2. 1 \in DOMAIN up'[u]
        BY <1>0
      <4>3. QED
        BY <4>1, <4>2
    <3>2. Gets(u)' = {Len(up'[u])}
      <4>1. \A i \in DOMAIN up[u] : up'[u][i].type # "get"
        BY <1>0, <2>2 DEF Gets
      <4>2. Len(up[u]) + 1 \in DOMAIN up'[u]
        BY <1>0
      <4>3. QED
        BY <1>0, <3>1, <4>1, <4>2 DEF Gets
    <3>3. QED
      BY <1>1, <2>1, <2>2, <2>3, <3>1, <3>2 DEF Session
  <2>4. CASE how \in {"closed", "left"}
    <3>1. m.type # "get"
      BY <2>4 DEF Turns
    <3>2. Gets(u)' = {}
      BY <1>0, <2>2, <3>1 DEF Gets
    <3>3. QED
      BY <1>1, <2>1, <2>2, <2>4, <3>2 DEF Session
  <2>5. QED
    BY <2>3, <2>4 DEF Turns
<1>4. Follows(u)'
  <2>1. Ended(u)' = Ended(u) /\ Held(u)' = Held(u) /\ Held(Server)' = Z
    BY <1>1, Channels DEF Turns, Ended
  <2>2. Effect(After(Z, up[u]), m) = After(Z, up[u])
    BY <1>0, <1>1, SilentEffect
  <2>3. After(Z, up'[u]) = Effect(After(Z, up[u]), m)
    <3>. HIDE DEF Z
    <3>1. QED
      BY <1>0, StepsAppend
  <2>4. QED
    BY <1>1, <2>1, <2>2, <2>3 DEF Follows, FollowInv
<1>5. Meets(Held(u), down[u])'
  <2>1. Held(u)' = Held(u) /\ down'[u] = down[u]
    BY <1>1, Channels
  <2>2. QED
    BY <2>1 DEF FollowInv, Meets, Alters, Has
<1>6. Meets(Held(Server), up[u])'
  <2>1. Held(Server)' = Z
    BY <1>1, Channels
  <2>2. SUFFICES ASSUME NEW i \in DOMAIN up'[u], Alters(up'[u][i])
                 PROVE  Has(Steps(Z, up'[u])[i - 1].comments, up'[u][i].comment)
    BY <2>1 DEF Meets, Alters, Has
  <2>3. i \in DOMAIN up[u]
    BY <1>0, <1>1, <2>2, SilentFacts
  <2>4. Has(Steps(Z, up[u])[i - 1].comments, up[u][i].comment)
    BY <1>0, <2>2, <2>3 DEF FollowInv, Meets
  <2>5. i - 1 \in 0 .. Len(up[u]) /\ up'[u][i] = up[u][i]
    BY <1>0, <2>3
  <2>. HIDE DEF Z
  <2>6. Steps(Z, up'[u])[i - 1] = Steps(Z, up[u])[i - 1]
    BY <1>0, <2>5, StepsAppend
  <2>7. QED
    BY <2>4, <2>5, <2>6
<1>7. Moves
  <2>1. ASSUME NEW v \in Users, NEW i \in DOMAIN up'[v]
        PROVE  \/ Carries(up'[v][i], v)
               \/ \E k \in DOMAIN up[v] :
                     /\ up'[v][i] = up[v][k]
                     /\ \A j \in 1 .. (i - 1) : \E l \in 1 .. (k - 1) : up'[v][j] = up[v][l]
    <3>1. CASE v # u
      BY <1>0, <2>1, <3>1, StaysInPlace
    <3>2. CASE v = u /\ i \in DOMAIN up[u]
      BY <1>0, <3>2
    <3>3. CASE v = u /\ i \notin DOMAIN up[u]
      BY <1>0, <1>1, <2>1, <3>3, SilentFacts
    <3>4. QED
      BY <3>1, <3>2, <3>3
  <2>2. \A v \in Users : \A i \in DOMAIN down'[v] : \E k \in DOMAIN down[v] :
              /\ down'[v][i] = down[v][k]
              /\ \A j \in 1 .. (i - 1) : \E l \in 1 .. (k - 1) : down'[v][j] = down[v][l]
    BY <1>1, StaysInPlace
  <2>3. QED
    BY <1>1, <2>1, <2>2 DEF Moves
<1>8. QED
  BY <1>2, <1>3, <1>4, <1>5, <1>6, <1>7, MovedStep

(***************************************************************************)
(* The server takes a message that changes neither paragraphs nor comments:  *)
(* a close or a removal, or a request, which the file answers.               *)
(***************************************************************************)
Takings(u) ==
  /\ up[u] # << >> /\ up[u][1].type \in {"get", "close", "remove"}
  /\ up' = [up EXCEPT ![u] = Tail(@)]
  /\ pars' = pars /\ comments' = comments /\ window' = window
  /\ made' = made /\ lastNo' = lastNo

\* The channel of a user after the server has taken a request off it.
LEMMA TakenUp ==
  ASSUME TypeInv, NEW u \in Users, Takings(u)
  PROVE  /\ \A v \in Users \ {u} : up'[v] = up[v]
         /\ Len(up'[u]) \in Nat /\ IsTail(up'[u], up[u]) /\ 1 \in DOMAIN up[u]
         /\ DOMAIN up'[u] = 1 .. Len(up'[u]) /\ DOMAIN up[u] = 1 .. Len(up[u]) /\ Len(up[u]) \in Nat
         /\ \A i \in DOMAIN up'[u] :
               /\ i \in Nat /\ i + 1 \in DOMAIN up[u] /\ up'[u][i] = up[u][i + 1]
               /\ \A j \in 1 .. (i - 1) : j + 1 \in 1 .. ((i + 1) - 1) /\ j \in DOMAIN up'[u]
<1>1. /\ up[u] \in Seq(UpMsg) /\ up'[u] = Tail(up[u]) /\ up[u] # << >>
      /\ \A v \in Users \ {u} : up'[v] = up[v]
  BY Channels DEF Takings, TypeInv
<1>. DEFINE q == up[u]
            r == up'[u]
<1>2. /\ r \in Seq(UpMsg) /\ IsTail(r, q) /\ Len(q) \in Nat /\ Len(r) \in Nat
      /\ 1 \in DOMAIN q /\ \A i \in 1 .. Len(r) : i + 1 \in DOMAIN q
  <2>1. q \in Seq(UpMsg) /\ r = Tail(q) /\ q # << >>
    BY <1>1
  <2>. HIDE DEF q, r
  <2>2. QED
    BY <2>1, TailFacts
<1>3. DOMAIN r = 1 .. Len(r) /\ DOMAIN q = 1 .. Len(q)
  BY <1>1, <1>2
<1>4. ASSUME NEW i \in DOMAIN r
      PROVE  /\ i \in Nat /\ i + 1 \in DOMAIN q /\ r[i] = q[i + 1]
             /\ \A j \in 1 .. (i - 1) : j + 1 \in 1 .. ((i + 1) - 1) /\ j \in DOMAIN r
  BY <1>2, <1>3, <1>4 DEF IsTail
<1>5. QED
  BY <1>1, <1>2, <1>3, <1>4

\* What the server still has to take is the same without the first.
LEMMA TakenServer ==
  ASSUME TypeInv, NEW u \in Users, Takings(u), Meets(Held(Server), up[u])
  PROVE  /\ Held(Server)' = Held(Server)
         /\ After(Held(Server), up'[u]) = After(Held(Server), up[u])
         /\ Meets(Held(Server), up[u])'
<1>. DEFINE Z == Held(Server)
<1>0. /\ Len(up'[u]) \in Nat /\ IsTail(up'[u], up[u]) /\ 1 \in DOMAIN up[u]
      /\ DOMAIN up'[u] = 1 .. Len(up'[u]) /\ Len(up[u]) \in Nat
      /\ \A i \in DOMAIN up'[u] :
               i \in Nat /\ i + 1 \in DOMAIN up[u] /\ up'[u][i] = up[u][i + 1]
  BY TakenUp
<1>1. Held(Server)' = Z
  BY DEF Takings, Held
<1>2. Effect(Z, up[u][1]) = Z
  <2>1. up[u][1].type \in {"upd", "get", "close", "remove"}
    BY DEF Takings
  <2>2. QED
    BY <2>1, SilentHeld
<1>3. /\ \A i \in 0 .. Len(up'[u]) : Steps(Z, up'[u])[i] = Steps(Z, up[u])[i + 1]
      /\ After(Z, up'[u]) = After(Z, up[u])
  <2>. HIDE DEF Z
  <2>1. /\ \A i \in 0 .. Len(up'[u]) : Steps(Effect(Z, up[u][1]), up'[u])[i] = Steps(Z, up[u])[i + 1]
        /\ After(Effect(Z, up[u][1]), up'[u]) = After(Z, up[u])
    BY <1>0, StepsTail, SMTT(60)
  <2>2. QED
    BY <1>2, <2>1
<1>4. SUFFICES ASSUME NEW i \in DOMAIN up'[u], Alters(up'[u][i])
               PROVE  Has(Steps(Z, up'[u])[i - 1].comments, up'[u][i].comment)
  BY <1>1, <1>3 DEF Meets, Alters, Has
<1>5. Has(Steps(Z, up[u])[(i + 1) - 1].comments, up[u][i + 1].comment)
  BY <1>0, <1>4 DEF Meets
<1>6. i - 1 \in 0 .. Len(up'[u]) /\ (i - 1) + 1 = i /\ (i + 1) - 1 = i
  BY <1>0, <1>4
<1>7. Steps(Z, up'[u])[i - 1] = Steps(Z, up[u])[(i - 1) + 1]
  BY <1>3, <1>6
<1>8. QED
  BY <1>0, <1>4, <1>5, <1>6, <1>7

\* The requests that are left are those that were behind.
LEMMA TakenMovesUp ==
  ASSUME TypeInv, NEW u \in Users, Takings(u), NEW v \in Users, NEW i \in DOMAIN up'[v]
  PROVE  \E k \in DOMAIN up[v] :
            /\ up'[v][i] = up[v][k]
            /\ \A j \in 1 .. (i - 1) : \E l \in 1 .. (k - 1) : up'[v][j] = up[v][l]
<1>0. /\ \A w \in Users \ {u} : up'[w] = up[w]
      /\ \A k \in DOMAIN up'[u] :
               /\ k \in Nat /\ k + 1 \in DOMAIN up[u] /\ up'[u][k] = up[u][k + 1]
               /\ \A j \in 1 .. (k - 1) : j + 1 \in 1 .. ((k + 1) - 1) /\ j \in DOMAIN up'[u]
  BY TakenUp
<1>1. CASE v = u
  <2>1. /\ i + 1 \in DOMAIN up[u] /\ up'[u][i] = up[u][i + 1]
        /\ \A j \in 1 .. (i - 1) : j + 1 \in 1 .. ((i + 1) - 1) /\ up'[u][j] = up[u][j + 1]
    BY <1>0, <1>1
  <2>2. QED
    BY <1>1, <2>1
<1>2. CASE v # u
  BY <1>0, <1>2, StaysInPlace
<1>3. QED
  BY <1>1, <1>2

\* What Session says of a user whose request or farewell comes first.
LEMMA TakenSession ==
  ASSUME TypeInv, NEW u \in Users, Takings(u), Session(u)
  PROVE  /\ window[u] # "open"
         /\ up[u][1].type = "get" => window[u] \notin {"closed", "left"}
         /\ up[u][1].type = "get" /\ window[u] = "opening" =>
               Files(u) = {} /\ up'[u] = << >> /\ Len(up'[u]) = 0
         /\ window[u] \in {"closed", "left"} => Gets(u)' = {}
         /\ up[u][1].type # "get" /\ window[u] = "opening" =>
               Files(u) = {} /\ up'[u] # << >> /\ Gets(u)' = {Len(up'[u])}
<1>0. /\ Len(up'[u]) \in Nat /\ IsTail(up'[u], up[u]) /\ 1 \in DOMAIN up[u]
      /\ DOMAIN up'[u] = 1 .. Len(up'[u]) /\ DOMAIN up[u] = 1 .. Len(up[u]) /\ Len(up[u]) \in Nat
      /\ \A i \in DOMAIN up'[u] : i + 1 \in DOMAIN up[u] /\ up'[u][i] = up[u][i + 1]
  BY TakenUp
<1>1. up[u][1].type \in {"get", "close", "remove"} /\ up[u] # << >> /\ up'[u] = Tail(up[u])
      /\ up[u] \in Seq(UpMsg)
  BY Channels DEF Takings, TypeInv
<1>2. window[u] # "open"
  BY <1>0, <1>1 DEF Session, IsEdit
<1>3. up[u][1].type = "get" => 1 \in Gets(u)
  BY <1>0 DEF Gets
<1>4. up[u][1].type = "get" => window[u] \notin {"closed", "left"}
  BY <1>3 DEF Session
<1>5. ASSUME up[u][1].type = "get", window[u] = "opening"
      PROVE  Files(u) = {} /\ up'[u] = << >> /\ Len(up'[u]) = 0
  <2>1. Files(u) = {} /\ Gets(u) = {Len(up[u])}
    BY <1>1, <1>5 DEF Session
  <2>2. Len(up[u]) = 1 /\ Len(up'[u]) = 0
    BY <1>0, <1>3, <1>5, <2>1 DEF IsTail
  <2>3. up'[u] = << >>
    <3>. DEFINE r == up'[u]
    <3>1. r \in Seq(UpMsg) /\ Len(r) = 0
      BY <1>1, <2>2
    <3>. HIDE DEF r
    <3>2. r = << >>
      BY <3>1
    <3>3. QED
      BY <3>2 DEF r
  <2>4. QED
    BY <2>1, <2>2, <2>3
<1>6. window[u] \in {"closed", "left"} => Gets(u)' = {}
  BY <1>0 DEF Session, Gets
<1>7. ASSUME up[u][1].type # "get", window[u] = "opening"
      PROVE  Files(u) = {} /\ up'[u] # << >> /\ Gets(u)' = {Len(up'[u])}
  <2>1. Files(u) = {} /\ Gets(u) = {Len(up[u])}
    BY <1>1, <1>7 DEF Session
  <2>2. Len(up[u]) # 1 /\ Len(up[u]) = Len(up'[u]) + 1 /\ up[u][Len(up[u])].type = "get"
    BY <1>0, <1>7, <2>1 DEF Gets, IsTail
  <2>3. Len(up'[u]) # 0 /\ Len(up'[u]) \in DOMAIN up'[u] /\ up'[u][Len(up'[u])] = up[u][Len(up[u])]
    BY <1>0, <2>2
  <2>4. \A i \in DOMAIN up'[u] : up'[u][i].type = "get" => i = Len(up'[u])
    <3>. TAKE i \in DOMAIN up'[u]
    <3>1. HAVE up'[u][i].type = "get"
    <3>2. i + 1 \in Gets(u)
      BY <1>0, <3>1 DEF Gets
    <3>3. i + 1 = Len(up[u])
      BY <2>1, <3>2
    <3>4. QED
      BY <1>0, <2>2, <3>3
  <2>5. QED
    BY <2>1, <2>2, <2>3, <2>4 DEF Gets
<1>8. QED
  BY <1>2, <1>4, <1>5, <1>6, <1>7

\* A request is answered by the file; whoever has ended gets none.
Admits(u, m) ==
  /\ Takings(u) /\ up[u][1].type = "get" /\ u \notin inFile
  /\ m \in DownMsg /\ m.type = "file"
  /\ m.pars = pars[Server] /\ m.comments = comments[Server]
  /\ inFile' = inFile \cup {u}
  /\ down' = [down EXCEPT ![u] = IF Ended(u) THEN @ ELSE Append(@, m)]

\* A close or a removal takes the client off the server's list.
Dismisses(u) ==
  /\ Takings(u) /\ up[u][1].type # "get"
  /\ inFile' = inFile \ {u} /\ down' = down

\* The invariant holds after the server has closed the file for a user.
LEMMA DismissedStep ==
  ASSUME TypeInv, FollowInv, NEW u \in Users, Dismisses(u)
  PROVE  FollowInv'
<1>0. Takings(u) /\ up[u][1].type # "get" /\ inFile' = inFile \ {u} /\ down' = down
  BY DEF Dismisses
<1>1. /\ pars' = pars /\ comments' = comments /\ window' = window /\ made' = made /\ lastNo' = lastNo
      /\ \A v \in Users : Files(v)' = Files(v) /\ Held(v)' = Held(v) /\ Ended(v)' = Ended(v)
  BY <1>0 DEF Takings, Files, Held, Ended
<1>2. ASSUME NEW v \in Users \ {u}
      PROVE  /\ Session(v)' /\ Follows(v)'
             /\ Meets(Held(Server), up[v])' /\ Meets(Held(v), down[v])'
  <2>1. /\ Session(v) /\ Follows(v) /\ Meets(Held(Server), up[v]) /\ Meets(Held(v), down[v])
    BY DEF FollowInv
  <2>2. up'[v] = up[v]
    BY <1>0, TakenUp
  <2>3. Untouched(v)
    BY <1>0, <1>1, <2>2 DEF Untouched
  <2>4. QED
    BY <2>1, <2>3, UntouchedHolds
<1>3. Session(u)'
  <2>1. Session(u)
    BY DEF FollowInv
  <2>2. /\ window[u] # "open"
        /\ window[u] \in {"closed", "left"} => Gets(u)' = {}
        /\ window[u] = "opening" => Files(u) = {} /\ up'[u] # << >> /\ Gets(u)' = {Len(up'[u])}
    BY <1>0, <2>1, TakenSession
  <2>3. QED
    BY <1>0, <1>1, <2>1, <2>2 DEF Session
<1>4. Follows(u)'
  BY <1>0 DEF Follows
<1>5. Meets(Held(u), down[u])'
  <2>1. Meets(Held(u), down[u])
    BY DEF FollowInv
  <2>2. QED
    BY <1>0, <1>1, <2>1 DEF Meets, Alters, Has
<1>6. Meets(Held(Server), up[u])'
  BY <1>0, TakenServer DEF FollowInv
<1>7. Moves
  <2>1. \A v \in Users : \A i \in DOMAIN up'[v] : \E k \in DOMAIN up[v] :
           /\ up'[v][i] = up[v][k]
           /\ \A j \in 1 .. (i - 1) : \E l \in 1 .. (k - 1) : up'[v][j] = up[v][l]
    BY <1>0, TakenMovesUp
  <2>2. \A v \in Users : \A i \in DOMAIN down'[v] : \E k \in DOMAIN down[v] :
           /\ down'[v][i] = down[v][k]
           /\ \A j \in 1 .. (i - 1) : \E l \in 1 .. (k - 1) : down'[v][j] = down[v][l]
    BY <1>0, StaysInPlace
  <2>3. QED
    BY <1>1, <2>1, <2>2 DEF Moves
<1>8. QED
  BY <1>2, <1>3, <1>4, <1>5, <1>6, <1>7, MovedStep

\* The channel to a user after the server has sent the file.
LEMMA AdmittedDown ==
  ASSUME TypeInv, NEW u \in Users, NEW m, Admits(u, m)
  PROVE  /\ \A v \in Users \ {u} : down'[v] = down[v]
         /\ Ended(u) => down'[u] = down[u]
         /\ ~ Ended(u) =>
              /\ IsAppend(down'[u], down[u], m) /\ Len(down[u]) \in Nat
              /\ DOMAIN down[u] = 1 .. Len(down[u]) /\ DOMAIN down'[u] = 1 .. (Len(down[u]) + 1)
              /\ \A i \in DOMAIN down'[u] : i \in DOMAIN down[u] \/ i = Len(down[u]) + 1
              /\ \A i \in DOMAIN down[u] : /\ down'[u][i] = down[u][i] /\ i \in DOMAIN down'[u]
                                           /\ \A j \in 1 .. (i - 1) : j \in DOMAIN down[u]
              /\ down'[u][Len(down[u]) + 1] = m
<1>1. /\ down[u] \in Seq(DownMsg) /\ m \in DownMsg
      /\ ~ Ended(u) => down'[u] = Append(down[u], m)
      /\ Ended(u) => down'[u] = down[u]
      /\ \A v \in Users \ {u} : down'[v] = down[v]
  BY Channels DEF Admits, TypeInv
<1>. DEFINE q == down[u]
            r == down'[u]
<1>2. SUFFICES ASSUME ~ Ended(u)
      PROVE  /\ IsAppend(r, q, m) /\ Len(q) \in Nat
             /\ DOMAIN q = 1 .. Len(q) /\ DOMAIN r = 1 .. (Len(q) + 1)
             /\ \A i \in DOMAIN r : i \in DOMAIN q \/ i = Len(q) + 1
             /\ \A i \in DOMAIN q : /\ r[i] = q[i] /\ i \in DOMAIN r
                                    /\ \A j \in 1 .. (i - 1) : j \in DOMAIN q
             /\ r[Len(q) + 1] = m
  BY <1>1
<1>3. r \in Seq(DownMsg) /\ IsAppend(r, q, m) /\ Len(q) \in Nat
  <2>1. q \in Seq(DownMsg) /\ m \in DownMsg /\ r = Append(q, m)
    BY <1>1, <1>2
  <2>. HIDE DEF q, r
  <2>2. QED
    BY <2>1, AppendFacts
<1>4. DOMAIN r = 1 .. (Len(q) + 1) /\ DOMAIN q = 1 .. Len(q)
  BY <1>1, <1>3 DEF IsAppend
<1>5. \A i \in DOMAIN r : i \in DOMAIN q \/ i = Len(q) + 1
  BY <1>3, <1>4
<1>6. ASSUME NEW i \in DOMAIN q
      PROVE  r[i] = q[i] /\ i \in DOMAIN r /\ \A j \in 1 .. (i - 1) : j \in DOMAIN q
  BY <1>3, <1>4, <1>6 DEF IsAppend
<1>7. QED
  BY <1>3, <1>4, <1>5, <1>6 DEF IsAppend

\* The invariant holds after the server has sent the file: the editor that asked
\* follows from there on.
LEMMA AdmittedStep ==
  ASSUME TypeInv, FollowInv, NEW u \in Users, NEW m, Admits(u, m)
  PROVE  FollowInv'
<1>0. /\ Takings(u) /\ up[u][1].type = "get" /\ u \notin inFile /\ inFile' = inFile \cup {u}
      /\ m.type = "file" /\ m.pars = pars[Server] /\ m.comments = comments[Server]
  BY DEF Admits
<1>1. /\ pars' = pars /\ comments' = comments /\ window' = window /\ made' = made /\ lastNo' = lastNo
      /\ \A v \in Users : Held(v)' = Held(v) /\ Ended(v)' = Ended(v)
  BY <1>0 DEF Takings, Held, Ended
<1>2. /\ \A v \in Users \ {u} : down'[v] = down[v]
      /\ Ended(u) => down'[u] = down[u]
      /\ ~ Ended(u) =>
           /\ IsAppend(down'[u], down[u], m) /\ Len(down[u]) \in Nat
           /\ DOMAIN down[u] = 1 .. Len(down[u]) /\ DOMAIN down'[u] = 1 .. (Len(down[u]) + 1)
           /\ \A i \in DOMAIN down'[u] : i \in DOMAIN down[u] \/ i = Len(down[u]) + 1
           /\ \A i \in DOMAIN down[u] : /\ down'[u][i] = down[u][i] /\ i \in DOMAIN down'[u]
                                        /\ \A j \in 1 .. (i - 1) : j \in DOMAIN down[u]
           /\ down'[u][Len(down[u]) + 1] = m
  BY AdmittedDown
<1>3. ASSUME NEW v \in Users \ {u}
      PROVE  /\ Session(v)' /\ Follows(v)'
             /\ Meets(Held(Server), up[v])' /\ Meets(Held(v), down[v])'
  <2>1. /\ Session(v) /\ Follows(v) /\ Meets(Held(Server), up[v]) /\ Meets(Held(v), down[v])
    BY DEF FollowInv
  <2>2. up'[v] = up[v]
    BY <1>0, TakenUp
  <2>3. Untouched(v)
    BY <1>0, <1>1, <1>2, <2>2 DEF Untouched
  <2>4. QED
    BY <2>1, <2>3, UntouchedHolds
<1>4. Session(u)
  BY DEF FollowInv
<1>5. ~ Ended(u) => window[u] = "opening" /\ Files(u) = {} /\ up'[u] = << >> /\ Len(up'[u]) = 0
  <2>1. HAVE ~ Ended(u)
  <2>2. window[u] \in Windows /\ window[u] \notin {"open", "closed", "left"}
    BY <1>0, <1>4, TakenSession DEF TypeInv
  <2>3. window[u] = "opening"
    BY <2>1, <2>2 DEF Windows, Ended
  <2>4. QED
    BY <1>0, <1>4, <2>3, TakenSession
<1>6. Session(u)'
  <2>1. CASE Ended(u)
    <3>1. window[u] \notin {"closed", "opening", "open", "left"}
      BY <2>1 DEF Ended
    <3>2. QED
      BY <1>1, <1>2, <1>4, <2>1, <3>1 DEF Session
  <2>2. CASE ~ Ended(u)
    <3>1. Files(u)' = {Len(down[u]) + 1} /\ Len(down[u]) + 1 \in DOMAIN down'[u]
      <4>1. \A i \in DOMAIN down[u] : down'[u][i].type # "file"
        BY <1>2, <1>5, <2>2 DEF Files
      <4>2. Len(down[u]) + 1 \in DOMAIN down'[u]
        BY <1>2, <2>2
      <4>3. QED
        BY <1>0, <1>2, <2>2, <4>1, <4>2 DEF Files
    <3>2. QED
      BY <1>0, <1>1, <1>5, <2>2, <3>1 DEF Session
  <2>3. QED
    BY <2>1, <2>2
<1>7. Follows(u)'
  <2>. DEFINE X == Held(u)
              Z == Held(Server)
  <2>1. SUFFICES ASSUME ~ Ended(u) PROVE After(X, down'[u]) = After(Z, up'[u])
    <3>1. Held(Server)' = Held(Server)
      BY <1>1 DEF Held
    <3>2. QED
      BY <1>1, <3>1 DEF Follows
  <2>2. After(X, down'[u]) = Effect(After(X, down[u]), m)
    <3>. HIDE DEF X
    <3>1. QED
      BY <1>2, <2>1, StepsAppend
  <2>3. \A W : Effect(W, m) = Z
    BY <1>0 DEF Effect, OnPars, OnComments, AboutComment, Held
  <2>4. After(Z, up'[u]) = Z
    <3>. HIDE DEF Z
    <3>1. QED
      BY <1>5, <2>1, StepsFacts DEF After
  <2>5. QED
    BY <2>2, <2>3, <2>4
<1>8. Meets(Held(u), down[u])'
  <2>. DEFINE X == Held(u)
  <2>1. Meets(X, down[u])
    BY DEF FollowInv
  <2>2. CASE Ended(u)
    BY <1>1, <1>2, <2>1, <2>2 DEF Meets, Alters, Has
  <2>3. CASE ~ Ended(u)
    <3>1. SUFFICES ASSUME NEW i \in DOMAIN down'[u], Alters(down'[u][i])
                   PROVE  Has(Steps(X, down'[u])[i - 1].comments, down'[u][i].comment)
      BY <1>1 DEF Meets, Alters, Has
    <3>2. i \in DOMAIN down[u]
      BY <1>0, <1>2, <2>3, <3>1 DEF Alters
    <3>3. down'[u][i] = down[u][i] /\ i - 1 \in 0 .. Len(down[u])
      BY <1>2, <2>3, <3>2
    <3>4. Has(Steps(X, down[u])[i - 1].comments, down[u][i].comment)
      BY <2>1, <3>1, <3>2, <3>3 DEF Meets
    <3>. HIDE DEF X
    <3>5. Steps(X, down'[u])[i - 1] = Steps(X, down[u])[i - 1]
      BY <1>2, <2>3, <3>3, StepsAppend
    <3>6. QED
      BY <3>3, <3>4, <3>5
  <2>4. QED
    BY <2>2, <2>3
<1>9. Meets(Held(Server), up[u])'
  BY <1>0, TakenServer DEF FollowInv
<1>10. Moves
  <2>1. \A v \in Users : \A i \in DOMAIN up'[v] : \E k \in DOMAIN up[v] :
           /\ up'[v][i] = up[v][k]
           /\ \A j \in 1 .. (i - 1) : \E l \in 1 .. (k - 1) : up'[v][j] = up[v][l]
    BY <1>0, TakenMovesUp
  <2>2. ASSUME NEW v \in Users, NEW i \in DOMAIN down'[v]
        PROVE  \/ Carries(down'[v][i], Server)
               \/ \E k \in DOMAIN down[v] :
                     /\ down'[v][i] = down[v][k]
                     /\ \A j \in 1 .. (i - 1) : \E l \in 1 .. (k - 1) : down'[v][j] = down[v][l]
    <3>1. CASE v # u \/ Ended(u)
      BY <1>2, <2>2, <3>1, StaysInPlace
    <3>2. CASE v = u /\ ~ Ended(u) /\ i \in DOMAIN down[u]
      BY <1>2, <3>2
    <3>3. CASE v = u /\ ~ Ended(u) /\ i \notin DOMAIN down[u]
      <4>1. down'[v][i] = m
        BY <1>2, <2>2, <3>3
      <4>2. Carries(m, Server)
        BY <1>0 DEF Carries, Brings, AboutComment, Mentions, CommentsOf
      <4>3. QED
        BY <4>1, <4>2
    <3>4. QED
      BY <3>1, <3>2, <3>3
  <2>3. QED
    BY <1>1, <2>1, <2>2 DEF Moves
<1>11. QED
  BY <1>3, <1>6, <1>7, <1>8, <1>9, <1>10, MovedStep

\* A step that leaves the channels, the windows and what is held as they are.
LEMMA StillStep ==
  ASSUME TypeInv, FollowInv,
         up' = up, down' = down, window' = window, inFile' = inFile, pars' = pars,
         comments' = comments, made' = made, lastNo' = lastNo
  PROVE  FollowInv'
<1>1. Moves
  BY StaysInPlace DEF Moves
<1>2. ASSUME NEW v \in Users
      PROVE  /\ Session(v)' /\ Follows(v)'
             /\ Meets(Held(Server), up[v])' /\ Meets(Held(v), down[v])'
  <2>1. Untouched(v)
    BY DEF Untouched
  <2>2. QED
    BY <2>1, UntouchedHolds DEF FollowInv
<1>3. QED
  BY <1>1, <1>2, MovedStep

-----------------------------------------------------------------------------
(***************************************************************************)
(* The actions. What a user does in an editor.                               *)
(***************************************************************************)

\* No message makes nothing.
LEMMA AfterNone ==
  ASSUME NEW X
  PROVE  After(X, << >>) = X
  BY StepsFacts DEF After

\* What one message makes.
LEMMA AfterOne ==
  ASSUME NEW X, NEW m
  PROVE  After(X, <<m>>) = Effect(X, m) /\ Steps(X, <<m>>)[0] = X
<1>. DEFINE q == <<m>>
<1>1. Len(q) = 1 /\ q[1] = m
  OBVIOUS
<1>. HIDE DEF q
<1>2. Steps(X, q)[0] = X /\ Steps(X, q)[1] = Effect(Steps(X, q)[0], m)
  <2>1. Len(q) \in Nat /\ 1 \in 1 .. Len(q) /\ 1 - 1 = 0
    BY <1>1
  <2>2. Steps(X, q)[0] = X /\ Steps(X, q)[1] = Effect(Steps(X, q)[1 - 1], q[1])
    BY <2>1, StepsFacts
  <2>3. QED
    BY <1>1, <2>1, <2>2
<1>3. QED
  BY <1>1, <1>2 DEF After, q

\* What two messages make.
LEMMA AfterTwo ==
  ASSUME NEW X, NEW m, NEW n
  PROVE  After(X, <<m, n>>) = Effect(Effect(X, m), n)
<1>. DEFINE q == <<m, n>>
<1>1. Len(q) = 2 /\ q[1] = m /\ q[2] = n
  OBVIOUS
<1>. HIDE DEF q
<1>2. /\ Steps(X, q)[0] = X /\ Steps(X, q)[1] = Effect(Steps(X, q)[0], m)
      /\ Steps(X, q)[2] = Effect(Steps(X, q)[1], n)
  <2>1. Len(q) \in Nat /\ 1 \in 1 .. Len(q) /\ 2 \in 1 .. Len(q) /\ 1 - 1 = 0 /\ 2 - 1 = 1
    BY <1>1
  <2>2. /\ Steps(X, q)[0] = X /\ Steps(X, q)[1] = Effect(Steps(X, q)[1 - 1], q[1])
        /\ Steps(X, q)[2] = Effect(Steps(X, q)[2 - 1], q[2])
    BY <2>1, StepsFacts
  <2>3. QED
    BY <1>1, <2>1, <2>2
<1>3. QED
  BY <1>1, <1>2 DEF After, q

\* One message that does to the server what was done to the editor, and brings
\* no paragraph.
LEMMA UttersOne ==
  ASSUME IInv, NEW u \in Users, NEW m \in UpMsg, window[u] = "open",
         m.type \in {"upd", "new", "words", "erase"},
         up' = [up EXCEPT ![u] = @ \o <<m>>], pars' = pars,
         comments' = [comments EXCEPT ![u] = OnComments(@, m)],
         window' = window, inFile' = inFile, down' = down, made' = made,
         lastNo' \in [Users -> Nat], \A v \in Users : lastNo[v] <= lastNo'[v],
         Alters(m) => Has(comments[u], m.comment),
         AboutComment(m) => m.comment.author = u /\ Counted(m.comment)'
  PROVE  Utters(u, <<m>>)
<1>1. /\ u \in Replicas /\ pars[u] \subseteq made
      /\ comments[u] \subseteq Comment /\ \A c \in comments[u] : Counted(c)
      /\ comments'[u] = OnComments(comments[u], m)
  BY Channels DEF IInv, FollowInv, AllMade, Numbered, TypeInv
<1>. DEFINE X == Held(u)
<1>2. After(X, <<m>>) = Effect(X, m) /\ Steps(X, <<m>>)[0] = X
  BY AfterOne
<1>3. Effect(X, m).pars = pars[u] /\ Effect(X, m).comments = OnComments(comments[u], m)
  BY DEF Effect, Held, OnPars
<1>4. pars' = [pars EXCEPT ![u] = After(X, <<m>>).pars]
  BY <1>1, <1>2, <1>3 DEF IInv, TypeInv
<1>5. comments' = [comments EXCEPT ![u] = After(X, <<m>>).comments]
  BY <1>1, <1>2, <1>3
<1>6. ASSUME NEW c \in comments'[u] PROVE Counted(c)'
  <2>1. c \in comments[u] \/ c \in CommentsOf(m)
    BY <1>1, <1>6, CommentsWithin
  <2>2. CASE c \in comments[u]
    <3>1. c.no \in Nat /\ c.author \in Users /\ c.no <= lastNo[c.author]
      BY <1>1, <2>2 DEF Counted, Comment
    <3>2. /\ lastNo[c.author] \in Nat /\ lastNo'[c.author] \in Nat
          /\ lastNo[c.author] <= lastNo'[c.author]
      BY <3>1 DEF IInv, TypeInv
    <3>3. c.no <= lastNo'[c.author]
      BY <3>1, <3>2
    <3>4. QED
      BY <3>3 DEF Counted
  <2>3. CASE c \in CommentsOf(m)
    BY <2>3 DEF CommentsOf
  <2>4. QED
    BY <2>1, <2>2, <2>3
<1>7. Meets(X, <<m>>)
  <2>1. SUFFICES ASSUME NEW i \in DOMAIN <<m>>, Alters(<<m>>[i])
                 PROVE  Has(Steps(X, <<m>>)[i - 1].comments, <<m>>[i].comment)
    BY DEF Meets
  <2>2. i = 1 /\ i - 1 = 0 /\ <<m>>[i] = m
    OBVIOUS
  <2>3. X.comments = comments[u]
    BY DEF Held
  <2>. HIDE DEF X
  <2>4. QED
    BY <1>2, <2>1, <2>2, <2>3
<1>8. \A k \in 1 .. Len(<<m>>) : <<m>>[k] = m
  OBVIOUS
<1>9. <<m>> \in Seq(UpMsg)
  OBVIOUS
<1>. HIDE DEF X
<1>10. QED
  BY <1>1, <1>4, <1>5, <1>6, <1>7, <1>8, <1>9 DEF Utters, IsEdit, X

\* A change of formats keeps the invariant.
LEMMA FormatStep ==
  ASSUME IInv, NEW u \in Users, NEW S, NEW f \in Formats, Format(u, S, f)
  PROVE  IInv'
<1>. DEFINE changed == {s \in S : mark[u][s].fmt # f}
<1>1. PICK t \in now .. Min({now + 1, MaxClock}) : SendUp(u, <<Upd(changed, f, t)>>)
  BY DEF Format
<1>2. t \in Nat
  <2>1. now \in Nat /\ MaxClock \in Nat
    BY ClockAssumption DEF IInv, TypeInv
  <2>2. \E x \in {now + 1, MaxClock} : \A y \in {now + 1, MaxClock} : x =< y
    BY <2>1
  <2>3. Min({now + 1, MaxClock}) \in {now + 1, MaxClock}
    BY <2>2 DEF Min
  <2>4. Min({now + 1, MaxClock}) \in Nat
    BY <2>1, <2>3
  <2>5. QED
    BY <2>1, <2>4
<1>. DEFINE m == Upd(changed, f, t)
<1>3. m \in UpMsg /\ m.type = "upd"
  <2>1. changed \subseteq Symbols
    BY Channels DEF Format, IInv, TypeInv
  <2>2. QED
    BY <1>2, <2>1 DEF Upd, UpMsg
<1>4. /\ window[u] = "open" /\ up' = [up EXCEPT ![u] = @ \o <<m>>] /\ pars' = pars
      /\ comments' = comments /\ window' = window /\ inFile' = inFile /\ known' = known
      /\ down' = down /\ made' = made /\ lastNo' = lastNo /\ text' = text /\ listed' = listed
      /\ now' = now /\ mark' = [mark EXCEPT ![u] = LocalUpdate(@, S, f)]
  BY <1>1 DEF Format, SendUp, server
<1>. HIDE DEF m
<1>5. Utters(u, <<m>>)
  <2>1. comments' = [comments EXCEPT ![u] = OnComments(@, m)]
    BY <1>3, <1>4, SilentFacts DEF IInv, TypeInv
  <2>2. /\ lastNo' \in [Users -> Nat] /\ \A v \in Users : lastNo[v] <= lastNo'[v]
        /\ ~ Alters(m) /\ ~ AboutComment(m)
    BY <1>3, <1>4, SilentFacts DEF IInv, TypeInv
  <2>3. QED
    BY <1>3, <1>4, <2>1, <2>2, UttersOne
<1>6. FollowInv'
  BY <1>5, UtteredStep DEF IInv
<1>7. mark' \in [Replicas -> Marks]
  <2>1. mark[u] \in Marks /\ u \in Replicas /\ now \in Nat
    BY Channels DEF IInv, TypeInv
  <2>2. LocalUpdate(mark[u], S, f) \in Marks
    BY <2>1, TextAssumption DEF LocalUpdate, Marks
  <2>3. QED
    BY <1>4, <2>1, <2>2 DEF IInv, TypeInv
<1>8. up' \in [Users -> Seq(UpMsg)]
  <2>1. up[u] \o <<m>> \in Seq(UpMsg)
    BY <1>3, Channels DEF IInv
  <2>2. QED
    BY <1>4, <2>1 DEF IInv, TypeInv
<1>9. TypeInv'
  BY <1>4, <1>7, <1>8 DEF IInv, TypeInv
<1>10. QED
  BY <1>6, <1>9 DEF IInv

\* A new comment, whose number nobody has used, keeps the invariant.
LEMMA InsertCommentStep ==
  ASSUME IInv, NEW u \in Users, InsertComment(u)
  PROVE  IInv'
<1>a. PICK c : c = [author |-> u, no |-> lastNo[u] + 1, words |-> "first"]
  OBVIOUS
<1>b. PICK m : m = Com("new", c)
  OBVIOUS
<1>1. /\ window[u] = "open" /\ up' = [up EXCEPT ![u] = @ \o <<m>>] /\ pars' = pars
      /\ comments' = [comments EXCEPT ![u] = @ \cup {c}]
      /\ lastNo' = [lastNo EXCEPT ![u] = @ + 1]
      /\ window' = window /\ inFile' = inFile /\ known' = known /\ mark' = mark
      /\ down' = down /\ made' = made /\ text' = text /\ listed' = listed /\ now' = now
  BY <1>a, <1>b DEF InsertComment, SendUp, server
<1>2. /\ c \in Comment /\ c.author = u /\ c.no = lastNo[u] + 1 /\ lastNo[u] \in Nat
      /\ u \in Replicas /\ comments[u] \subseteq Comment
      /\ \A d \in comments[u] : Counted(d)
  <2>1. /\ c.author = u /\ c.no = lastNo[u] + 1 /\ lastNo[u] \in Nat
        /\ u \in Replicas /\ comments[u] \subseteq Comment
        /\ \A d \in comments[u] : Counted(d)
    BY <1>a, Channels DEF IInv, TypeInv, FollowInv, Numbered
  <2>2. c \in Comment
    BY <1>a, <2>1 DEF Comment
  <2>3. QED
    BY <2>1, <2>2
<1>3. m \in UpMsg /\ m.type = "new" /\ m.comment = c
  BY <1>b, <1>2 DEF Com, UpMsg
<1>4. OnComments(comments[u], m) = comments[u] \cup {c}
  <2>1. \A d \in comments[u] : Key(d) # Key(c)
    BY <1>2 DEF Counted, Key, Comment
  <2>2. Without(comments[u], c) = comments[u]
    BY <2>1 DEF Without
  <2>3. QED
    BY <1>3, <2>2 DEF OnComments, AboutComment, CommentsAfter
<1>5. Utters(u, <<m>>)
  <2>1. comments' = [comments EXCEPT ![u] = OnComments(@, m)]
    BY <1>1, <1>4
  <2>2. /\ lastNo' \in [Users -> Nat] /\ \A v \in Users : lastNo[v] <= lastNo'[v]
        /\ lastNo'[u] = lastNo[u] + 1
    BY <1>1, <1>2 DEF IInv, TypeInv
  <2>3. ~ Alters(m) /\ m.comment.author = u /\ Counted(m.comment)'
    BY <1>2, <1>3, <2>2 DEF Alters, Counted
  <2>4. QED
    BY <1>1, <1>3, <2>1, <2>2, <2>3, UttersOne
<1>6. FollowInv'
  BY <1>5, UtteredStep DEF IInv
<1>7. up' \in [Users -> Seq(UpMsg)]
  <2>1. up[u] \o <<m>> \in Seq(UpMsg)
    BY <1>3, Channels DEF IInv
  <2>2. QED
    BY <1>1, <2>1 DEF IInv, TypeInv
<1>8. TypeInv'
  BY <1>1, <1>2, <1>7 DEF IInv, TypeInv
<1>9. QED
  BY <1>6, <1>8 DEF IInv

\* The words of a comment of one's own change, or it goes.
LEMMA OwnCommentStep ==
  ASSUME IInv, NEW u \in Users, NEW c \in Own(u), EditComment(u, c) \/ DeleteComment(u, c)
  PROVE  IInv'
<1>1. c \in comments[u] /\ c \in Comment /\ c.author = u /\ Counted(c) /\ u \in Replicas
  BY Channels DEF Own, IInv, TypeInv, FollowInv, Numbered
<1>2. PICK m \in UpMsg : /\ m.type \in {"words", "erase"} /\ Key(m.comment) = Key(c)
                         /\ m.comment \in Comment
                         /\ comments' = [comments EXCEPT ![u] = OnComments(@, m)]
                         /\ SendUp(u, <<m>>)
  <2>1. CASE EditComment(u, c)
    <3>. DEFINE d == [c EXCEPT !.words = "later"]
                m == Com("words", d)
    <3>1. /\ comments' = [comments EXCEPT ![u] = Without(@, c) \cup {d}] /\ SendUp(u, <<m>>)
      BY <2>1 DEF EditComment
    <3>2. d \in Comment /\ Key(d) = Key(c)
      BY <1>1 DEF Comment, Key
    <3>3. m \in UpMsg /\ m.type = "words" /\ m.comment = d
      BY <3>2 DEF Com, UpMsg
    <3>. HIDE DEF d, m
    <3>4. OnComments(comments[u], m) = Without(comments[u], c) \cup {d}
      BY <3>2, <3>3 DEF OnComments, AboutComment, CommentsAfter, Without
    <3>5. QED
      BY <3>1, <3>2, <3>3, <3>4
  <2>2. CASE DeleteComment(u, c)
    <3>. DEFINE m == Com("erase", c)
    <3>1. /\ comments' = [comments EXCEPT ![u] = Without(@, c)] /\ SendUp(u, <<m>>)
      BY <2>2 DEF DeleteComment
    <3>3. m \in UpMsg /\ m.type = "erase" /\ m.comment = c
      BY <1>1 DEF Com, UpMsg
    <3>. HIDE DEF m
    <3>4. OnComments(comments[u], m) = Without(comments[u], c)
      BY <3>3 DEF OnComments, AboutComment, CommentsAfter
    <3>5. QED
      BY <1>1, <3>1, <3>3, <3>4
  <2>3. QED
    BY <2>1, <2>2
<1>3. /\ window[u] = "open" /\ pars' = pars /\ window' = window /\ inFile' = inFile
      /\ known' = known /\ mark' = mark /\ lastNo' = lastNo
      /\ down' = down /\ made' = made /\ text' = text /\ listed' = listed /\ now' = now
  BY DEF EditComment, DeleteComment, server, client
<1>4. up' = [up EXCEPT ![u] = @ \o <<m>>]
  BY <1>2 DEF SendUp
<1>5. Utters(u, <<m>>)
  <2>1. /\ lastNo' \in [Users -> Nat] /\ \A v \in Users : lastNo[v] <= lastNo'[v]
    BY <1>3 DEF IInv, TypeInv
  <2>2. Has(comments[u], m.comment)
    BY <1>1, <1>2 DEF Has
  <2>3. m.comment.author = u /\ Counted(m.comment)'
    BY <1>1, <1>2, <1>3 DEF Counted, Key
  <2>4. QED
    BY <1>2, <1>3, <1>4, <2>1, <2>2, <2>3, UttersOne
<1>6. FollowInv'
  BY <1>5, UtteredStep DEF IInv
<1>7. up' \in [Users -> Seq(UpMsg)]
  <2>1. up[u] \o <<m>> \in Seq(UpMsg)
    BY <1>2, Channels DEF IInv
  <2>2. QED
    BY <1>4, <2>1 DEF IInv, TypeInv
<1>8. comments' \in [Replicas -> SUBSET Comment]
  <2>1. OnComments(comments[u], m) \subseteq Comment
    <3>1. OnComments(comments[u], m) \subseteq comments[u] \cup CommentsOf(m)
      BY CommentsWithin
    <3>2. QED
      BY <1>1, <1>2, <3>1, UpFacts DEF IInv, TypeInv
  <2>2. QED
    BY <1>1, <1>2, <2>1 DEF IInv, TypeInv
<1>9. TypeInv'
  BY <1>3, <1>7, <1>8 DEF IInv, TypeInv
<1>10. QED
  BY <1>6, <1>9 DEF IInv

\* A client that ends falls.
EndWords == {"endedByEdit", "endedByUpdate", "endedByFile", "endedByComment", "endedByHighlight"}
\* A client that ends has sent a part of what it had to send, and closes.
LEMMA EndsFalls ==
  ASSUME IInv, NEW u \in Users, NEW how \in EndWords, NEW written, Ends(u, how, written),
         \/ written = up[u]
         \/ \E d \in UpMsg : d.type = "del" /\ d.pars \subseteq pars[u] /\ written = up[u] \o <<d>>,
         inFile' = inFile, made' = made, lastNo' = lastNo,
         \A r \in Replicas \ {u} : pars'[r] = pars[r] /\ comments'[r] = comments[r],
         \/ pars'[u] = pars[u] /\ comments'[u] = comments[u]
         \/ /\ 1 \in DOMAIN down[u] /\ down[u][1].type = "file"
            /\ pars'[u] = down[u][1].pars /\ comments'[u] = down[u][1].comments
  PROVE  /\ FollowInv'
         /\ up' \in [Users -> Seq(UpMsg)] /\ down' \in [Users -> Seq(DownMsg)]
         /\ window' \in [Users -> Windows]
<1>. DEFINE q == up[u]
<1>1. /\ q \in Seq(UpMsg) /\ Len(q) \in Nat /\ window \in [Users -> Windows]
      /\ up \in [Users -> Seq(UpMsg)] /\ down \in [Users -> Seq(DownMsg)]
  BY Channels DEF IInv, TypeInv
<1>2. PICK k \in 0 .. Len(written) :
         up' = [up EXCEPT ![u] = Append(SubSeq(written, 1, k), CloseMsg)]
  BY DEF Ends
<1>3. written \in Seq(UpMsg) /\ Len(q) <= Len(written) /\ Len(written) \in Nat
      /\ \A i \in 1 .. Len(written) :
            \/ i \in 1 .. Len(q) /\ written[i] = q[i]
            \/ i > Len(q) /\ written[i].type = "del" /\ written[i].pars \subseteq pars[u]
  <2>1. CASE written = q
    BY <1>1, <2>1
  <2>2. ASSUME NEW d \in UpMsg, d.type = "del", d.pars \subseteq pars[u], written = q \o <<d>>
        PROVE  /\ written \in Seq(UpMsg) /\ Len(q) <= Len(written) /\ Len(written) \in Nat
               /\ \A i \in 1 .. Len(written) :
                     \/ i \in 1 .. Len(q) /\ written[i] = q[i]
                     \/ i > Len(q) /\ written[i].type = "del" /\ written[i].pars \subseteq pars[u]
    <3>. HIDE DEF q
    <3>1. Len(<<d>>) = 1 /\ <<d>>[1] = d /\ <<d>> \in Seq(UpMsg)
      OBVIOUS
    <3>2. written \in Seq(UpMsg) /\ IsConcat(written, q, <<d>>)
      BY <1>1, <2>2, <3>1, ConcatFacts
    <3>3. Len(written) = Len(q) + 1 /\ written[Len(q) + 1] = d
          /\ \A i \in 1 .. Len(q) : written[i] = q[i]
      BY <3>1, <3>2 DEF IsConcat
    <3>4. \A i \in 1 .. Len(written) : i \in 1 .. Len(q) \/ i = Len(q) + 1
      BY <1>1, <3>3
    <3>5. QED
      BY <1>1, <2>2, <3>2, <3>3, <3>4
  <2>3. QED
    BY <2>1, <2>2
<1>. DEFINE p == SubSeq(written, 1, k)
            r == Append(p, CloseMsg)
<1>4. CloseMsg \in UpMsg /\ CloseMsg.type = "close"
  BY DEF CloseMsg, UpMsg
<1>5. p \in Seq(UpMsg) /\ Len(p) = k /\ \A i \in 1 .. k : p[i] = written[i]
  <2>. HIDE DEF q
  <2>1. QED
    BY <1>3
<1>6. r \in Seq(UpMsg) /\ Len(r) = k + 1 /\ r[k + 1] = CloseMsg /\ \A i \in 1 .. k : r[i] = written[i]
  <2>1. r \in Seq(UpMsg) /\ IsAppend(r, p, CloseMsg)
    <3>. HIDE DEF p
    <3>1. QED
      BY <1>4, <1>5, AppendFacts
  <2>. HIDE DEF p, r
  <2>2. QED
    BY <1>5, <2>1 DEF IsAppend
<1>7. up'[u] = r /\ \A v \in Users \ {u} : up'[v] = up[v]
  BY <1>1, <1>2
<1>8. window' = [window EXCEPT ![u] = how] /\ down' = [down EXCEPT ![u] = << >>]
  BY DEF Ends
<1>. HIDE DEF p, r, q
<1>9. PICK n \in 0 .. Len(q) : n <= k /\ (n = k \/ n = Len(q)) /\ k \in Nat
  <2>1. CASE k <= Len(q)
    BY <1>1, <1>3, <2>1
  <2>2. CASE ~ (k <= Len(q))
    <3>1. Len(q) \in 0 .. Len(q) /\ Len(q) <= k
      BY <1>1, <1>3, <2>2
    <3>2. QED
      BY <3>1
  <2>3. QED
    BY <2>1, <2>2
<1>10. /\ n <= Len(r) /\ \A i \in 1 .. n : r[i] = q[i]
  <2>1. n <= Len(r)
    BY <1>1, <1>6, <1>9
  <2>2. ASSUME NEW i \in 1 .. n PROVE r[i] = q[i]
    <3>1. i \in 1 .. k /\ i \in 1 .. Len(written) /\ ~ (i > Len(q))
      BY <1>1, <1>3, <1>9
    <3>2. written[i] = q[i]
      BY <1>3, <3>1
    <3>3. QED
      BY <1>6, <3>1, <3>2
  <2>3. QED
    BY <2>1, <2>2
<1>11. ASSUME NEW i \in DOMAIN r, i \notin 1 .. n
       PROVE  Carries(r[i], u) /\ ~ Alters(r[i])
  <2>1. i \in 1 .. (k + 1)
    BY <1>6, <1>9
  <2>2. CASE i = k + 1
    BY <1>4, <1>6, <2>2, SilentFacts
  <2>3. CASE i # k + 1
    <3>1. i \in 1 .. k /\ i > Len(q) /\ i \in 1 .. Len(written)
      BY <1>1, <1>3, <1>9, <1>11, <2>1, <2>3
    <3>2. r[i].type = "del" /\ r[i].pars \subseteq pars[u]
      <4>1. i \notin 1 .. Len(q) /\ r[i] = written[i]
        BY <1>1, <1>6, <3>1
      <4>2. written[i].type = "del" /\ written[i].pars \subseteq pars[u]
        BY <1>3, <3>1, <4>1
      <4>3. QED
        BY <4>1, <4>2
    <3>3. QED
      BY <3>2 DEF Carries, Alters, Brings, Mentions, AboutComment, CommentsOf
  <2>4. QED
    BY <2>2, <2>3
<1>12. window'[u] \in Windows /\ Ended(u)' /\ \A v \in Users \ {u} : window'[v] = window[v]
  BY <1>1, <1>8 DEF EndWords, Windows, Ended
<1>13. Falls(u, n)
  BY <1>1, <1>6, <1>7, <1>8, <1>9, <1>10, <1>11, <1>12 DEF Falls, q
<1>14. FollowInv'
  BY <1>13, FallenStep DEF IInv
<1>15. up' \in [Users -> Seq(UpMsg)] /\ down' \in [Users -> Seq(DownMsg)]
  <2>1. << >> \in Seq(DownMsg)
    OBVIOUS
  <2>2. up' \in [Users -> Seq(UpMsg)]
    BY <1>1, <1>2, <1>6 DEF r, p
  <2>3. QED
    BY <1>1, <1>8, <2>1, <2>2
<1>16. window' \in [Users -> Windows]
  BY <1>1, <1>8 DEF EndWords, Windows
<1>17. QED
  BY <1>14, <1>15, <1>16

\* An editor that ends over a symbol's author keeps the invariant.
LEMMA HighlightStep ==
  ASSUME IInv, NEW u \in Users, Highlight(u)
  PROVE  IInv'
<1>1. /\ Ends(u, "endedByHighlight", up[u]) /\ pars' = pars /\ comments' = comments
      /\ inFile' = inFile /\ known' = known /\ mark' = mark /\ lastNo' = lastNo
      /\ made' = made /\ text' = text /\ listed' = listed /\ now' = now
  BY DEF Highlight, server, file
<1>2. "endedByHighlight" \in EndWords
  BY DEF EndWords
<1>3. /\ FollowInv'
      /\ up' \in [Users -> Seq(UpMsg)] /\ down' \in [Users -> Seq(DownMsg)]
      /\ window' \in [Users -> Windows]
  BY <1>1, <1>2, EndsFalls
<1>4. TypeInv'
  BY <1>1, <1>3 DEF IInv, TypeInv
<1>5. QED
  BY <1>3, <1>4 DEF IInv

\* Opening and leaving keeps the invariant.
LEMMA OpenStep ==
  ASSUME IInv, NEW u \in Users, Open(u) \/ Close(u) \/ DropLink(u)
  PROVE  IInv'
<1>1. PICK m \in UpMsg, how \in {"opening", "closed", "left"} :
         /\ \/ window[u] = "closed" /\ how = "opening" /\ m.type = "get"
            \/ window[u] = "open" /\ how \in {"closed", "left"} /\ m.type \in {"close", "remove"}
         /\ window' = [window EXCEPT ![u] = how] /\ SendUp(u, <<m>>)
  <2>1. CASE Open(u)
    <3>1. Get \in UpMsg /\ Get.type = "get"
      BY DEF Get, UpMsg
    <3>2. QED
      BY <2>1, <3>1 DEF Open
  <2>2. CASE Close(u)
    <3>1. CloseMsg \in UpMsg /\ CloseMsg.type = "close"
      BY DEF CloseMsg, UpMsg
    <3>2. QED
      BY <2>2, <3>1 DEF Close, Leave
  <2>3. CASE DropLink(u)
    <3>1. RemoveMsg \in UpMsg /\ RemoveMsg.type = "remove"
      BY DEF RemoveMsg, UpMsg
    <3>2. QED
      BY <2>3, <3>1 DEF DropLink, Leave
  <2>4. QED
    BY <2>1, <2>2, <2>3
<1>2. /\ pars' = pars /\ comments' = comments /\ down' = down
      /\ inFile' = inFile /\ known' = known /\ mark' = mark /\ lastNo' = lastNo
      /\ made' = made /\ text' = text /\ listed' = listed /\ now' = now
  BY DEF Open, Close, DropLink, Leave, server, file
<1>3. up[u] \o <<m>> = Append(up[u], m) /\ Append(up[u], m) \in Seq(UpMsg)
  <2>. DEFINE q == up[u]
  <2>1. q \in Seq(UpMsg)
    BY Channels DEF IInv
  <2>. HIDE DEF q
  <2>2. q \o <<m>> = Append(q, m) /\ Append(q, m) \in Seq(UpMsg)
    BY <2>1
  <2>3. QED
    BY <2>2 DEF q
<1>4. up' = [up EXCEPT ![u] = Append(@, m)]
  BY <1>1, <1>3 DEF SendUp
<1>5. Turns(u, how, m)
  BY <1>1, <1>2, <1>4 DEF Turns
<1>6. FollowInv'
  BY <1>5, TurnedStep DEF IInv
<1>7. TypeInv'
  BY <1>1, <1>2, <1>3, <1>4 DEF IInv, TypeInv, Windows
<1>8. QED
  BY <1>6, <1>7 DEF IInv

\* Sequences with the same elements are the same.
LEMMA SameSeq ==
  ASSUME NEW S, NEW q \in Seq(S), NEW r \in Seq(S), Len(q) = Len(r),
         \A i \in 1 .. Len(q) : q[i] = r[i]
  PROVE  q = r
  OBVIOUS

\* Sequences of two messages and less.
LEMMA Few ==
  ASSUME NEW S, NEW m \in S, NEW n \in S
  PROVE  /\ << >> \in Seq(S) /\ Len(<< >>) = 0
         /\ <<m>> \in Seq(S) /\ Len(<<m>>) = 1 /\ <<m>>[1] = m
         /\ <<m, n>> \in Seq(S) /\ Len(<<m, n>>) = 2 /\ <<m, n>>[1] = m /\ <<m, n>>[2] = n
         /\ << >> \o << >> = << >> /\ <<m>> \o << >> = <<m>> /\ << >> \o <<n>> = <<n>>
         /\ <<m>> \o <<n>> = <<m, n>>
<1>1. /\ << >> \in Seq(S) /\ Len(<< >>) = 0
      /\ <<m>> \in Seq(S) /\ Len(<<m>>) = 1 /\ <<m>>[1] = m
      /\ <<n>> \in Seq(S) /\ Len(<<n>>) = 1 /\ <<n>>[1] = n
      /\ <<m, n>> \in Seq(S) /\ Len(<<m, n>>) = 2 /\ <<m, n>>[1] = m /\ <<m, n>>[2] = n
  OBVIOUS
<1>2. << >> \o << >> = << >>
  BY <1>1
<1>3. <<m>> \o << >> = <<m>>
  BY <1>1
<1>4. << >> \o <<n>> = <<n>>
  BY <1>1
<1>5. <<m>> \o <<n>> = <<m, n>>
  <2>1. /\ <<m>> \o <<n>> \in Seq(S) /\ Len(<<m>> \o <<n>>) = 2
        /\ (<<m>> \o <<n>>)[1] = m /\ (<<m>> \o <<n>>)[2] = n
    OBVIOUS
  <2>2. \A i \in 1 .. 2 : i = 1 \/ i = 2
    OBVIOUS
  <2>. DEFINE q == <<m>> \o <<n>>
              r == <<m, n>>
  <2>3. q \in Seq(S) /\ r \in Seq(S) /\ Len(q) = 2 /\ Len(r) = 2 /\ q[1] = r[1] /\ q[2] = r[2]
    BY <1>1, <2>1
  <2>. HIDE DEF q, r
  <2>4. \A i \in 1 .. Len(q) : q[i] = r[i]
    BY <2>2, <2>3
  <2>5. q = r
    BY <2>3, <2>4, SameSeq
  <2>6. QED
    BY <2>5 DEF q, r
<1>6. QED
  BY <1>1, <1>2, <1>3, <1>4, <1>5

\* What an edit writes: a deletion, then an insertion, or one of them.
Writes(gone, lost, new, found) ==
  (IF gone = {} THEN << >> ELSE <<Del(gone, lost)>>) \o (IF new = {} THEN << >> ELSE <<Ins(new, found)>>)

WritesFit(gone, lost, new, found) ==
  /\ gone \in SUBSET Symbols /\ new \in SUBSET Symbols
  /\ lost \in SUBSET Paragraphs /\ found \in SUBSET Paragraphs
  /\ gone = {} => lost = {}
  /\ new = {} => found = {}

\* Two messages, one after the other.
LEMMA JoinTwo ==
  ASSUME NEW S, NEW m \in S, NEW n \in S
  PROVE  <<m>> \o <<n>> = <<m, n>>
  BY Few

\* What the messages of an edit make of a File is what the edit makes of the editor's own.
LEMMA EditMessages ==
  ASSUME NEW gone, NEW lost, NEW new, NEW found, WritesFit(gone, lost, new, found)
  PROVE  \E msgs : /\ msgs = Writes(gone, lost, new, found)
                   /\ msgs \in Seq(UpMsg)
                   /\ \A X : /\ After(X, msgs).pars = (X.pars \ lost) \cup found
                            /\ After(X, msgs).comments = X.comments
                   /\ \A k \in 1 .. Len(msgs) :
                         \/ msgs[k] = Del(gone, lost)
                         \/ /\ msgs[k] = Ins(new, found)
                            /\ \A j \in 1 .. (k - 1) : msgs[j] = Del(gone, lost)
<1>1. PICK msgs : msgs = Writes(gone, lost, new, found)
  OBVIOUS
<1>2. /\ gone \in SUBSET Symbols /\ new \in SUBSET Symbols
      /\ lost \in SUBSET Paragraphs /\ found \in SUBSET Paragraphs
      /\ gone = {} => lost = {}
      /\ new = {} => found = {}
  BY DEF WritesFit
<1>3. /\ msgs \in Seq(UpMsg)
      /\ \A X : After(X, msgs).pars = (X.pars \ lost) \cup found /\ After(X, msgs).comments = X.comments
      /\ \A k \in 1 .. Len(msgs) :
            \/ msgs[k] = Del(gone, lost)
            \/ msgs[k] = Ins(new, found) /\ \A j \in 1 .. (k - 1) : msgs[j] = Del(gone, lost)
  <2>. DEFINE D == Del(gone, lost)
              I == Ins(new, found)
  <2>1. /\ D \in UpMsg /\ D.type = "del" /\ D.pars = lost
        /\ I \in UpMsg /\ I.type = "ins" /\ I.pars = found
    BY <1>2 DEF Del, Ins, UpMsg
  <2>. HIDE DEF D, I
  <2>2. /\ \A Y : Effect(Y, D).pars = Y.pars \ lost /\ Effect(Y, D).comments = Y.comments
        /\ \A Y : Effect(Y, I).pars = Y.pars \cup found /\ Effect(Y, I).comments = Y.comments
    BY <2>1 DEF Effect, OnPars, OnComments, AboutComment
  <2>3. CASE gone = {} /\ new = {}
    <3>1. msgs = << >>
      BY <2>1, <2>3, <1>1, Few DEF Writes
    <3>2. msgs \in Seq(UpMsg) /\ Len(msgs) = 0
      BY <2>1, <3>1, Few
    <3>3. \A X : After(X, msgs) = X
      BY <3>1, AfterNone
    <3>4. 1 .. Len(msgs) = {}
      BY <3>2
    <3>5. QED
      BY <1>2, <2>3, <3>2, <3>3, <3>4
  <2>4. CASE gone # {} /\ new = {}
    <3>1. msgs = <<D>>
      BY <2>1, <2>4, <1>1, Few DEF Writes, D
    <3>2. /\ msgs \in Seq(UpMsg) /\ Len(msgs) = 1 /\ msgs[1] = D
      BY <2>1, <3>1, Few
    <3>3. \A X : After(X, msgs) = Effect(X, D)
      BY <3>1, AfterOne
    <3>4. \A k \in 1 .. Len(msgs) : msgs[k] = D
      BY <3>2
    <3>5. QED
      BY <1>2, <2>2, <2>4, <3>2, <3>3, <3>4 DEF D
  <2>5. CASE gone = {} /\ new # {}
    <3>1. msgs = <<I>>
      BY <2>1, <2>5, <1>1, Few DEF Writes, I
    <3>2. /\ msgs \in Seq(UpMsg) /\ Len(msgs) = 1 /\ msgs[1] = I
      BY <2>1, <3>1, Few
    <3>3. \A X : After(X, msgs) = Effect(X, I)
      BY <3>1, AfterOne
    <3>4. \A k \in 1 .. Len(msgs) : msgs[k] = I /\ 1 .. (k - 1) = {}
      BY <3>2
    <3>5. QED
      BY <1>2, <2>2, <2>5, <3>2, <3>3, <3>4 DEF I
  <2>6. CASE gone # {} /\ new # {}
    <3>1. msgs = <<D, I>>
      <4>1. msgs = <<D>> \o <<I>>
        BY <1>1, <2>6 DEF Writes, D, I
      <4>2. <<D>> \o <<I>> = <<D, I>>
        BY <2>1, JoinTwo
      <4>3. QED
        BY <4>1, <4>2
    <3>2. /\ msgs \in Seq(UpMsg) /\ Len(msgs) = 2 /\ msgs[1] = D /\ msgs[2] = I
      BY <2>1, <3>1, Few
    <3>3. \A X : After(X, msgs) = Effect(Effect(X, D), I)
      BY <3>1, AfterTwo
    <3>4. \A k \in 1 .. Len(msgs) :
             msgs[k] = D \/ (msgs[k] = I /\ \A j \in 1 .. (k - 1) : msgs[j] = D)
      BY <3>2
    <3>5. QED
      BY <2>2, <3>2, <3>3, <3>4 DEF D, I
  <2>7. QED
    BY <2>3, <2>4, <2>5, <2>6
<1>4. QED
  BY <1>1, <1>3

\* No elements of a list are none.
LEMMA NoSegment ==
  ASSUME NEW S, NEW i \in Nat
  PROVE  Segment(S, i, 0) = {}
<1>1. (i + 1) .. (i + 0) = {}
  OBVIOUS
<1>2. QED
  BY <1>1 DEF Segment

\* The line of a symbol is a number.
LEMMA LineOfNat ==
  ASSUME NEW t \in SUBSET Symbols, NEW k
  PROVE  LineOf(t, k) \in Nat
<1>1. IsFiniteSet({b \in t \cap Breaks : b < k})
  BY TextAssumption, FS_Subset
<1>2. QED
  BY <1>1, FS_CardinalityType DEF LineOf

\* What Edit says, without the positions.
LEMMA EditFacts ==
  ASSUME IInv, NEW u \in Users, NEW gone \in SUBSET text[u], NEW new \in SUBSET Symbols,
         Edit(u, gone, new)
  PROVE  /\ window[u] = "open" /\ comments' = comments /\ inFile' = inFile /\ known' = known
         /\ mark' = mark /\ lastNo' = lastNo /\ listed' = listed /\ now' = now
         /\ text' = [text EXCEPT ![u] = (@ \ gone) \cup new]
         /\ \E lost \in SUBSET pars[u] :
              /\ gone = {} => lost = {}
              /\ \/ \E found \in SUBSET (Paragraphs \ made) :
                      /\ new = {} => found = {}
                      /\ pars' = [pars EXCEPT ![u] = (@ \ lost) \cup found]
                      /\ made' = made \cup found
                      /\ SendUp(u, Writes(gone, lost, new, found))
                      /\ window' = window /\ down' = down
                 \/ Ends(u, "endedByEdit", up[u]) /\ pars' = pars /\ made' = made
                 \/ /\ Ends(u, "endedByEdit",
                            up[u] \o IF gone = {} THEN << >> ELSE <<Del(gone, lost)>>)
                    /\ pars' = pars /\ made' = made
<1>. DEFINE t == (text[u] \ gone) \cup new
            line == LineOf(t, Min(gone \cup new))
            removed == IF gone = {} THEN 0 ELSE Max({0, nblocks[u] - Lines(t)})
            added == IF new = {} THEN 0 ELSE Max({0, Lines(t) - (nblocks[u] - removed)})
            lost == Segment(pars[u], line + 1, removed)
            kept == pars[u] \ lost
            deletion == IF gone = {} THEN << >> ELSE <<Del(gone, lost)>>
<1>1. /\ window[u] = "open" /\ comments' = comments /\ inFile' = inFile /\ known' = known
      /\ mark' = mark /\ lastNo' = lastNo /\ listed' = listed /\ now' = now
      /\ text' = [text EXCEPT ![u] = t]
      /\ \/ /\ \E found \in kSubset(added, FreshPars(kept, line + 1)) :
                  /\ pars' = [pars EXCEPT ![u] = kept \cup found]
                  /\ made' = made \cup found
                  /\ SendUp(u, deletion \o IF new = {} THEN << >> ELSE <<Ins(new, found)>>)
            /\ window' = window /\ down' = down
         \/ Ends(u, "endedByEdit", up[u]) /\ pars' = pars /\ made' = made
         \/ Ends(u, "endedByEdit", up[u] \o deletion) /\ pars' = pars /\ made' = made
  BY DEF Edit, server
<1>2. t \in SUBSET Symbols /\ text[u] \subseteq Symbols
  BY Channels DEF IInv, TypeInv
<1>3. lost \subseteq pars[u]
  BY DEF Segment
<1>4. gone = {} => lost = {}
  <2>1. HAVE gone = {}
  <2>2. removed = 0 /\ line + 1 \in Nat
    <3>1. line \in Nat
      <4>. HIDE DEF t
      <4>1. QED
        BY <1>2, LineOfNat
    <3>. HIDE DEF line
    <3>2. QED
      BY <2>1, <3>1
  <2>. HIDE DEF line, removed
  <2>3. QED
    BY <2>2, NoSegment
<1>5. ASSUME NEW found \in kSubset(added, FreshPars(kept, line + 1))
      PROVE  found \in SUBSET (Paragraphs \ made) /\ (new = {} => found = {})
  <2>1. found \in SUBSET (Paragraphs \ made) /\ Cardinality(found) = added
    BY <1>5 DEF kSubset, FreshPars
  <2>2. new = {} => Cardinality(found) = 0
    BY <2>1
  <2>3. IsFiniteSet(found)
    BY <2>1, TextAssumption, FS_Subset
  <2>4. new = {} => found = {}
    BY <2>2, <2>3, FS_EmptySet
  <2>5. QED
    BY <2>1, <2>4
<1>. HIDE DEF line, removed, added, lost
<1>6. QED
  BY <1>1, <1>3, <1>4, <1>5 DEF Writes

\* An edit keeps the invariant, also one that ends the client before or after the deletion is sent.
LEMMA EditStep ==
  ASSUME IInv, NEW u \in Users, NEW gone \in SUBSET text[u], NEW new \in SUBSET Symbols,
         Edit(u, gone, new)
  PROVE  IInv'
<1>1. /\ window[u] = "open" /\ comments' = comments /\ inFile' = inFile /\ known' = known
      /\ mark' = mark /\ lastNo' = lastNo /\ listed' = listed /\ now' = now
      /\ text' = [text EXCEPT ![u] = (@ \ gone) \cup new]
  BY EditFacts
<1>2. PICK lost \in SUBSET pars[u] :
         /\ gone = {} => lost = {}
         /\ \/ \E found \in SUBSET (Paragraphs \ made) :
                      /\ new = {} => found = {}
                      /\ pars' = [pars EXCEPT ![u] = (@ \ lost) \cup found]
                      /\ made' = made \cup found
                      /\ SendUp(u, Writes(gone, lost, new, found))
                      /\ window' = window /\ down' = down
            \/ Ends(u, "endedByEdit", up[u]) /\ pars' = pars /\ made' = made
            \/ /\ Ends(u, "endedByEdit",
                            up[u] \o IF gone = {} THEN << >> ELSE <<Del(gone, lost)>>)
               /\ pars' = pars /\ made' = made
  BY EditFacts
<1>3. /\ gone \in SUBSET Symbols /\ lost \in SUBSET Paragraphs /\ u \in Replicas
      /\ pars[u] \subseteq made /\ text[u] \subseteq Symbols
  BY Channels DEF IInv, TypeInv, FollowInv, AllMade
<1>4. text' \in [Replicas -> SUBSET Symbols]
  BY <1>1, <1>3 DEF IInv, TypeInv
<1>5. ASSUME NEW found \in SUBSET (Paragraphs \ made),
             new = {} => found = {},
             pars' = [pars EXCEPT ![u] = (@ \ lost) \cup found],
             made' = made \cup found,
             SendUp(u, Writes(gone, lost, new, found)),
             window' = window, down' = down
      PROVE  IInv'
  <2>. DEFINE X == Held(u)
  <2>1. PICK msgs :
          /\ msgs = Writes(gone, lost, new, found)
          /\ msgs \in Seq(UpMsg)
          /\ \A Y : /\ After(Y, msgs).pars = (Y.pars \ lost) \cup found
                   /\ After(Y, msgs).comments = Y.comments
          /\ \A k \in 1 .. Len(msgs) :
                \/ msgs[k] = Del(gone, lost)
                \/ /\ msgs[k] = Ins(new, found)
                   /\ \A j \in 1 .. (k - 1) : msgs[j] = Del(gone, lost)
    <3>1. WritesFit(gone, lost, new, found)
      BY <1>2, <1>3, <1>5 DEF WritesFit
    <3>2. QED
      BY <3>1, EditMessages
  <2>2. up' = [up EXCEPT ![u] = @ \o msgs]
    BY <1>5, <2>1 DEF SendUp
  <2>3. /\ msgs \in Seq(UpMsg)
        /\ After(X, msgs).pars = (X.pars \ lost) \cup found
        /\ After(X, msgs).comments = X.comments
        /\ \A k \in 1 .. Len(msgs) :
              \/ msgs[k] = Del(gone, lost)
              \/ msgs[k] = Ins(new, found) /\ \A j \in 1 .. (k - 1) : msgs[j] = Del(gone, lost)
    BY <2>1
  <2>4. /\ Del(gone, lost).type = "del" /\ Del(gone, lost).pars = lost
        /\ Ins(new, found).type = "ins" /\ Ins(new, found).pars = found
    BY DEF Del, Ins
  <2>5. Held(u).pars = pars[u] /\ Held(u).comments = comments[u]
    BY DEF Held
  <2>6. pars' = [pars EXCEPT ![u] = After(Held(u), msgs).pars]
    BY <1>5, <2>3, <2>5
  <2>7. comments' = [comments EXCEPT ![u] = After(Held(u), msgs).comments]
    BY <1>1, <2>3, <2>5 DEF IInv, TypeInv
  <2>8. /\ lastNo' \in [Users -> Nat] /\ \A v \in Users : lastNo[v] <= lastNo'[v]
        /\ \A c \in comments'[u] : Counted(c)'
    BY <1>1, <1>3 DEF IInv, TypeInv, FollowInv, Numbered, Counted
  <2>9. pars'[u] \subseteq made' /\ \A p \in pars'[u] : p \in pars[u] \/ p \notin made
    BY <1>3, <1>5 DEF IInv, TypeInv
  <2>10. \A k \in 1 .. Len(msgs) :
            /\ IsEdit(msgs[k]) /\ ~ Alters(msgs[k]) /\ ~ AboutComment(msgs[k])
            /\ msgs[k].type = "del" => msgs[k].pars \subseteq pars[u]
            /\ msgs[k].type = "ins" => msgs[k].pars \cap made = {} /\ msgs[k].pars \subseteq made'
            /\ msgs[k].type = "ins" => \A j \in 1 .. (k - 1) : msgs[j].type # "ins"
    BY <1>5, <2>3, <2>4 DEF IsEdit, Alters, AboutComment
  <2>11. Meets(Held(u), msgs)
    BY <2>3, <2>10 DEF Meets
  <2>. HIDE DEF X
  <2>12. Utters(u, msgs)
    BY <1>1, <1>5, <2>2, <2>3, <2>6, <2>7, <2>8, <2>9, <2>10, <2>11 DEF Utters
  <2>13. FollowInv'
    BY <2>12, UtteredStep DEF IInv
  <2>14. up' \in [Users -> Seq(UpMsg)]
    <3>1. up[u] \o msgs \in Seq(UpMsg)
      BY <2>3, Channels DEF IInv
    <3>2. QED
      BY <2>2, <3>1 DEF IInv, TypeInv
  <2>15. TypeInv'
    BY <1>1, <1>3, <1>4, <1>5, <2>14 DEF IInv, TypeInv
  <2>16. QED
    BY <2>13, <2>15 DEF IInv
<1>6. ASSUME NEW written, Ends(u, "endedByEdit", written), pars' = pars, made' = made,
             \/ written = up[u]
             \/ \E d \in UpMsg : d.type = "del" /\ d.pars \subseteq pars[u] /\ written = up[u] \o <<d>>
      PROVE  IInv'
  <2>1. "endedByEdit" \in EndWords
    BY DEF EndWords
  <2>2. /\ FollowInv'
        /\ up' \in [Users -> Seq(UpMsg)] /\ down' \in [Users -> Seq(DownMsg)]
        /\ window' \in [Users -> Windows]
    BY <1>1, <1>6, <2>1, EndsFalls
  <2>3. TypeInv'
    BY <1>1, <1>4, <1>6, <2>2 DEF IInv, TypeInv
  <2>4. QED
    BY <2>2, <2>3 DEF IInv
<1>7. up[u] \o << >> = up[u]
  <2>. DEFINE q == up[u]
  <2>1. q \in Seq(UpMsg)
    BY Channels DEF IInv
  <2>. HIDE DEF q
  <2>2. q \o << >> = q
    BY <2>1
  <2>3. QED
    BY <2>2 DEF q
<1>8. /\ Del(gone, lost) \in UpMsg /\ Del(gone, lost).type = "del"
      /\ Del(gone, lost).pars \subseteq pars[u]
  BY <1>3 DEF Del, UpMsg
<1>9. QED
  BY <1>2, <1>5, <1>6, <1>7, <1>8

-----------------------------------------------------------------------------
(***************************************************************************)
(* The server's handlers.                                                    *)
(***************************************************************************)
\* What the server passes on is the message with its sender's name.
LEMMA NamedMessage ==
  ASSUME NEW u \in Users, NEW m \in UpMsg, IsEdit(m)
  PROVE  Named(u, m) \in DownMsg /\ SameEdit(Named(u, m), m)
<1>. DEFINE n == Named(u, m)
<1>1. CASE m.type \in {"ins", "del"}
  <2>1. m = [type |-> m.type, syms |-> m.syms, pars |-> m.pars]
        /\ m.syms \in SUBSET Symbols /\ m.pars \in SUBSET Paragraphs
    BY <1>1 DEF UpMsg
  <2>2. PICK t \in {"ins", "del"}, S \in SUBSET Symbols, P \in SUBSET Paragraphs :
           m = [type |-> t, syms |-> S, pars |-> P]
    BY <1>1, <2>1
  <2>3. n = [user |-> u, type |-> t, syms |-> S, pars |-> P]
    BY <2>2 DEF Named
  <2>. HIDE DEF n
  <2>4. QED
    BY <2>2, <2>3 DEF DownMsg, SameEdit, AboutComment, n
<1>2. CASE m.type = "upd"
  <2>1. PICK S \in SUBSET Symbols, f \in Formats, t \in Nat :
           m = [type |-> "upd", syms |-> S, fmt |-> f, at |-> t]
    BY <1>2 DEF UpMsg
  <2>2. n = [user |-> u, type |-> "upd", syms |-> S, fmt |-> f, at |-> t]
    BY <2>1 DEF Named
  <2>. HIDE DEF n
  <2>3. QED
    BY <2>1, <2>2 DEF DownMsg, SameEdit, AboutComment, n
<1>3. CASE m.type \in {"new", "words", "erase"}
  <2>1. PICK t \in {"new", "words", "erase"}, c \in Comment : m = [type |-> t, comment |-> c]
    BY <1>3 DEF UpMsg
  <2>2. n = [user |-> u, type |-> t, comment |-> c]
    BY <2>1 DEF Named
  <2>. HIDE DEF n
  <2>3. QED
    BY <2>1, <2>2 DEF DownMsg, SameEdit, AboutComment, n
<1>4. QED
  BY <1>1, <1>2, <1>3 DEF IsEdit

\* Its handlers take the first message, do to the server's lists what it says,
\* and pass it on.
LEMMA RelayStep ==
  ASSUME IInv, NEW u \in Users, up[u] # << >>, IsEdit(Head(up[u])), Relay(u), Consume(u),
         pars' = [pars EXCEPT ![Server] = OnPars(@, up[u][1])],
         comments' = [comments EXCEPT ![Server] = OnComments(@, up[u][1])],
         window' = window, inFile' = inFile, made' = made, lastNo' = lastNo
  PROVE  /\ FollowInv'
         /\ up' \in [Users -> Seq(UpMsg)] /\ down' \in [Users -> Seq(DownMsg)]
         /\ comments' \in [Replicas -> SUBSET Comment]
         /\ pars' \in [Replicas -> SUBSET Paragraphs]
<1>1. /\ Head(up[u]) = up[u][1] /\ up[u][1] \in UpMsg /\ Tail(up[u]) \in Seq(UpMsg)
      /\ Server \in Replicas
  BY Channels, TailFacts DEF IInv
<1>2. PICK n : n = Named(u, up[u][1])
  OBVIOUS
<1>3. n \in DownMsg /\ SameEdit(n, up[u][1])
  BY <1>1, <1>2, NamedMessage
<1>4. /\ down' = [v \in Users |-> IF v \in inFile \ {u} /\ ~ Ended(v) THEN Append(down[v], n)
                                  ELSE down[v]]
      /\ up' = [up EXCEPT ![u] = Tail(@)]
  BY <1>1, <1>2 DEF Relay, Consume
<1>5. Passes(u, n)
  BY <1>1, <1>3, <1>4 DEF Passes
<1>6. FollowInv'
  BY <1>5, PassedStep DEF IInv
<1>7. up' \in [Users -> Seq(UpMsg)]
  BY <1>1, <1>4 DEF IInv, TypeInv
<1>8. down' \in [Users -> Seq(DownMsg)]
  <2>1. ASSUME NEW v \in Users
        PROVE  Append(down[v], n) \in Seq(DownMsg) /\ down[v] \in Seq(DownMsg)
    BY <1>3, Channels, AppendFacts DEF IInv
  <2>2. QED
    BY <1>4, <2>1
<1>9. /\ Mentions(up[u][1]) \subseteq Paragraphs /\ CommentsOf(up[u][1]) \subseteq Comment
  BY <1>1, UpFacts
<1>10. /\ OnPars(pars[Server], up[u][1]) \subseteq pars[Server] \cup Mentions(up[u][1])
       /\ OnComments(comments[Server], up[u][1]) \subseteq comments[Server] \cup CommentsOf(up[u][1])
  BY EffectWithin
<1>11. /\ OnPars(pars[Server], up[u][1]) \in SUBSET Paragraphs
       /\ OnComments(comments[Server], up[u][1]) \in SUBSET Comment
  BY <1>1, <1>9, <1>10 DEF IInv, TypeInv
<1>12. comments' \in [Replicas -> SUBSET Comment] /\ pars' \in [Replicas -> SUBSET Paragraphs]
  BY <1>1, <1>11 DEF IInv, TypeInv
<1>13. QED
  BY <1>6, <1>7, <1>8, <1>12

\* The formats an update leaves.
LEMMA UpdatedMarks ==
  ASSUME NEW t, NEW k \in Marks, NEW m, m.fmt \in Formats, m.at \in Nat, NEW user \in Users
  PROVE  RemoteUpdate(t, k, m, user) \in Marks
  BY DEF RemoteUpdate, Marks

\* The server's update of formats keeps the invariant.
LEMMA ServerUpdateStep ==
  ASSUME IInv, NEW u \in Users, ServerUpdate(u)
  PROVE  IInv'
<1>1. /\ up[u] # << >> /\ Head(up[u]).type = "upd" /\ Relay(u) /\ Consume(u)
      /\ mark' = [mark EXCEPT ![Server] = RemoteUpdate(text[Server], @, Head(up[u]), u)]
      /\ text' = text /\ pars' = pars /\ comments' = comments /\ inFile' = inFile /\ known' = known
      /\ window' = window /\ listed' = listed /\ lastNo' = lastNo /\ now' = now /\ made' = made
  BY DEF ServerUpdate, Received, server, client
<1>2. Head(up[u]) = up[u][1] /\ up[u][1] \in UpMsg /\ Server \in Replicas
  BY <1>1, Channels, TailFacts DEF IInv
<1>3. IsEdit(Head(up[u]))
  BY <1>1 DEF IsEdit
<1>4. /\ pars[Server] = OnPars(pars[Server], up[u][1])
      /\ comments[Server] = OnComments(comments[Server], up[u][1])
  BY <1>1, <1>2, SilentFacts
<1>5. /\ pars' = [pars EXCEPT ![Server] = OnPars(@, up[u][1])]
      /\ comments' = [comments EXCEPT ![Server] = OnComments(@, up[u][1])]
  BY <1>1, <1>4 DEF IInv, TypeInv
<1>6. /\ FollowInv'
      /\ up' \in [Users -> Seq(UpMsg)] /\ down' \in [Users -> Seq(DownMsg)]
  BY <1>1, <1>3, <1>5, RelayStep
<1>7. mark' \in [Replicas -> Marks]
  <2>1. up[u][1].fmt \in Formats /\ up[u][1].at \in Nat
    BY <1>1, <1>2, UpFacts
  <2>2. RemoteUpdate(text[Server], mark[Server], up[u][1], u) \in Marks
    BY <1>2, <2>1, UpdatedMarks DEF IInv, TypeInv
  <2>3. QED
    BY <1>1, <1>2, <2>2 DEF IInv, TypeInv
<1>8. TypeInv'
  BY <1>1, <1>6, <1>7 DEF IInv, TypeInv
<1>9. QED
  BY <1>6, <1>8 DEF IInv

\* The server's insertions and deletions keep the invariant.
LEMMA ServerWriteStep ==
  ASSUME IInv, NEW u \in Users, ServerInsert(u) \/ ServerDelete(u)
  PROVE  IInv'
<1>1. /\ up[u] # << >> /\ Head(up[u]).type \in {"ins", "del"} /\ Relay(u) /\ Consume(u)
      /\ pars' = [pars EXCEPT ![Server] = IF Head(up[u]).type = "ins" THEN @ \cup Head(up[u]).pars
                                          ELSE @ \ Head(up[u]).pars]
      /\ text' = [text EXCEPT ![Server] = IF Head(up[u]).type = "ins" THEN @ \cup Head(up[u]).syms
                                          ELSE @ \ Head(up[u]).syms]
      /\ mark' = mark /\ comments' = comments /\ inFile' = inFile /\ known' = known
      /\ window' = window /\ listed' = listed /\ lastNo' = lastNo /\ now' = now /\ made' = made
  BY DEF ServerInsert, ServerDelete, Received, server, client
<1>2. Head(up[u]) = up[u][1] /\ up[u][1] \in UpMsg /\ Server \in Replicas
  BY <1>1, Channels, TailFacts DEF IInv
<1>3. IsEdit(Head(up[u]))
  BY <1>1 DEF IsEdit
<1>4. pars' = [pars EXCEPT ![Server] = OnPars(@, up[u][1])]
  BY <1>1, <1>2 DEF OnPars
<1>5. comments[Server] = OnComments(comments[Server], up[u][1])
  BY <1>1, <1>2 DEF OnComments, AboutComment
<1>6. comments' = [comments EXCEPT ![Server] = OnComments(@, up[u][1])]
  BY <1>1, <1>5 DEF IInv, TypeInv
<1>7. /\ FollowInv'
      /\ up' \in [Users -> Seq(UpMsg)] /\ down' \in [Users -> Seq(DownMsg)]
      /\ pars' \in [Replicas -> SUBSET Paragraphs]
  BY <1>1, <1>3, <1>4, <1>6, RelayStep
<1>8. text' \in [Replicas -> SUBSET Symbols]
  <2>1. up[u][1].syms \in SUBSET Symbols
    BY <1>1, <1>2, UpFacts
  <2>2. QED
    BY <1>1, <1>2, <2>1 DEF IInv, TypeInv
<1>9. TypeInv'
  BY <1>1, <1>7, <1>8 DEF IInv, TypeInv
<1>10. QED
  BY <1>7, <1>9 DEF IInv

\* The server's changes of comments keep the invariant.
LEMMA ServerCommentStep ==
  ASSUME IInv, NEW u \in Users, ServerComment(u)
  PROVE  IInv'
<1>1. /\ up[u] # << >> /\ AboutComment(Head(up[u])) /\ Relay(u) /\ Consume(u)
      /\ comments' = [comments EXCEPT ![Server] = CommentsAfter(@, Head(up[u]))]
      /\ text' = text /\ pars' = pars /\ mark' = mark /\ inFile' = inFile /\ known' = known
      /\ window' = window /\ listed' = listed /\ lastNo' = lastNo /\ now' = now /\ made' = made
  BY DEF ServerComment, ReceivedComment, Received, AboutComment, server, client
<1>2. Head(up[u]) = up[u][1] /\ up[u][1] \in UpMsg /\ Server \in Replicas
  BY <1>1, Channels, TailFacts DEF IInv
<1>3. IsEdit(Head(up[u]))
  BY <1>1 DEF IsEdit, AboutComment
<1>4. comments' = [comments EXCEPT ![Server] = OnComments(@, up[u][1])]
  BY <1>1, <1>2 DEF OnComments
<1>5. pars[Server] = OnPars(pars[Server], up[u][1])
  BY <1>1, <1>2 DEF OnPars, AboutComment
<1>6. pars' = [pars EXCEPT ![Server] = OnPars(@, up[u][1])]
  BY <1>1, <1>5 DEF IInv, TypeInv
<1>7. /\ FollowInv'
      /\ up' \in [Users -> Seq(UpMsg)] /\ down' \in [Users -> Seq(DownMsg)]
      /\ comments' \in [Replicas -> SUBSET Comment]
  BY <1>1, <1>3, <1>4, <1>6, RelayStep
<1>8. TypeInv'
  BY <1>1, <1>7 DEF IInv, TypeInv
<1>9. QED
  BY <1>7, <1>8 DEF IInv

\* Closing a file on the server keeps the invariant.
LEMMA ServerCloseStep ==
  ASSUME IInv, NEW u \in Users, ServerClose(u) \/ ServerRemove(u)
  PROVE  IInv'
<1>1. /\ up[u] # << >> /\ Head(up[u]).type \in {"close", "remove"} /\ Consume(u)
      /\ inFile' = inFile \ {u} /\ known' \subseteq known
      /\ text' = text /\ pars' = pars /\ mark' = mark /\ comments' = comments
      /\ window' = window /\ listed' = listed /\ lastNo' = lastNo /\ now' = now /\ made' = made
      /\ down' = down
  BY DEF ServerClose, ServerRemove, Received, file, client
<1>2. Head(up[u]) = up[u][1] /\ Tail(up[u]) \in Seq(UpMsg)
  BY <1>1, Channels, TailFacts DEF IInv
<1>3. Dismisses(u)
  BY <1>1, <1>2 DEF Dismisses, Takings, Consume
<1>4. FollowInv'
  BY <1>3, DismissedStep DEF IInv
<1>5. up' \in [Users -> Seq(UpMsg)]
  BY <1>1, <1>2 DEF IInv, TypeInv, Consume
<1>6. TypeInv'
  BY <1>1, <1>5 DEF IInv, TypeInv
<1>7. QED
  BY <1>4, <1>6 DEF IInv

\* Opening a file on the server keeps the invariant.
LEMMA ServerGetStep ==
  ASSUME IInv, NEW u \in Users, ServerGet(u)
  PROVE  IInv'
<1>1. /\ up[u] # << >> /\ Head(up[u]).type = "get" /\ Consume(u) /\ u \notin inFile
      /\ inFile' = inFile \cup {u} /\ known' = known \cup {u}
      /\ text' = text /\ pars' = pars /\ mark' = mark /\ comments' = comments
      /\ window' = window /\ listed' = listed /\ lastNo' = lastNo /\ now' = now /\ made' = made
  BY DEF ServerGet, Received, file, client
<1>2. /\ Head(up[u]) = up[u][1] /\ Tail(up[u]) \in Seq(UpMsg) /\ Server \in Replicas
  BY <1>1, Channels, TailFacts DEF IInv
<1>3. PICK m : /\ m = [type |-> "file", text |-> text[Server], pars |-> pars[Server],
                       fmts |-> [s \in Symbols |-> mark[Server][s].fmt],
                       comments |-> comments[Server], known |-> known']
               /\ down' = [down EXCEPT ![u] = IF Ended(u) THEN @ ELSE Append(@, m)]
  BY DEF ServerGet
<1>4. m \in DownMsg
  <2>1. [s \in Symbols |-> mark[Server][s].fmt] \in [Symbols -> Formats]
    BY <1>2 DEF IInv, TypeInv, Marks
  <2>2. /\ text[Server] \in SUBSET Symbols /\ pars[Server] \in SUBSET Paragraphs
        /\ comments[Server] \in SUBSET Comment /\ known' \in SUBSET Users
    BY <1>1, <1>2 DEF IInv, TypeInv
  <2>3. QED
    BY <1>3, <2>1, <2>2 DEF DownMsg
<1>5. m.type = "file" /\ m.pars = pars[Server] /\ m.comments = comments[Server]
  BY <1>3
<1>6. Takings(u)
  BY <1>1, <1>2 DEF Takings, Consume
<1>7. Admits(u, m)
  BY <1>1, <1>2, <1>3, <1>4, <1>5, <1>6 DEF Admits
<1>8. FollowInv'
  BY <1>7, AdmittedStep DEF IInv
<1>9. up' \in [Users -> Seq(UpMsg)]
  BY <1>1, <1>2 DEF IInv, TypeInv, Consume
<1>10. down' \in [Users -> Seq(DownMsg)]
  <2>1. Append(down[u], m) \in Seq(DownMsg) /\ down[u] \in Seq(DownMsg)
    BY <1>4, Channels, AppendFacts DEF IInv
  <2>2. QED
    BY <1>3, <2>1 DEF IInv, TypeInv
<1>11. TypeInv'
  BY <1>1, <1>9, <1>10 DEF IInv, TypeInv
<1>12. QED
  BY <1>8, <1>11 DEF IInv

-----------------------------------------------------------------------------
(***************************************************************************)
(* The editors' handlers.                                                    *)
(***************************************************************************)
\* An editor takes the first message and does to its lists what that says.
LEMMA ArriveStep ==
  ASSUME IInv, NEW u \in Users, down[u] # << >>, Drop(u), up' = up,
         pars' = [pars EXCEPT ![u] = OnPars(@, down[u][1])],
         comments' = [comments EXCEPT ![u] = OnComments(@, down[u][1])],
         window' = IF down[u][1].type = "file" THEN [window EXCEPT ![u] = "open"] ELSE window,
         inFile' = inFile, made' = made, lastNo' = lastNo
  PROVE  /\ FollowInv'
         /\ up' \in [Users -> Seq(UpMsg)] /\ down' \in [Users -> Seq(DownMsg)]
         /\ comments' \in [Replicas -> SUBSET Comment] /\ pars' \in [Replicas -> SUBSET Paragraphs]
         /\ window' \in [Users -> Windows]
<1>1. /\ down[u][1] \in DownMsg /\ Tail(down[u]) \in Seq(DownMsg) /\ u \in Replicas
  BY Channels, TailFacts DEF IInv
<1>2. Hears(u)
  BY DEF Hears, Drop
<1>3. FollowInv'
  BY <1>2, HeardStep DEF IInv
<1>4. down' \in [Users -> Seq(DownMsg)]
  BY <1>1 DEF IInv, TypeInv, Drop
<1>5. /\ Mentions(down[u][1]) \subseteq Paragraphs /\ CommentsOf(down[u][1]) \subseteq Comment
  BY <1>1, DownFacts
<1>6. /\ OnPars(pars[u], down[u][1]) \subseteq pars[u] \cup Mentions(down[u][1])
      /\ OnComments(comments[u], down[u][1]) \subseteq comments[u] \cup CommentsOf(down[u][1])
  BY EffectWithin
<1>7. /\ OnPars(pars[u], down[u][1]) \in SUBSET Paragraphs
      /\ OnComments(comments[u], down[u][1]) \in SUBSET Comment
  BY <1>1, <1>5, <1>6 DEF IInv, TypeInv
<1>8. comments' \in [Replicas -> SUBSET Comment] /\ pars' \in [Replicas -> SUBSET Paragraphs]
  BY <1>1, <1>7 DEF IInv, TypeInv
<1>9. window' \in [Users -> Windows] /\ up' \in [Users -> Seq(UpMsg)]
  BY DEF IInv, TypeInv, Windows
<1>10. QED
  BY <1>3, <1>4, <1>8, <1>9

\* An editor's update of formats keeps the invariant, also one that ends the client.
LEMMA ClientUpdateStep ==
  ASSUME IInv, NEW u \in Users, ClientUpdate(u)
  PROVE  IInv'
<1>1. /\ down[u] # << >> /\ Head(down[u]).type = "upd"
      /\ mark' = [mark EXCEPT ![u] = RemoteUpdate(text[u], @, Head(down[u]), Head(down[u]).user)]
      /\ \/ Drop(u) /\ window' = window /\ up' = up
         \/ Ends(u, "endedByUpdate", up[u])
      /\ text' = text /\ pars' = pars /\ comments' = comments /\ inFile' = inFile /\ known' = known
      /\ listed' = listed /\ lastNo' = lastNo /\ now' = now /\ made' = made
  BY DEF ClientUpdate, Arrived, server
<1>2. Head(down[u]) = down[u][1] /\ down[u][1] \in DownMsg /\ u \in Replicas
  BY <1>1, Channels, TailFacts DEF IInv
<1>3. mark' \in [Replicas -> Marks]
  <2>1. /\ down[u][1].fmt \in Formats /\ down[u][1].at \in Nat
        /\ down[u][1].user \in Users
    BY <1>1, <1>2, DownFacts
  <2>2. RemoteUpdate(text[u], mark[u], down[u][1], down[u][1].user) \in Marks
    BY <1>2, <2>1, UpdatedMarks DEF IInv, TypeInv
  <2>3. QED
    BY <1>1, <1>2, <2>2 DEF IInv, TypeInv
<1>4. /\ FollowInv'
      /\ up' \in [Users -> Seq(UpMsg)] /\ down' \in [Users -> Seq(DownMsg)]
      /\ window' \in [Users -> Windows]
  <2>1. CASE Drop(u) /\ window' = window /\ up' = up
    <3>1. /\ pars[u] = OnPars(pars[u], down[u][1])
          /\ comments[u] = OnComments(comments[u], down[u][1])
      BY <1>1, <1>2, SilentFacts
    <3>2. /\ pars' = [pars EXCEPT ![u] = OnPars(@, down[u][1])]
          /\ comments' = [comments EXCEPT ![u] = OnComments(@, down[u][1])]
      BY <1>1, <3>1 DEF IInv, TypeInv
    <3>3. window' = IF down[u][1].type = "file" THEN [window EXCEPT ![u] = "open"] ELSE window
      BY <1>1, <1>2, <2>1
    <3>4. QED
      BY <1>1, <2>1, <3>2, <3>3, ArriveStep
  <2>2. CASE Ends(u, "endedByUpdate", up[u])
    <3>1. "endedByUpdate" \in EndWords
      BY DEF EndWords
    <3>2. QED
      BY <1>1, <2>2, <3>1, EndsFalls
  <2>3. QED
    BY <1>1, <2>1, <2>2
<1>5. TypeInv'
  BY <1>1, <1>3, <1>4 DEF IInv, TypeInv
<1>6. QED
  BY <1>4, <1>5 DEF IInv

\* An editor's insertions and deletions keep the invariant.
LEMMA ClientWriteStep ==
  ASSUME IInv, NEW u \in Users, ClientInsert(u) \/ ClientDelete(u)
  PROVE  IInv'
<1>1. /\ down[u] # << >> /\ Head(down[u]).type \in {"ins", "del"} /\ Drop(u)
      /\ pars' = [pars EXCEPT ![u] = IF Head(down[u]).type = "ins" THEN @ \cup Head(down[u]).pars
                                     ELSE @ \ Head(down[u]).pars]
      /\ text' = [text EXCEPT ![u] = IF Head(down[u]).type = "ins" THEN @ \cup Head(down[u]).syms
                                     ELSE @ \ Head(down[u]).syms]
      /\ mark' = mark /\ comments' = comments /\ inFile' = inFile /\ known' = known /\ up' = up
      /\ window' = window /\ listed' = listed /\ lastNo' = lastNo /\ now' = now /\ made' = made
  BY DEF ClientInsert, ClientDelete, Arrived, server, client
<1>2. Head(down[u]) = down[u][1] /\ down[u][1] \in DownMsg /\ u \in Replicas
  BY <1>1, Channels, TailFacts DEF IInv
<1>3. pars' = [pars EXCEPT ![u] = OnPars(@, down[u][1])]
  BY <1>1, <1>2 DEF OnPars
<1>4. comments[u] = OnComments(comments[u], down[u][1])
  BY <1>1, <1>2 DEF OnComments, AboutComment
<1>5. comments' = [comments EXCEPT ![u] = OnComments(@, down[u][1])]
  BY <1>1, <1>4 DEF IInv, TypeInv
<1>6. window' = IF down[u][1].type = "file" THEN [window EXCEPT ![u] = "open"] ELSE window
  BY <1>1, <1>2
<1>7. /\ FollowInv'
      /\ up' \in [Users -> Seq(UpMsg)] /\ down' \in [Users -> Seq(DownMsg)]
      /\ pars' \in [Replicas -> SUBSET Paragraphs]
  BY <1>1, <1>3, <1>5, <1>6, ArriveStep
<1>8. text' \in [Replicas -> SUBSET Symbols]
  <2>1. down[u][1].syms \in SUBSET Symbols
    BY <1>1, <1>2, DownFacts
  <2>2. QED
    BY <1>1, <1>2, <2>1 DEF IInv, TypeInv
<1>9. TypeInv'
  BY <1>1, <1>7, <1>8 DEF IInv, TypeInv
<1>10. QED
  BY <1>7, <1>9 DEF IInv

\* An editor's changes of comments keep the invariant: the comment is there, so
\* none ends the client.
LEMMA ClientCommentStep ==
  ASSUME IInv, NEW u \in Users, ClientComment(u)
  PROVE  IInv'
<1>1. /\ down[u] # << >> /\ AboutComment(Head(down[u]))
      /\ \/ /\ comments' = [comments EXCEPT ![u] = CommentsAfter(@, Head(down[u]))]
            /\ Drop(u) /\ window' = window /\ up' = up
         \/ Ends(u, "endedByComment", up[u]) /\ comments' = comments
      /\ text' = text /\ pars' = pars /\ mark' = mark /\ inFile' = inFile /\ known' = known
      /\ listed' = listed /\ lastNo' = lastNo /\ now' = now /\ made' = made
  BY DEF ClientComment, Arrived, AboutComment, server
<1>2. Head(down[u]) = down[u][1] /\ u \in Replicas
  BY <1>1, Channels, TailFacts DEF IInv
<1>3. CASE /\ comments' = [comments EXCEPT ![u] = CommentsAfter(@, Head(down[u]))]
           /\ Drop(u) /\ window' = window /\ up' = up
  <2>1. comments' = [comments EXCEPT ![u] = OnComments(@, down[u][1])]
    BY <1>1, <1>2, <1>3 DEF OnComments
  <2>2. pars[u] = OnPars(pars[u], down[u][1])
    BY <1>1, <1>2 DEF OnPars, AboutComment
  <2>3. pars' = [pars EXCEPT ![u] = OnPars(@, down[u][1])]
    BY <1>1, <2>2 DEF IInv, TypeInv
  <2>4. window' = IF down[u][1].type = "file" THEN [window EXCEPT ![u] = "open"] ELSE window
    BY <1>1, <1>2, <1>3 DEF AboutComment
  <2>5. /\ FollowInv'
        /\ up' \in [Users -> Seq(UpMsg)] /\ down' \in [Users -> Seq(DownMsg)]
        /\ comments' \in [Replicas -> SUBSET Comment] /\ window' \in [Users -> Windows]
    BY <1>1, <1>3, <2>1, <2>3, <2>4, ArriveStep
  <2>6. TypeInv'
    BY <1>1, <2>5 DEF IInv, TypeInv
  <2>7. QED
    BY <2>5, <2>6 DEF IInv
<1>4. CASE Ends(u, "endedByComment", up[u]) /\ comments' = comments
  <2>1. "endedByComment" \in EndWords
    BY DEF EndWords
  <2>2. /\ FollowInv'
        /\ up' \in [Users -> Seq(UpMsg)] /\ down' \in [Users -> Seq(DownMsg)]
        /\ window' \in [Users -> Windows]
    BY <1>1, <1>4, <2>1, EndsFalls
  <2>3. TypeInv'
    BY <1>1, <1>4, <2>2 DEF IInv, TypeInv
  <2>4. QED
    BY <2>2, <2>3 DEF IInv
<1>5. QED
  BY <1>1, <1>3, <1>4

\* The file that arrives keeps the invariant, also where it ends the client.
LEMMA ClientFileStep ==
  ASSUME IInv, NEW u \in Users, ClientFile(u)
  PROVE  IInv'
<1>1. /\ down[u] # << >> /\ Head(down[u]).type = "file"
      /\ text' = [text EXCEPT ![u] = Head(down[u]).text]
      /\ pars' = [pars EXCEPT ![u] = Head(down[u]).pars]
      /\ mark' = [mark EXCEPT ![u] =
                    [s \in Symbols |-> [fmt |-> Head(down[u]).fmts[s], at |-> 0, by |-> Author[s]]]]
      /\ comments' = [comments EXCEPT ![u] = Head(down[u]).comments]
      /\ listed' = [listed EXCEPT ![u] = Head(down[u]).known]
      /\ \/ window' = [window EXCEPT ![u] = "open"] /\ Drop(u) /\ up' = up
         \/ Ends(u, "endedByFile", up[u])
      /\ inFile' = inFile /\ known' = known /\ lastNo' = lastNo /\ now' = now /\ made' = made
  BY DEF ClientFile, Arrived, server
<1>2. /\ Head(down[u]) = down[u][1] /\ down[u][1] \in DownMsg /\ u \in Replicas
      /\ 1 \in DOMAIN down[u]
  BY <1>1, Channels, TailFacts DEF IInv
<1>3. /\ down[u][1].text \in SUBSET Symbols /\ down[u][1].pars \in SUBSET Paragraphs
      /\ down[u][1].fmts \in [Symbols -> Formats]
      /\ down[u][1].comments \in SUBSET Comment /\ down[u][1].known \in SUBSET Users
  BY <1>1, <1>2, DownFacts
<1>4. mark' \in [Replicas -> Marks]
  <2>1. [s \in Symbols |-> [fmt |-> down[u][1].fmts[s], at |-> 0, by |-> Author[s]]] \in Marks
    BY <1>3, TextAssumption DEF Marks
  <2>2. QED
    BY <1>1, <1>2, <2>1 DEF IInv, TypeInv
<1>5. /\ text' \in [Replicas -> SUBSET Symbols] /\ pars' \in [Replicas -> SUBSET Paragraphs]
      /\ comments' \in [Replicas -> SUBSET Comment] /\ listed' \in [Users -> SUBSET Users]
  BY <1>1, <1>2, <1>3 DEF IInv, TypeInv
<1>6. /\ FollowInv'
      /\ up' \in [Users -> Seq(UpMsg)] /\ down' \in [Users -> Seq(DownMsg)]
      /\ window' \in [Users -> Windows]
  <2>1. CASE window' = [window EXCEPT ![u] = "open"] /\ Drop(u) /\ up' = up
    <3>1. /\ pars' = [pars EXCEPT ![u] = OnPars(@, down[u][1])]
          /\ comments' = [comments EXCEPT ![u] = OnComments(@, down[u][1])]
      BY <1>1, <1>2 DEF OnPars, OnComments, AboutComment
    <3>2. window' = IF down[u][1].type = "file" THEN [window EXCEPT ![u] = "open"] ELSE window
      BY <1>1, <1>2, <2>1
    <3>3. QED
      BY <1>1, <2>1, <3>1, <3>2, ArriveStep
  <2>2. CASE Ends(u, "endedByFile", up[u])
    <3>1. "endedByFile" \in EndWords
      BY DEF EndWords
    <3>2. /\ \A r \in Replicas \ {u} : pars'[r] = pars[r] /\ comments'[r] = comments[r]
          /\ pars'[u] = down[u][1].pars /\ comments'[u] = down[u][1].comments
      BY <1>1, <1>2 DEF IInv, TypeInv
    <3>3. QED
      BY <1>1, <1>2, <2>2, <3>1, <3>2, EndsFalls
  <2>3. QED
    BY <1>1, <2>1, <2>2
<1>7. TypeInv'
  BY <1>1, <1>4, <1>5, <1>6 DEF IInv, TypeInv
<1>8. QED
  BY <1>6, <1>7 DEF IInv

\* Reading the file again keeps the invariant: paragraphs and comments are stored.
LEMMA ReloadStep ==
  ASSUME IInv, Reload
  PROVE  IInv'
<1>1. /\ mark' = [mark EXCEPT ![Server] =
                    [s \in Symbols |-> [@[s] EXCEPT !.at = 0, !.by = Author[s]]]]
      /\ up' = up /\ down' = down /\ window' = window /\ inFile' = inFile /\ pars' = pars
      /\ comments' = comments /\ made' = made /\ lastNo' = lastNo
      /\ text' = text /\ known' = known /\ listed' = listed /\ now' = now
  BY DEF Reload, server, client, channels
<1>2. FollowInv'
  BY <1>1, StillStep DEF IInv
<1>3. mark' \in [Replicas -> Marks]
  <2>1. Server \in Replicas
    BY DEF Replicas
  <2>2. \A s \in Symbols : mark[Server][s] \in [fmt : Formats, at : Nat, by : Users]
    BY <2>1 DEF IInv, TypeInv, Marks
  <2>3. [s \in Symbols |-> [mark[Server][s] EXCEPT !.at = 0, !.by = Author[s]]] \in Marks
    BY <2>2, TextAssumption DEF Marks
  <2>4. QED
    BY <1>1, <2>1, <2>3 DEF IInv, TypeInv
<1>4. TypeInv'
  BY <1>1, <1>3 DEF IInv, TypeInv
<1>5. QED
  BY <1>2, <1>4 DEF IInv

\* The clock keeps the invariant.
LEMMA TickStep ==
  ASSUME IInv, Tick
  PROVE  IInv'
<1>1. /\ now' = now + 1 /\ mark' = mark
      /\ up' = up /\ down' = down /\ window' = window /\ inFile' = inFile /\ pars' = pars
      /\ comments' = comments /\ made' = made /\ lastNo' = lastNo
      /\ text' = text /\ known' = known /\ listed' = listed
  BY DEF Tick, file, server, client, channels
<1>2. FollowInv'
  BY <1>1, StillStep DEF IInv
<1>3. TypeInv'
  BY <1>1 DEF IInv, TypeInv
<1>4. QED
  BY <1>2, <1>3 DEF IInv

\* A step in which nothing changes keeps the invariant.
LEMMA StutterStep ==
  ASSUME IInv, UNCHANGED vars
  PROVE  IInv'
<1>1. /\ now' = now /\ mark' = mark
      /\ up' = up /\ down' = down /\ window' = window /\ inFile' = inFile /\ pars' = pars
      /\ comments' = comments /\ made' = made /\ lastNo' = lastNo
      /\ text' = text /\ known' = known /\ listed' = listed
  BY DEF vars, file, server, client, channels
<1>2. FollowInv'
  BY <1>1, StillStep DEF IInv
<1>3. TypeInv'
  BY <1>1 DEF IInv, TypeInv
<1>4. QED
  BY <1>2, <1>3 DEF IInv

\* Every step keeps the invariant.
LEMMA NextStep ==
  ASSUME IInv, [Next]_vars
  PROVE  IInv'
<1>1. ASSUME NEW u \in Users, Works(u)
      PROVE  IInv'
  <2>1. CASE \E S \in Ranges, f \in Formats : Format(u, S, f)
    BY <2>1, FormatStep
  <2>2. CASE \E gone \in SUBSET text[u], new \in kSubset(0, Symbols) \cup kSubset(1, Symbols) :
               Edit(u, gone, new)
    <3>1. kSubset(0, Symbols) \cup kSubset(1, Symbols) \subseteq SUBSET Symbols
      BY DEF kSubset
    <3>2. QED
      BY <2>2, <3>1, EditStep
  <2>3. CASE InsertComment(u)
    BY <2>3, InsertCommentStep
  <2>4. CASE \E c \in Own(u) : EditComment(u, c) \/ DeleteComment(u, c)
    BY <2>4, OwnCommentStep
  <2>5. CASE Open(u) \/ Close(u) \/ DropLink(u)
    BY <2>5, OpenStep
  <2>6. CASE Highlight(u)
    BY <2>6, HighlightStep
  <2>7. QED
    BY <1>1, <2>1, <2>2, <2>3, <2>4, <2>5, <2>6 DEF Works
<1>2. ASSUME NEW u \in Users, ServerReceives(u)
      PROVE  IInv'
  BY <1>2, ServerGetStep, ServerCloseStep, ServerUpdateStep, ServerWriteStep, ServerCommentStep
  DEF ServerReceives
<1>3. ASSUME NEW u \in Users, ClientReceives(u)
      PROVE  IInv'
  BY <1>3, ClientFileStep, ClientUpdateStep, ClientWriteStep, ClientCommentStep
  DEF ClientReceives
<1>4. CASE Reload
  BY <1>4, ReloadStep
<1>5. CASE Tick
  BY <1>5, TickStep
<1>6. CASE UNCHANGED vars
  BY <1>6, StutterStep
<1>7. QED
  BY <1>1, <1>2, <1>3, <1>4, <1>5, <1>6 DEF Next

\* The invariant holds at the start.
LEMMA InitInvariant ==
  ASSUME Init
  PROVE  IInv
<1>1. TypeInv
  <2>1. InitialText \in SUBSET Symbols /\ InitialPars \in SUBSET Paragraphs
    BY TextAssumption
  <2>2. [s \in Symbols |-> Unchanged(s)] \in Marks
    BY TextAssumption DEF Unchanged, Marks
  <2>3. Inside \in SUBSET Users
    BY UsersAssumption
  <2>4. << >> \in Seq(UpMsg) /\ << >> \in Seq(DownMsg)
    OBVIOUS
  <2>5. QED
    BY <2>1, <2>2, <2>3, <2>4 DEF Init, TypeInv, Windows
<1>2. /\ \A u \in Users : up[u] = << >> /\ down[u] = << >> /\ DOMAIN up[u] = {} /\ DOMAIN down[u] = {}
      /\ \A r \in Replicas : pars[r] = InitialPars /\ comments[r] = {}
      /\ made = InitialPars /\ inFile = Inside
      /\ window = [u \in Users |-> IF u \in Inside THEN "open" ELSE "closed"]
  BY DEF Init
<1>3. AllMade /\ Numbered
  BY <1>2 DEF AllMade, Numbered
<1>4. ASSUME NEW u \in Users
      PROVE  /\ Session(u) /\ Private(u) /\ Brought(u) /\ Authors(u) /\ Follows(u)
             /\ Meets(Held(Server), up[u]) /\ Meets(Held(u), down[u])
  <2>1. Private(u) /\ Brought(u) /\ Authors(u)
    BY <1>2 DEF Private, Brought, Authors
  <2>2. Meets(Held(Server), up[u]) /\ Meets(Held(u), down[u])
    BY <1>2 DEF Meets
  <2>3. Session(u)
    BY <1>2 DEF Session, Files, Gets
  <2>4. Held(u) = Held(Server)
    BY <1>2 DEF Held, Replicas
  <2>5. Follows(u)
    BY <1>2, <2>4 DEF Follows
  <2>6. QED
    BY <2>1, <2>2, <2>3, <2>5
<1>5. QED
  BY <1>1, <1>3, <1>4 DEF IInv, FollowInv

\* Types, and that every editor the server writes to holds, once it has received
\* what is on the way, the paragraphs and comments the server will have once it has
\* received what that editor has sent: at every step of every handler, for any
\* number of users, paragraphs and comments.
THEOREM Invariant == Spec => []IInv
<1>1. Init => IInv
  BY InitInvariant
<1>2. IInv /\ [Next]_vars => IInv'
  BY NextStep
<1>3. QED
  BY <1>1, <1>2, PTL DEF Spec

-----------------------------------------------------------------------------
(***************************************************************************)
(* ParsAfterAll and CommentsAfterAll, which the property is stated with, are *)
(* folds over the messages: they are the two halves of After.                *)
(***************************************************************************)
\* The largest of some of the first numbers.
LEMMA LargestIndex ==
  ASSUME NEW n \in Nat, NEW s \in SUBSET (1 .. (n + 1)), n + 1 \in s
  PROVE  Max(s) = n + 1
<1>1. n + 1 \in s /\ \A y \in s : n + 1 >= y
  OBVIOUS
<1>2. \A x \in s : (\A y \in s : x >= y) => x = n + 1
  BY <1>1
<1>3. QED
  BY <1>1, <1>2 DEF Max

\* The first numbers and the last of them.
LEMMA FirstNumbers ==
  ASSUME NEW n \in Nat, NEW i \in 1 .. n
  PROVE  /\ 1 .. i \in SUBSET (1 .. n) /\ 1 .. i # {} /\ i - 1 \in 0 .. n
         /\ (1 .. i) \ {i} = 1 .. (i - 1) /\ i \in 0 .. n /\ Max(1 .. i) = i
<1>1. i - 1 \in Nat /\ (i - 1) + 1 = i /\ i \in 1 .. i /\ i \in 0 .. n /\ i - 1 \in 0 .. n
  OBVIOUS
<1>2. \A x : x \in 1 .. i => x \in 1 .. n
  OBVIOUS
<1>3. \A x : x \in (1 .. i) \ {i} <=> x \in 1 .. (i - 1)
  OBVIOUS
<1>4. Max(1 .. i) = i
  BY <1>1, LargestIndex
<1>5. QED
  BY <1>1, <1>2, <1>3, <1>4

\* What one element makes of the value of a fold: of the paragraphs or of the
\* comments of an open editor, or of the walk over the symbols of an update.
OnEach(how, Y, m) ==
  CASE how.kind = "pars" ->
         (CASE m.type = "ins" -> Y \cup m.pars
            [] m.type = "del" -> Y \ m.pars
            [] OTHER -> Y)
    [] how.kind = "comments" ->
         IF m.type \in {"new", "words", "erase"} THEN CommentsAfter(Y, m) ELSE Y
    [] OTHER -> WalkStep(how.text, how.takes, how.fmt, Y, m)
OfPars == [kind |-> "pars"]
OfComments == [kind |-> "comments"]
IsFold(F, how, Y, q, n) ==
  F = [s \in SUBSET (1 .. n) |-> IF s = {} THEN Y ELSE OnEach(how, F[s \ {Max(s)}], q[Max(s)])]

\* The function that a fold is defined by exists.
LEMMA FoldExists ==
  ASSUME NEW how, NEW Y, NEW q, NEW l \in Nat
  PROVE  \E F : IsFold(F, how, Y, q, l)
<1>. DEFINE S == {n \in Nat : \E F : IsFold(F, how, Y, q, n)}
<1>1. 0 \in S
  <2>. DEFINE F == [s \in SUBSET (1 .. 0) |-> Y]
  <2>1. \A s \in SUBSET (1 .. 0) : s = {}
    OBVIOUS
  <2>2. IsFold(F, how, Y, q, 0)
    BY <2>1 DEF IsFold
  <2>3. QED
    BY <2>2
<1>2. ASSUME NEW n \in Nat, n \in S PROVE n + 1 \in S
  <2>1. PICK F : IsFold(F, how, Y, q, n)
    BY <1>2
  <2>. DEFINE G == [s \in SUBSET (1 .. (n + 1)) |->
                     IF n + 1 \in s THEN OnEach(how, F[s \ {n + 1}], q[n + 1]) ELSE F[s]]
  <2>2. ASSUME NEW s \in SUBSET (1 .. (n + 1))
        PROVE  G[s] = IF s = {} THEN Y ELSE OnEach(how, G[s \ {Max(s)}], q[Max(s)])
    <3>1. CASE n + 1 \in s
      <4>1. Max(s) = n + 1 /\ s \ {n + 1} \in SUBSET (1 .. n)
            /\ s \ {n + 1} \in SUBSET (1 .. (n + 1)) /\ n + 1 \notin s \ {n + 1}
        BY <3>1, LargestIndex
      <4>2. G[s \ {n + 1}] = F[s \ {n + 1}]
        BY <4>1
      <4>3. G[s] = OnEach(how, F[s \ {n + 1}], q[n + 1])
        BY <3>1
      <4>4. QED
        BY <3>1, <4>1, <4>2, <4>3
    <3>2. CASE n + 1 \notin s
      <4>1. s \in SUBSET (1 .. n) /\ G[s] = F[s]
        BY <3>2
      <4>2. F[s] = IF s = {} THEN Y ELSE OnEach(how, F[s \ {Max(s)}], q[Max(s)])
        BY <2>1, <4>1 DEF IsFold
      <4>3. CASE s = {}
        BY <4>1, <4>2, <4>3
      <4>4. CASE s # {}
        <5>1. s \ {Max(s)} \in SUBSET (1 .. (n + 1)) /\ n + 1 \notin s \ {Max(s)}
          BY <3>2
        <5>2. G[s \ {Max(s)}] = F[s \ {Max(s)}]
          BY <5>1
        <5>3. QED
          BY <4>1, <4>2, <4>4, <5>2
      <4>5. QED
        BY <4>3, <4>4
    <3>3. QED
      BY <3>1, <3>2
  <2>3. G = [s \in SUBSET (1 .. (n + 1)) |-> G[s]]
    OBVIOUS
  <2>. HIDE DEF G
  <2>4. IsFold(G, how, Y, q, n + 1)
    BY <2>2, <2>3 DEF IsFold
  <2>5. QED
    BY <2>4
<1>. HIDE DEF S
<1>3. Nat \subseteq S
  BY <1>1, <1>2, Counting
<1>4. l \in S
  BY <1>3
<1>5. QED
  BY <1>4 DEF S

\* On the first messages it is what they make of Y, one after the other.
LEMMA FoldSteps ==
  ASSUME NEW how, NEW Y, NEW q, NEW l \in Nat, NEW F, IsFold(F, how, Y, q, l)
  PROVE  /\ F[1 .. 0] = Y
         /\ \A i \in 1 .. l : F[1 .. i] = OnEach(how, F[1 .. (i - 1)], q[i])
<1>1. ASSUME NEW s \in SUBSET (1 .. l)
      PROVE  F[s] = IF s = {} THEN Y ELSE OnEach(how, F[s \ {Max(s)}], q[Max(s)])
  BY DEF IsFold
<1>2. F[1 .. 0] = Y
  <2>1. 1 .. 0 = {}
    OBVIOUS
  <2>2. QED
    BY <1>1, <2>1
<1>3. ASSUME NEW i \in 1 .. l
      PROVE  F[1 .. i] = OnEach(how, F[1 .. (i - 1)], q[i])
  <2>1. 1 .. i \in SUBSET (1 .. l) /\ 1 .. i # {} /\ (1 .. i) \ {i} = 1 .. (i - 1)
        /\ Max(1 .. i) = i
    BY FirstNumbers
  <2>2. QED
    BY <1>1, <2>1
<1>4. QED
  BY <1>2, <1>3

\* The fold over messages of which none is a file is a part of After.
LEMMA FoldIsAfter ==
  ASSUME NEW X, NEW q, Len(q) \in Nat, \A i \in 1 .. Len(q) : q[i].type # "file", NEW F
  PROVE  /\ IsFold(F, OfPars, X.pars, q, Len(q)) => F[1 .. Len(q)] = After(X, q).pars
         /\ IsFold(F, OfComments, X.comments, q, Len(q)) => F[1 .. Len(q)] = After(X, q).comments
<1>. DEFINE l == Len(q)
<1>1. l \in Nat /\ l \in 0 .. l
  OBVIOUS
<1>2. /\ Steps(X, q)[0] = X
      /\ \A i \in 1 .. l : Steps(X, q)[i] = Effect(Steps(X, q)[i - 1], q[i])
  BY StepsFacts
<1>3. ASSUME NEW i \in 1 .. l
      PROVE  /\ Steps(X, q)[i].pars = OnEach(OfPars, Steps(X, q)[i - 1].pars, q[i])
             /\ Steps(X, q)[i].comments = OnEach(OfComments, Steps(X, q)[i - 1].comments, q[i])
  <2>1. q[i].type # "file"
    OBVIOUS
  <2>2. \A P : OnEach(OfPars, P, q[i]) = OnPars(P, q[i])
    BY <2>1 DEF OnEach, OfPars, OfComments, OnPars
  <2>3. \A C : OnEach(OfComments, C, q[i]) = OnComments(C, q[i])
    BY <2>1 DEF OnEach, OfPars, OfComments, OnComments, AboutComment
  <2>4. Steps(X, q)[i] = Effect(Steps(X, q)[i - 1], q[i])
    BY <1>2
  <2>5. QED
    BY <2>2, <2>3, <2>4 DEF Effect
<1>. HIDE DEF l
<1>4. ASSUME NEW how, NEW Y, IsFold(F, how, Y, q, l)
      PROVE  /\ F[1 .. 0] = Y
             /\ \A i \in 1 .. l : F[1 .. i] = OnEach(how, F[1 .. (i - 1)], q[i])
  BY <1>1, <1>4, FoldSteps
<1>5. ASSUME IsFold(F, OfPars, X.pars, q, l)
      PROVE  F[1 .. l] = Steps(X, q)[l].pars
  <2>1. /\ F[1 .. 0] = X.pars
        /\ \A i \in 1 .. l : F[1 .. i] = OnEach(OfPars, F[1 .. (i - 1)], q[i])
    BY <1>5, <1>4
  <2>. DEFINE S == {i \in Nat : i <= l => F[1 .. i] = Steps(X, q)[i].pars}
  <2>2. 0 \in S
    BY <1>2, <2>1
  <2>3. ASSUME NEW i \in Nat, i \in S PROVE i + 1 \in S
    <3>1. CASE i + 1 <= l
      <4>1. i + 1 \in 1 .. l /\ (i + 1) - 1 = i /\ i <= l
        BY <1>1, <3>1
      <4>2. F[1 .. (i + 1)] = OnEach(OfPars, F[1 .. i], q[i + 1])
        BY <2>1, <4>1
      <4>3. Steps(X, q)[i + 1].pars = OnEach(OfPars, Steps(X, q)[i].pars, q[i + 1])
        BY <1>3, <4>1
      <4>4. F[1 .. i] = Steps(X, q)[i].pars
        BY <2>3, <4>1
      <4>5. QED
        BY <4>2, <4>3, <4>4
    <3>2. CASE ~ (i + 1 <= l)
      BY <3>2
    <3>3. QED
      BY <3>1, <3>2
  <2>. HIDE DEF S
  <2>4. Nat \subseteq S
    BY <2>2, <2>3, Counting
  <2>5. l \in S
    BY <1>1, <2>4
  <2>6. QED
    BY <1>1, <2>5 DEF S
<1>6. ASSUME IsFold(F, OfComments, X.comments, q, l)
      PROVE  F[1 .. l] = Steps(X, q)[l].comments
  <2>1. /\ F[1 .. 0] = X.comments
        /\ \A i \in 1 .. l : F[1 .. i] = OnEach(OfComments, F[1 .. (i - 1)], q[i])
    BY <1>6, <1>4
  <2>. DEFINE S == {i \in Nat : i <= l => F[1 .. i] = Steps(X, q)[i].comments}
  <2>2. 0 \in S
    BY <1>2, <2>1
  <2>3. ASSUME NEW i \in Nat, i \in S PROVE i + 1 \in S
    <3>1. CASE i + 1 <= l
      <4>1. i + 1 \in 1 .. l /\ (i + 1) - 1 = i /\ i <= l
        BY <1>1, <3>1
      <4>2. F[1 .. (i + 1)] = OnEach(OfComments, F[1 .. i], q[i + 1])
        BY <2>1, <4>1
      <4>3. Steps(X, q)[i + 1].comments = OnEach(OfComments, Steps(X, q)[i].comments, q[i + 1])
        BY <1>3, <4>1
      <4>4. F[1 .. i] = Steps(X, q)[i].comments
        BY <2>3, <4>1
      <4>5. QED
        BY <4>2, <4>3, <4>4
    <3>2. CASE ~ (i + 1 <= l)
      BY <3>2
    <3>3. QED
      BY <3>1, <3>2
  <2>. HIDE DEF S
  <2>4. Nat \subseteq S
    BY <2>2, <2>3, Counting
  <2>5. l \in S
    BY <1>1, <2>4
  <2>6. QED
    BY <1>1, <2>5 DEF S
<1>7. QED
  BY <1>5, <1>6 DEF l, After

\* ParsAfterAll is what the messages make of a replica's paragraphs.
LEMMA ParsFold ==
  ASSUME NEW M, NEW q \in Seq(M), \A i \in 1 .. Len(q) : q[i].type # "file", NEW r
  PROVE  ParsAfterAll(pars[r], q) = After(Held(r), q).pars
<1>. DEFINE F == CHOOSE F : IsFold(F, OfPars, pars[r], q, Len(q))
<1>1. Len(q) \in Nat /\ DOMAIN q = 1 .. Len(q)
  OBVIOUS
<1>2. IsFold(F, OfPars, pars[r], q, Len(q))
  BY <1>1, FoldExists
<1>3. ParsAfterAll(pars[r], q) = F[1 .. Len(q)]
  BY <1>1 DEF ParsAfterAll, FoldLeft, MapThenFoldSet, IsFold, OnEach, OfPars, OfComments
<1>. HIDE DEF F
<1>4. Held(r).pars = pars[r]
  BY DEF Held
<1>5. QED
  BY <1>1, <1>2, <1>3, <1>4, FoldIsAfter

\* CommentsAfterAll is what the messages make of a replica's comments.
LEMMA CommentsFold ==
  ASSUME NEW M, NEW q \in Seq(M), \A i \in 1 .. Len(q) : q[i].type # "file", NEW r
  PROVE  CommentsAfterAll(comments[r], q) = After(Held(r), q).comments
<1>. DEFINE F == CHOOSE F : IsFold(F, OfComments, comments[r], q, Len(q))
<1>1. Len(q) \in Nat /\ DOMAIN q = 1 .. Len(q)
  OBVIOUS
<1>2. IsFold(F, OfComments, comments[r], q, Len(q))
  BY <1>1, FoldExists
<1>3. CommentsAfterAll(comments[r], q) = F[1 .. Len(q)]
  BY <1>1 DEF CommentsAfterAll, FoldLeft, MapThenFoldSet, IsFold, OnEach, OfPars, OfComments
<1>. HIDE DEF F
<1>4. Held(r).comments = comments[r]
  BY DEF Held
<1>5. QED
  BY <1>1, <1>2, <1>3, <1>4, FoldIsAfter

\* No comment is lost, shown twice or in old words, and no paragraph is missing or
\* left over, in any open editor, whatever edits, comments, visits and ends of
\* clients cross on the way (updateSymbols, localInsert, localDelete, newComment,
\* updateComment, deleteComment and getFile of the server against the handlers of
\* the editor).
THEOREM EditorsDoFollow == Spec => []EditorsFollow
<1>1. IInv => EditorsFollow
  <2>1. SUFFICES ASSUME IInv, NEW u \in Users, window[u] = "open"
                 PROVE  /\ ParsAfterAll(pars[u], down[u]) = ParsAfterAll(pars[Server], up[u])
                        /\ CommentsAfterAll(comments[u], down[u])
                             = CommentsAfterAll(comments[Server], up[u])
    BY DEF EditorsFollow
  <2>2. /\ up[u] \in Seq(UpMsg) /\ down[u] \in Seq(DownMsg)
        /\ DOMAIN up[u] = 1 .. Len(up[u]) /\ DOMAIN down[u] = 1 .. Len(down[u])
    BY <2>1, Channels DEF IInv
  <2>3. Files(u) = {} /\ u \in inFile /\ ~ Ended(u) /\ Follows(u)
    BY <2>1 DEF IInv, FollowInv, Session, Ended
  <2>4. \A i \in 1 .. Len(down[u]) : down[u][i].type # "file"
    BY <2>2, <2>3 DEF Files
  <2>5. \A i \in 1 .. Len(up[u]) : up[u][i].type # "file"
    <3>1. \A i \in 1 .. Len(up[u]) : up[u][i] \in UpMsg
      BY <2>2
    <3>2. QED
      BY <3>1, UpFacts
  <2>6. After(Held(u), down[u]) = After(Held(Server), up[u])
    BY <2>3 DEF Follows
  <2>7. ParsAfterAll(pars[u], down[u]) = ParsAfterAll(pars[Server], up[u])
    BY <2>2, <2>4, <2>5, <2>6, ParsFold
  <2>8. CommentsAfterAll(comments[u], down[u]) = CommentsAfterAll(comments[Server], up[u])
    BY <2>2, <2>4, <2>5, <2>6, CommentsFold
  <2>9. QED
    BY <2>7, <2>8
<1>2. QED
  BY <1>1, Invariant, PTL

-----------------------------------------------------------------------------
\* The rank of an element is a place of the list, and grows with the element.
LEMMA RankFacts ==
  ASSUME NEW S \in SUBSET Nat, IsFiniteSet(S)
  PROVE  /\ Cardinality(S) \in Nat
         /\ \A x \in S : Rank(S, x) \in 1 .. Cardinality(S)
         /\ \A x, y \in S : x < y => Rank(S, x) < Rank(S, y)
<1>1. Cardinality(S) \in Nat
  BY FS_CardinalityType
<1>2. ASSUME NEW x \in S
      PROVE  /\ {y \in S : y <= x} \in SUBSET S /\ IsFiniteSet({y \in S : y <= x})
             /\ Rank(S, x) \in Nat /\ Rank(S, x) <= Cardinality(S) /\ Rank(S, x) # 0
  <2>. DEFINE T == {y \in S : y <= x}
  <2>1. T \in SUBSET S /\ x \in T
    OBVIOUS
  <2>. HIDE DEF T
  <2>2. IsFiniteSet(T) /\ Cardinality(T) <= Cardinality(S)
    BY <2>1, FS_Subset
  <2>3. Cardinality(T) \in Nat /\ Cardinality(T) # 0
    BY <2>1, <2>2, FS_CardinalityType, FS_EmptySet
  <2>4. Rank(S, x) = Cardinality(T)
    BY DEF Rank, T
  <2>5. QED
    BY <2>1, <2>2, <2>3, <2>4 DEF T
<1>3. ASSUME NEW x \in S, NEW y \in S, x < y PROVE Rank(S, x) < Rank(S, y)
  <2>. DEFINE T == {z \in S : z <= x}
              U == {z \in S : z <= y}
  <2>1. T \in SUBSET U /\ y \in U /\ y \notin T
    <3>1. \A z \in S : z \in Nat
      OBVIOUS
    <3>2. \A z \in S : z <= x => z <= y
      BY <1>3, <3>1
    <3>3. ~ (y <= x) /\ y <= y
      BY <1>3, <3>1
    <3>4. QED
      BY <3>1, <3>2, <3>3
  <2>2. IsFiniteSet(U) /\ IsFiniteSet(T)
    BY <1>2
  <2>3. Rank(S, x) = Cardinality(T) /\ Rank(S, y) = Cardinality(U)
    BY DEF Rank
  <2>4. Rank(S, x) \in Nat /\ Rank(S, y) \in Nat
    BY <1>2
  <2>. HIDE DEF T, U
  <2>5. Cardinality(T) <= Cardinality(U) /\ (Cardinality(U) = Cardinality(T) => U = T)
    BY <2>1, <2>2, FS_Subset
  <2>6. QED
    BY <2>1, <2>3, <2>4, <2>5
<1>4. ASSUME NEW x \in S PROVE Rank(S, x) \in 1 .. Cardinality(S)
  <2>1. Rank(S, x) \in Nat /\ Rank(S, x) <= Cardinality(S) /\ Rank(S, x) # 0
    BY <1>2, Zenon
  <2>2. QED
    BY <1>1, <2>1
<1>5. QED
  BY <1>1, <1>3, <1>4

\* Every place of the list has an element.
LEMMA RankReaches ==
  ASSUME NEW S \in SUBSET Nat, IsFiniteSet(S), NEW i \in 1 .. Cardinality(S)
  PROVE  \E x \in S : Rank(S, x) = i
<1>. DEFINE n == Cardinality(S)
            T == (1 .. n) \ {i}
            f == [x \in S |-> Rank(S, x)]
<1>1. n \in Nat /\ (\A x \in S : Rank(S, x) \in 1 .. n)
      /\ \A x, y \in S : x < y => Rank(S, x) < Rank(S, y)
  BY RankFacts
<1>. HIDE DEF n
<1>2. i \in 1 .. n /\ 1 \in Int /\ n \in Int
  BY <1>1 DEF n
<1>3. IsFiniteSet(1 .. n) /\ Cardinality(1 .. n) = n
  <2>1. IsFiniteSet(1 .. n) /\ Cardinality(1 .. n) = IF 1 > n THEN 0 ELSE n - 1 + 1
    BY <1>2, FS_Interval
  <2>2. QED
    BY <1>1, <1>2, <2>1
<1>4. IsFiniteSet(T) /\ Cardinality(T) = n - 1
  <2>. DEFINE N == 1 .. n
  <2>1. IsFiniteSet(N) /\ Cardinality(N) = n /\ i \in N
    BY <1>2, <1>3
  <2>. HIDE DEF N
  <2>2. IsFiniteSet(N \ {i}) /\ Cardinality(N \ {i}) = n - 1
    BY <2>1, FS_RemoveElement
  <2>3. QED
    BY <2>2 DEF N
<1>5. SUFFICES ASSUME \A x \in S : Rank(S, x) # i PROVE FALSE
  OBVIOUS
<1>6. f \in [S -> T]
  BY <1>1, <1>5
<1>7. Cardinality(T) < Cardinality(S)
  BY <1>1, <1>4 DEF n
<1>. HIDE DEF T
<1>8. \E x, y \in S : x # y /\ f[x] = f[y]
  <2>. HIDE DEF f
  <2>1. QED
    BY <1>4, <1>6, <1>7, FS_PigeonHole
<1>9. PICK x \in S, y \in S : x # y /\ Rank(S, x) = Rank(S, y)
  BY <1>8
<1>10. x \in Nat /\ y \in Nat /\ (x < y \/ y < x)
  BY <1>9
<1>11. Rank(S, x) \in Nat /\ Rank(S, y) \in Nat
  BY <1>1
<1>12. QED
  BY <1>1, <1>9, <1>10, <1>11

\* The list of a set has its elements, each at its rank, in their order.
LEMMA OrderFacts ==
  ASSUME NEW S \in SUBSET Nat, IsFiniteSet(S)
  PROVE  /\ Order(S) \in Seq(S) /\ Len(Order(S)) = Cardinality(S)
         /\ \A i \in 1 .. Cardinality(S) : Order(S)[i] \in S /\ Rank(S, Order(S)[i]) = i
         /\ \A x \in S : Order(S)[Rank(S, x)] = x
         /\ \A i, j \in 1 .. Cardinality(S) : i < j => Order(S)[i] < Order(S)[j]
<1>. DEFINE n == Cardinality(S)
<1>1. n \in Nat /\ (\A x \in S : Rank(S, x) \in 1 .. n)
      /\ \A x, y \in S : x < y => Rank(S, x) < Rank(S, y)
  BY RankFacts
<1>2. ASSUME NEW i \in 1 .. n PROVE Order(S)[i] \in S /\ Rank(S, Order(S)[i]) = i
  <2>1. \E x \in S : Rank(S, x) = i
    BY RankReaches
  <2>2. Order(S)[i] = CHOOSE x \in S : Rank(S, x) = i
    BY DEF Order
  <2>3. QED
    BY <2>1, <2>2
<1>3. ASSUME NEW x \in S, NEW y \in S, Rank(S, x) = Rank(S, y) PROVE x = y
  <2>1. x \in Nat /\ y \in Nat /\ Rank(S, x) \in Nat /\ Rank(S, y) \in Nat
    BY <1>1
  <2>2. QED
    BY <1>1, <1>3, <2>1
<1>4. ASSUME NEW x \in S PROVE Order(S)[Rank(S, x)] = x
  BY <1>1, <1>2, <1>3
<1>5. ASSUME NEW i \in 1 .. n, NEW j \in 1 .. n, i < j PROVE Order(S)[i] < Order(S)[j]
  <2>. DEFINE x == Order(S)[i]
              y == Order(S)[j]
  <2>1. x \in S /\ y \in S /\ Rank(S, x) = i /\ Rank(S, y) = j
    BY <1>2
  <2>. HIDE DEF x, y
  <2>2. x \in Nat /\ y \in Nat /\ i \in Nat /\ j \in Nat
    BY <1>1, <2>1
  <2>3. x # y
    BY <1>5, <2>1, <2>2
  <2>4. ~ (y < x)
    BY <1>1, <1>5, <2>1, <2>2
  <2>5. x < y
    BY <2>2, <2>3, <2>4
  <2>6. QED
    BY <2>5 DEF x, y
<1>6. Order(S) \in Seq(S) /\ Len(Order(S)) = n
  <2>1. Order(S) = [i \in 1 .. n |-> Order(S)[i]]
    BY DEF Order
  <2>2. QED
    BY <1>1, <1>2, <2>1
<1>7. QED
  BY <1>2, <1>4, <1>5, <1>6

-----------------------------------------------------------------------------
\* The greater of 0 and a number.
LEMMA NotBelowZero ==
  ASSUME NEW x \in Int
  PROVE  Max({0, x}) = IF x > 0 THEN x ELSE 0
<1>. DEFINE m == IF x > 0 THEN x ELSE 0
<1>1. m \in {0, x} /\ m >= 0 /\ m >= x
  OBVIOUS
<1>2. \A a \in {0, x} : (a >= 0 /\ a >= x) => a = m
  OBVIOUS
<1>. HIDE DEF m
<1>3. Max({0, x}) = CHOOSE a \in {0, x} : \A b \in {0, x} : a >= b
  BY DEF Max
<1>4. Max({0, x}) = m
  BY <1>1, <1>2, <1>3
<1>5. QED
  BY <1>4 DEF m

\* Min is the least number of a set that has one.
LEMMA LeastOf ==
  ASSUME NEW T \in SUBSET Nat, T # {}
  PROVE  Min(T) \in T /\ \A x \in T : Min(T) <= x
<1>1. \E m \in T : \A x \in T : m <= x
  BY LeastNumber
<1>2. Min(T) = CHOOSE m \in T : \A x \in T : m <= x
  BY DEF Min
<1>3. QED
  BY <1>1, <1>2

\* A segment of n places has n elements or fewer.
LEMMA SegmentSize ==
  ASSUME NEW S \in SUBSET Nat, IsFiniteSet(S), NEW i \in Nat, NEW n \in Nat
  PROVE  /\ Segment(S, i, n) \in SUBSET S
         /\ Cardinality(Segment(S, i, n)) \in Nat /\ Cardinality(Segment(S, i, n)) <= n
<1>. DEFINE G == Segment(S, i, n)
            T == (i + 1) .. (i + n)
            f == [x \in G |-> Rank(S, x)]
<1>1. G \in SUBSET S /\ \A x \in G : Rank(S, x) \in T
  BY DEF Segment
<1>2. f \in [G -> T]
  BY <1>1
<1>3. IsFiniteSet(T) /\ Cardinality(T) = n
  <2>1. i + 1 \in Int /\ i + n \in Int
    OBVIOUS
  <2>2. IsFiniteSet(T) /\ Cardinality(T) = IF i + 1 > i + n THEN 0 ELSE (i + n) - (i + 1) + 1
    BY <2>1, FS_Interval
  <2>3. QED
    BY <2>2
<1>. HIDE DEF G, T
<1>4. IsFiniteSet(G) /\ Cardinality(G) \in Nat
  BY <1>1, FS_Subset, FS_CardinalityType
<1>5. ASSUME NEW x \in G, NEW y \in G, x # y PROVE f[x] # f[y]
  <2>1. x \in S /\ y \in S /\ x \in Nat /\ y \in Nat /\ f[x] = Rank(S, x) /\ f[y] = Rank(S, y)
    BY <1>1
  <2>2. Rank(S, x) \in Nat /\ Rank(S, y) \in Nat /\ (x < y \/ y < x)
    BY <1>5, <2>1, RankFacts
  <2>3. (x < y => Rank(S, x) < Rank(S, y)) /\ (y < x => Rank(S, y) < Rank(S, x))
    BY <2>1, RankFacts
  <2>4. QED
    BY <2>1, <2>2, <2>3
<1>. HIDE DEF f
<1>6. ~ (Cardinality(T) < Cardinality(G))
  BY <1>2, <1>3, <1>4, <1>5, FS_PigeonHole
<1>7. QED
  BY <1>1, <1>3, <1>4, <1>6 DEF G

\* What an edit asks of the paragraphs P when the editor's count of the lines is
\* that of the text T.
Asks(T, P, gone, new, t, line, removed, added, kept) ==
  /\ t = (T \ gone) \cup new
  /\ line = LineOf(t, Min(gone \cup new))
  /\ removed = IF gone = {} THEN 0 ELSE Max({0, Lines(T) - Lines(t)})
  /\ added = IF new = {} THEN 0 ELSE Max({0, Lines(t) - (Lines(T) - removed)})
  /\ kept = P \ Segment(P, line + 1, removed)

\* While the editor's count of the lines and the number of its paragraphs are
\* those of its text, the paragraphs an edit asks for are there.
LEMMA EditCounts ==
  ASSUME NEW T \in SUBSET Symbols, NEW P \in SUBSET Paragraphs, NEW gone \in SUBSET T,
         NEW new \in SUBSET Symbols, gone \cup new # {}, Cardinality(P) = Lines(T),
         NEW t, NEW line, NEW removed, NEW added, NEW kept,
         Asks(T, P, gone, new, t, line, removed, added, kept)
  PROVE  /\ removed = 0 \/ line + 1 + removed <= Cardinality(P)
         /\ added = 0 \/ line + 1 <= Cardinality(kept)
         /\ new = {} \/ line <= Cardinality(kept) + added
<1>. DEFINE k == Min(gone \cup new)
            before == {b \in t \cap Breaks : b < k}
            a == Cardinality(T \cap Breaks)
            b == Cardinality(t \cap Breaks)
<1>1. /\ IsFiniteSet(T \cap Breaks) /\ IsFiniteSet(t \cap Breaks) /\ IsFiniteSet(P)
      /\ P \in SUBSET Nat /\ t \in SUBSET Symbols /\ T \in SUBSET Nat
  <2>1. T \cap Breaks \in SUBSET Symbols /\ t \cap Breaks \in SUBSET Symbols /\ t \in SUBSET Symbols
    BY TextAssumption DEF Asks
  <2>2. QED
    BY <2>1, TextAssumption, FS_Subset
<1>2. a \in Nat /\ b \in Nat
  BY <1>1, FS_CardinalityType
<1>3. before \in SUBSET (t \cap Breaks) /\ before \in SUBSET (T \cap Breaks)
  <2>1. gone \cup new \in SUBSET Nat
    BY TextAssumption
  <2>2. k \in Nat /\ \A x \in gone \cup new : k <= x
    BY <2>1, LeastOf
  <2>3. t = (T \ gone) \cup new
    BY DEF Asks
  <2>. HIDE DEF k
  <2>4. ASSUME NEW x \in before PROVE x \in T \cap Breaks
    <3>1. x \in Nat /\ x < k /\ x \in t /\ x \in Breaks
      BY <1>1, TextAssumption
    <3>2. x \notin new
      BY <2>2, <3>1
    <3>3. QED
      BY <2>3, <3>1, <3>2
  <2>5. QED
    BY <2>4
<1>4. line = Cardinality(before) /\ Lines(T) = 1 + a /\ Lines(t) = 1 + b
  BY DEF LineOf, Lines, Asks
<1>. HIDE DEF before, a, b
<1>5. line \in Nat /\ line <= a /\ line <= b
  <2>1. IsFiniteSet(before)
    BY <1>1, <1>3, FS_Subset
  <2>2. Cardinality(before) \in Nat
    BY <2>1, FS_CardinalityType
  <2>3. Cardinality(before) <= a /\ Cardinality(before) <= b
    BY <1>1, <1>3, FS_Subset DEF a, b
  <2>4. QED
    BY <1>4, <2>2, <2>3
<1>6. removed \in Nat /\ (removed = 0 \/ removed = a - b)
  <2>1. Lines(T) - Lines(t) = a - b /\ a - b \in Int
    BY <1>2, <1>4
  <2>2. Max({0, a - b}) = IF a - b > 0 THEN a - b ELSE 0
    BY <2>1, NotBelowZero
  <2>3. removed = 0 \/ removed = Max({0, a - b})
    BY <2>1 DEF Asks
  <2>4. QED
    BY <1>2, <2>2, <2>3
<1>7. added \in Nat /\ (removed # 0 => added = 0)
  <2>1. Lines(t) - (Lines(T) - removed) = b - a + removed /\ b - a + removed \in Int
    BY <1>2, <1>4, <1>6
  <2>2. Max({0, b - a + removed}) = IF b - a + removed > 0 THEN b - a + removed ELSE 0
    BY <2>1, NotBelowZero
  <2>3. added = 0 \/ added = Max({0, b - a + removed})
    BY <2>1 DEF Asks
  <2>4. QED
    BY <1>2, <1>6, <2>2, <2>3
<1>8. Cardinality(kept) \in Nat /\ Cardinality(kept) >= 1 + a - removed
  <2>. DEFINE L == Segment(P, line + 1, removed)
  <2>1. line + 1 \in Nat
    BY <1>5
  <2>2. L \in SUBSET P /\ Cardinality(L) \in Nat /\ Cardinality(L) <= removed
    BY <1>1, <1>6, <2>1, SegmentSize
  <2>3. kept = P \ L
    BY DEF Asks
  <2>. HIDE DEF L
  <2>. DEFINE n == Cardinality(L)
  <2>4. P \cap L = L
    BY <2>2
  <2>5. IsFiniteSet(P \ L) /\ Cardinality(P \ L) = Cardinality(P) - n
    <3>1. IsFiniteSet(P \ L) /\ Cardinality(P \ L) = Cardinality(P) - Cardinality(P \cap L)
      BY <1>1, FS_Difference
    <3>2. Cardinality(P \cap L) = n
      BY <2>4
    <3>. HIDE DEF n
    <3>3. QED
      BY <3>1, <3>2, Zenon
  <2>6. Cardinality(P \ L) \in Nat /\ n \in Nat /\ n <= removed /\ Cardinality(P) = 1 + a
    BY <1>4, <2>2, <2>5, FS_CardinalityType
  <2>. DEFINE p == Cardinality(P)
              c == Cardinality(P \ L)
  <2>7. c = p - n /\ c \in Nat /\ n \in Nat /\ n <= removed /\ p = 1 + a
    BY <2>5, <2>6
  <2>8. kept = P \ L
    BY <2>3
  <2>. HIDE DEF n, p, c
  <2>9. c \in Nat /\ c >= 1 + a - removed
    BY <1>2, <1>6, <2>7
  <2>10. QED
    BY <2>8, <2>9 DEF c
<1>9. Cardinality(P) = 1 + a
  BY <1>4
<1>10. QED
  BY <1>2, <1>5, <1>6, <1>7, <1>8, <1>9

\* An edit ends the client only when a count is wrong.
LEMMA EditHolds ==
  ASSUME IInv, NEW u \in Users, NEW gone \in SUBSET text[u], NEW new \in SUBSET Symbols,
         Edit(u, gone, new)
  PROVE  hurt \subseteq hurt' /\ (window' = window \/ u \in hurt')
<1>. DEFINE t == (text[u] \ gone) \cup new
            line == LineOf(t, Min(gone \cup new))
            removed == IF gone = {} THEN 0 ELSE Max({0, nblocks[u] - Lines(t)})
            added == IF new = {} THEN 0 ELSE Max({0, Lines(t) - (nblocks[u] - removed)})
            kept == pars[u] \ Segment(pars[u], line + 1, removed)
            deletes == removed = 0 \/ line + 1 + removed <= Cardinality(pars[u])
            inserts == /\ added = 0 \/ line + 1 <= Cardinality(kept)
                       /\ new = {} \/ line <= Cardinality(kept) + added
<1>1. /\ EditFits(u, gone, new)
      /\ hurt' = IF nblocks[u] # Lines(text[u]) \/ Cardinality(pars[u]) # Lines(text[u])
                 THEN hurt \cup {u} ELSE hurt
      /\ window' = window \/ ~ (deletes /\ inserts)
  BY DEF Edit
<1>2. CASE nblocks[u] # Lines(text[u]) \/ Cardinality(pars[u]) # Lines(text[u])
  BY <1>1, <1>2
<1>3. CASE nblocks[u] = Lines(text[u]) /\ Cardinality(pars[u]) = Lines(text[u])
  <2>1. Asks(text[u], pars[u], gone, new, t, line, removed, added, kept)
    BY <1>3 DEF Asks
  <2>2. text[u] \in SUBSET Symbols /\ pars[u] \in SUBSET Paragraphs /\ gone \cup new # {}
    BY <1>1, Channels DEF IInv, TypeInv, EditFits
  <2>. HIDE DEF t, line, removed, added, kept
  <2>3. deletes /\ inserts
    BY <1>3, <2>1, <2>2, EditCounts
  <2>4. QED
    BY <1>1, <1>3, <2>3
<1>4. QED
  BY <1>2, <1>3

-----------------------------------------------------------------------------
\* The walk of TextEditor::remoteUpdate over the symbols of an update.
WalkOf(text0, takes, fmt) == [kind |-> "walk", text |-> text0, takes |-> takes, fmt |-> fmt]
Start(w) == [it |-> 1, pos |-> 0, widget |-> w, past |-> FALSE]

\* What holds when the symbols C have been walked: the iterator is not past the
\* next symbol of the text, and the position goes with it unless one was refused.
Along(at, C, t, takes, fmt, w) ==
  /\ at \in [it : 1 .. (Cardinality(t) + 1), pos : Int, widget : [Symbols -> Formats],
             past : BOOLEAN]
  /\ \A x \in t : (\A s \in C : s < x) => at.it <= Rank(t, x)
  /\ C \subseteq t => ~ at.past
  /\ C \cap t \subseteq takes => at.pos = at.it - 1
  /\ (\A x \in C \cap takes : \A s \in C \cap t : s < x => s \in takes) =>
        \A s \in Symbols : at.widget[s] = IF s \in C \cap takes THEN fmt ELSE w[s]

\* A step of the walk, to a symbol after those that have been walked.
LEMMA WalkStepKeeps ==
  ASSUME NEW t \in SUBSET Symbols, NEW takes \in SUBSET t, NEW fmt \in Formats,
         NEW w \in [Symbols -> Formats], NEW C \in SUBSET Symbols,
         NEW s \in Symbols, \A x \in C : x < s, NEW at, Along(at, C, t, takes, fmt, w)
  PROVE  Along(WalkStep(t, takes, fmt, at, s), C \cup {s}, t, takes, fmt, w)
<1>. DEFINE n == Cardinality(t)
            D == C \cup {s}
            r == Rank(t, s)
            to == WalkStep(t, takes, fmt, at, s)
<1>1. /\ n \in Nat
      /\ \A x \in t : Rank(t, x) \in 1 .. n
      /\ \A x, y \in t : x < y => Rank(t, x) < Rank(t, y)
      /\ \A x \in t : Order(t)[Rank(t, x)] = x
  <2>1. t \in SUBSET Nat /\ IsFiniteSet(t)
    BY TextAssumption, FS_Subset
  <2>2. QED
    BY <2>1, RankFacts, OrderFacts
<1>2. /\ at \in [it : 1 .. (n + 1), pos : Int, widget : [Symbols -> Formats], past : BOOLEAN]
      /\ \A x \in t : (\A y \in C : y < x) => at.it <= Rank(t, x)
      /\ C \subseteq t => ~ at.past
      /\ C \cap t \subseteq takes => at.pos = at.it - 1
      /\ (\A x \in C \cap takes : \A y \in C \cap t : y < x => y \in takes) =>
            \A y \in Symbols : at.widget[y] = IF y \in C \cap takes THEN fmt ELSE w[y]
  BY DEF Along
<1>3. s \in Nat /\ C \subseteq Nat /\ s \notin C
  <2>1. Symbols \subseteq Nat
    BY TextAssumption
  <2>2. s \in Nat /\ ~ (s < s)
    BY <2>1
  <2>3. QED
    BY <2>1, <2>2
<1>. HIDE DEF n, r
<1>4. s \in t => at.it <= r /\ r \in 1 .. n
  BY <1>1, <1>2 DEF r
<1>5. ASSUME NEW x \in t, \A y \in D : y < x
      PROVE  at.it <= Rank(t, x) /\ (s \in t => r < Rank(t, x))
  BY <1>1, <1>2, <1>5 DEF r
<1>6. (C \cap takes # D \cap takes => s \in takes) /\ C \subseteq D
  OBVIOUS
<1>7. (\A x \in D \cap takes : \A y \in D \cap t : y < x => y \in takes) =>
         /\ \A x \in C \cap takes : \A y \in C \cap t : y < x => y \in takes
         /\ s \in takes => C \cap t \subseteq takes
  BY <1>3
<1>8. CASE at.it > n
  <2>1. to = [at EXCEPT !.past = TRUE]
    BY <1>8 DEF WalkStep, n
  <2>2. s \notin t
    BY <1>1, <1>2, <1>4, <1>8
  <2>3. D \cap takes = C \cap takes /\ D \cap t = C \cap t /\ ~ (D \subseteq t)
    BY <2>2
  <2>4. QED
    BY <1>2, <1>5, <2>1, <2>3 DEF Along, n
<1>9. CASE at.it <= n /\ s \notin t
  <2>1. ~ (at.it > n)
    BY <1>1, <1>2, <1>9
  <2>2. to = at
    BY <1>9, <2>1 DEF WalkStep, n
  <2>3. D \cap takes = C \cap takes /\ D \cap t = C \cap t /\ ~ (D \subseteq t)
    BY <1>9
  <2>4. QED
    BY <1>2, <1>5, <2>2, <2>3 DEF Along, n
<1>10. CASE at.it <= n /\ s \in t /\ s \notin takes
  <2>1. to = [at EXCEPT !.it = r]
    BY <1>1, <1>2, <1>4, <1>10 DEF WalkStep, n, r
  <2>2. D \cap takes = C \cap takes /\ ~ (D \cap t \subseteq takes)
    BY <1>10
  <2>3. r \in 1 .. (n + 1)
    BY <1>1, <1>4, <1>10
  <2>4. \A x \in t : (\A y \in D : y < x) => r <= Rank(t, x)
    BY <1>1, <1>4, <1>5, <1>10
  <2>5. QED
    BY <1>2, <1>7, <2>1, <2>2, <2>3, <2>4 DEF Along, n
<1>11. CASE at.it <= n /\ s \in takes
  <2>. DEFINE newpos == at.pos + (r - at.it)
              v == [at.widget EXCEPT ![Order(t)[newpos + 1]] = fmt]
  <2>1. to = [at EXCEPT !.it = r + 1, !.pos = newpos + 1, !.widget = v]
    BY <1>1, <1>2, <1>4, <1>11 DEF WalkStep, n, r
  <2>2. r + 1 \in 1 .. (n + 1) /\ newpos + 1 \in Int /\ v \in [Symbols -> Formats]
    <3>1. s \in t /\ r \in 1 .. n /\ at.it \in Int /\ at.pos \in Int
      BY <1>2, <1>4, <1>11
    <3>2. at.widget \in [Symbols -> Formats]
      BY <1>2
    <3>3. v \in [Symbols -> Formats]
      <4>. HIDE DEF newpos
      <4>1. QED
        BY <3>2
    <3>4. r + 1 \in 1 .. (n + 1) /\ newpos + 1 \in Int
      BY <1>1, <3>1
    <3>5. QED
      BY <3>3, <3>4
  <2>3. \A x \in t : (\A y \in D : y < x) => r + 1 <= Rank(t, x)
    BY <1>1, <1>4, <1>5, <1>11 DEF r
  <2>4. D \cap t \subseteq takes => newpos + 1 = (r + 1) - 1
    BY <1>1, <1>2, <1>4, <1>11
  <2>5. ASSUME \A x \in D \cap takes : \A y \in D \cap t : y < x => y \in takes,
               NEW y \in Symbols
        PROVE  v[y] = IF y \in D \cap takes THEN fmt ELSE w[y]
    <3>1. at.widget[y] = IF y \in C \cap takes THEN fmt ELSE w[y]
      BY <1>2, <1>7, <2>5
    <3>2. newpos + 1 = r
      BY <1>1, <1>2, <1>4, <1>7, <1>11, <2>5
    <3>3. Order(t)[newpos + 1] = s
      BY <1>1, <1>11, <3>2 DEF r
    <3>4. QED
      BY <1>2, <1>11, <3>1, <3>3
  <2>. HIDE DEF newpos, v
  <2>6. to.it = r + 1 /\ to.pos = newpos + 1 /\ to.widget = v /\ to.past = at.past
        /\ to \in [it : 1 .. (n + 1), pos : Int, widget : [Symbols -> Formats], past : BOOLEAN]
    BY <1>2, <2>1, <2>2
  <2>7. D \subseteq t => ~ to.past
    BY <1>2, <1>6, <2>6 DEF Along
  <2>8. QED
    BY <2>3, <2>4, <2>5, <2>6, <2>7 DEF Along, n
<1>12. QED
  BY <1>1, <1>2, <1>8, <1>9, <1>10, <1>11

\* The walk is a fold.
LEMMA WalkFold ==
  ASSUME NEW t \in SUBSET Symbols, NEW k, NEW w, NEW m, NEW user,
         m.syms \in SUBSET Symbols
  PROVE  \E F : /\ IsFold(F, WalkOf(t, Takes(t, k, m, user), m.fmt), Start(w), Order(m.syms),
                          Cardinality(m.syms))
                /\ Walk(t, k, w, m, user) = F[1 .. Cardinality(m.syms)]
<1>. DEFINE takes == Takes(t, k, m, user)
            how == WalkOf(t, takes, m.fmt)
            q == Order(m.syms)
            n == Len(q)
            Is(G) == G = [s \in SUBSET (1 .. n) |->
                            IF s = {} THEN Start(w)
                            ELSE WalkStep(t, takes, m.fmt, G[s \ {Max(s)}], q[Max(s)])]
            F == CHOOSE G : Is(G)
<1>1. n \in Nat /\ DOMAIN q = 1 .. n /\ n = Cardinality(m.syms)
  <2>1. m.syms \in SUBSET Nat /\ IsFiniteSet(m.syms)
    BY TextAssumption, FS_Subset
  <2>2. QED
    BY <2>1, OrderFacts
<1>2. Walk(t, k, w, m, user) = F[1 .. n]
  BY <1>1 DEF Walk, FoldLeft, MapThenFoldSet, Start
<1>3. \A G : IsFold(G, how, Start(w), q, n) <=> Is(G)
  <2>1. \A Y, s : OnEach(how, Y, s) = WalkStep(t, takes, m.fmt, Y, s)
    BY DEF OnEach, WalkOf
  <2>. HIDE DEF how, q, n, takes
  <2>2. QED
    BY <2>1 DEF IsFold
<1>4. \E G : IsFold(G, how, Start(w), q, n)
  <2>. HIDE DEF how, q, n, takes
  <2>1. QED
    BY <1>1, FoldExists
<1>5. IsFold(F, how, Start(w), q, n)
  <2>. HIDE DEF Is, how, q, n, takes
  <2>1. QED
    BY <1>3, <1>4
<1>6. QED
  BY <1>1, <1>2, <1>5

\* What a walk does: it ends within the list if all its symbols are in the text,
\* and it shows what the File took, if none was refused before one that was taken.
WalkShows(at, t, k, w, m, user) ==
  /\ at.widget \in [Symbols -> Formats]
  /\ m.syms \subseteq t => ~ at.past
  /\ ~ RefusedInPart(t, k, m, user) =>
        \A s \in Symbols : at.widget[s] = IF s \in Takes(t, k, m, user) THEN m.fmt ELSE w[s]

\* The walk is such.
LEMMA WalkFacts ==
  ASSUME NEW t \in SUBSET Symbols, NEW k \in Marks, NEW w \in [Symbols -> Formats], NEW m,
         m.syms \in SUBSET Symbols, m.fmt \in Formats, NEW user
  PROVE  WalkShows(Walk(t, k, w, m, user), t, k, w, m, user)
<1>. DEFINE takes == Takes(t, k, m, user)
            fmt == m.fmt
            S == m.syms
            n == Cardinality(S)
            q == Order(S)
            C(i) == {q[j] : j \in 1 .. i}
<1>1. takes \in SUBSET t /\ takes \subseteq S /\ fmt \in Formats /\ S \in SUBSET Symbols
  BY DEF Takes
<1>2. /\ n \in Nat /\ \A i \in 1 .. n : q[i] \in S
      /\ \A x \in S : \E i \in 1 .. n : q[i] = x
      /\ \A i, j \in 1 .. n : i < j => q[i] < q[j]
  <2>1. S \in SUBSET Nat /\ IsFiniteSet(S)
    BY TextAssumption, FS_Subset
  <2>. HIDE DEF S
  <2>2. QED
    BY <2>1, RankFacts, OrderFacts
<1>3. PICK F : /\ IsFold(F, WalkOf(t, takes, fmt), Start(w), q, n)
               /\ Walk(t, k, w, m, user) = F[1 .. n]
  BY WalkFold
<1>4. /\ F[1 .. 0] = Start(w)
      /\ \A i \in 1 .. n : F[1 .. i] = WalkStep(t, takes, fmt, F[1 .. (i - 1)], q[i])
  <2>. HIDE DEF takes, fmt, n, q
  <2>1. /\ F[1 .. 0] = Start(w)
        /\ \A i \in 1 .. n : F[1 .. i] = OnEach(WalkOf(t, takes, fmt), F[1 .. (i - 1)], q[i])
    BY <1>2, <1>3, FoldSteps
  <2>2. \A Y, s : OnEach(WalkOf(t, takes, fmt), Y, s) = WalkStep(t, takes, fmt, Y, s)
    BY DEF OnEach, WalkOf
  <2>3. QED
    BY <2>1, <2>2
<1>. HIDE DEF takes, fmt, n, q, S
<1>. DEFINE R == {i \in Nat : i <= n => Along(F[1 .. i], C(i), t, takes, fmt, w)}
<1>5. 0 \in R
  <2>1. C(0) = {}
    OBVIOUS
  <2>2. Cardinality(t) \in Nat /\ \A x \in t : Rank(t, x) \in 1 .. Cardinality(t)
    <3>1. t \in SUBSET Nat /\ IsFiniteSet(t)
      BY TextAssumption, FS_Subset
    <3>2. QED
      BY <3>1, RankFacts
  <2>3. Along(Start(w), {}, t, takes, fmt, w)
    <3>1. Start(w) \in [it : 1 .. (Cardinality(t) + 1), pos : Int, widget : [Symbols -> Formats],
                        past : BOOLEAN]
      BY <2>2 DEF Start
    <3>2. Start(w).it = 1 /\ Start(w).pos = 0 /\ Start(w).widget = w /\ Start(w).past = FALSE
      BY DEF Start
    <3>3. QED
      BY <2>2, <3>1, <3>2 DEF Along
  <2>4. QED
    BY <1>4, <2>1, <2>3
<1>6. ASSUME NEW i \in Nat, i \in R PROVE i + 1 \in R
  <2>1. SUFFICES ASSUME i + 1 <= n PROVE Along(F[1 .. (i + 1)], C(i + 1), t, takes, fmt, w)
    OBVIOUS
  <2>2. i + 1 \in 1 .. n /\ i <= n /\ (i + 1) - 1 = i /\ i \in Nat
    BY <1>2, <2>1
  <2>3. Along(F[1 .. i], C(i), t, takes, fmt, w)
    BY <1>6, <2>2
  <2>4. F[1 .. (i + 1)] = WalkStep(t, takes, fmt, F[1 .. i], q[i + 1])
    BY <1>4, <2>2
  <2>5. C(i + 1) = C(i) \cup {q[i + 1]}
    <3>1. 1 .. (i + 1) = (1 .. i) \cup {i + 1}
      BY <2>2
    <3>2. QED
      BY <3>1
  <2>6. C(i) \in SUBSET Symbols /\ q[i + 1] \in Symbols /\ \A x \in C(i) : x < q[i + 1]
    <3>1. \A j \in 1 .. i : j \in 1 .. n /\ j < i + 1
      BY <1>2, <2>2
    <3>2. QED
      BY <1>1, <1>2, <2>2, <3>1
  <2>. HIDE DEF C
  <2>7. QED
    BY <1>1, <2>3, <2>4, <2>5, <2>6, WalkStepKeeps
<1>7. Along(F[1 .. n], C(n), t, takes, fmt, w)
  <2>. HIDE DEF R, C
  <2>1. Nat \subseteq R
    BY <1>5, <1>6, Counting
  <2>2. n \in R
    BY <1>2, <2>1
  <2>3. QED
    BY <1>2, <2>2 DEF R
<1>8. C(n) = S
  BY <1>2
<1>. HIDE DEF C
<1>9. Along(Walk(t, k, w, m, user), S, t, takes, fmt, w)
  BY <1>3, <1>7, <1>8
<1>10. ~ RefusedInPart(t, k, m, user) =>
          \A x \in S \cap takes : \A s \in S \cap t : s < x => s \in takes
  BY DEF RefusedInPart, S, takes
<1>11. S \cap takes = takes
  BY <1>1
<1>12. QED
  BY <1>9, <1>10, <1>11 DEF Along, S, takes, fmt, WalkShows

-----------------------------------------------------------------------------
\* Why clients end. Whoever is not in the File's user map, or will leave it, has
\* left or has ended over what it is not made for, and does not come back.
Wants(v) == \E i \in DOMAIN up[v] : up[v][i].type = "get"
Parts(v) == \E i \in DOMAIN up[v] : up[v][i].type = "remove"
Gone(v) == window[v] = "left" \/ (Ended(v) /\ v \in hurt)
Departed(v) == (v \notin known \/ Parts(v)) => (Gone(v) /\ ~ Wants(v))

\* An editor's list, and the one on the way to it, has its own user, and of the
\* others all that are in the File's map.
Listing(u, L) == u \in L /\ \A v \in Users \ L : v \notin known
Members(u) ==
  /\ Listing(u, listed[u])
  /\ \A i \in DOMAIN down[u] : down[u][i].type = "file" => Listing(u, down[u][i].known)

Blamed(u) ==
  /\ window[u] \in {"endedByFile", "endedByHighlight"} => \E v \in Users \ {u} : v \notin known
  /\ window[u] \in {"endedByEdit", "endedByUpdate"} => u \in hurt
  /\ window[u] # "endedByComment"

Shown(u) ==
  u \notin drifted /\ window[u] = "open" => \A s \in Symbols : widget[u][s] = mark[u][s].fmt

CauseInv ==
  /\ widget \in [Users -> [Symbols -> Formats]]
  /\ \A u \in Users : Departed(u) /\ Members(u) /\ Blamed(u) /\ Shown(u)

\* A step that brings a user neither requests nor files.
BringsNone(v) ==
  /\ \A i \in DOMAIN up'[v] : up'[v][i].type \in {"get", "remove"} =>
        \E k \in DOMAIN up[v] : up'[v][i] = up[v][k]
  /\ \A i \in DOMAIN down'[v] : down'[v][i].type = "file" =>
        \E k \in DOMAIN down[v] : down'[v][i] = down[v][k]
Calm(v) ==
  /\ BringsNone(v) /\ listed'[v] = listed[v] /\ (Gone(v) => Gone(v)')
  /\ window'[v] = window[v] \/ (window'[v] # "open" /\ Blamed(v)')

\* Such a step leaves the user where it was.
LEMMA CalmUser ==
  ASSUME NEW v \in Users, Calm(v), known' = known, hurt \subseteq hurt',
         Departed(v), Members(v), Blamed(v)
  PROVE  Departed(v)' /\ Members(v)' /\ Blamed(v)'
<1>1. (Wants(v)' => Wants(v)) /\ (Parts(v)' => Parts(v))
  BY DEF Calm, BringsNone, Wants, Parts
<1>2. Departed(v)'
  BY <1>1 DEF Calm, Departed
<1>3. Members(v)'
  BY DEF Calm, BringsNone, Members, Listing
<1>4. Blamed(v)'
  BY DEF Calm, Blamed
<1>5. QED
  BY <1>2, <1>3, <1>4

\* A step that changes neither what the File has of the formats nor what the
\* widgets show.
LEMMA CalmStep ==
  ASSUME CauseInv, known' = known, hurt \subseteq hurt', drifted \subseteq drifted',
         widget' = widget, \A v \in Users : Calm(v) /\ mark'[v] = mark[v]
  PROVE  CauseInv'
<1>1. ASSUME NEW v \in Users PROVE Departed(v)' /\ Members(v)' /\ Blamed(v)'
  BY CalmUser DEF CauseInv
<1>2. ASSUME NEW v \in Users PROVE Shown(v)'
  <2>1. window'[v] = "open" => window[v] = "open"
    BY DEF Calm
  <2>2. Shown(v)
    BY DEF CauseInv
  <2>3. QED
    BY <2>1, <2>2 DEF Shown
<1>3. QED
  BY <1>1, <1>2 DEF CauseInv

\* Where the messages of a user's channels come from: they were there, or are of N.
UpFrom(v, N) ==
  \A i \in DOMAIN up'[v] : up'[v][i] \in N \/ \E k \in DOMAIN up[v] : up'[v][i] = up[v][k]
DownFrom(v, N) ==
  \A i \in DOMAIN down'[v] : down'[v][i] \in N \/ \E k \in DOMAIN down[v] : down'[v][i] = down[v][k]

\* Channels that stay.
LEMMA SameFlows ==
  ASSUME NEW v, NEW N
  PROVE  (up'[v] = up[v] => UpFrom(v, N)) /\ (down'[v] = down[v] => DownFrom(v, N))
  BY DEF UpFrom, DownFrom

\* What comes brings neither requests nor files.
LEMMA FlowBrings ==
  ASSUME NEW v, NEW N, NEW D, UpFrom(v, N), DownFrom(v, D),
         \A m \in N : m.type \notin {"get", "remove"}, \A m \in D : m.type # "file"
  PROVE  BringsNone(v)
  BY DEF UpFrom, DownFrom, BringsNone

\* What is sent up.
LEMMA SendFlows ==
  ASSUME TypeInv, NEW u \in Users, NEW msgs \in Seq(UpMsg), SendUp(u, msgs),
         NEW N, \A k \in 1 .. Len(msgs) : msgs[k] \in N, NEW v \in Users
  PROVE  UpFrom(v, N)
<1>1. up[u] \in Seq(UpMsg) /\ up \in [Users -> Seq(UpMsg)]
  BY DEF TypeInv
<1>2. CASE v # u
  <2>1. up'[v] = up[v]
    BY <1>1, <1>2 DEF SendUp
  <2>2. QED
    BY <2>1, SameFlows
<1>3. CASE v = u
  <2>1. up'[u] = up[u] \o msgs
    BY <1>1 DEF SendUp
  <2>2. IsConcat(up'[u], up[u], msgs) /\ up'[u] \in Seq(UpMsg)
        /\ Len(up[u]) \in Nat /\ Len(msgs) \in Nat
    BY <1>1, <2>1, ConcatFacts
  <2>3. DOMAIN up'[u] = 1 .. (Len(up[u]) + Len(msgs)) /\ DOMAIN up[u] = 1 .. Len(up[u])
    BY <1>1, <2>2 DEF IsConcat
  <2>4. ASSUME NEW i \in DOMAIN up'[u]
        PROVE  up'[u][i] \in N \/ (i \in DOMAIN up[u] /\ up'[u][i] = up[u][i])
    <3>1. CASE i <= Len(up[u])
      BY <2>2, <2>3, <3>1 DEF IsConcat
    <3>2. CASE i > Len(up[u])
      <4>. DEFINE k == i - Len(up[u])
      <4>1. k \in 1 .. Len(msgs) /\ i = Len(up[u]) + k
        BY <2>2, <2>3, <3>2
      <4>2. up'[u][i] = msgs[k]
        BY <2>2, <4>1 DEF IsConcat
      <4>3. QED
        BY <4>1, <4>2
    <3>3. QED
      BY <2>2, <2>3, <3>1, <3>2
  <2>5. QED
    BY <1>3, <2>4 DEF UpFrom
<1>4. QED
  BY <1>2, <1>3

\* What is sent up is no request.
LEMMA SendBrings ==
  ASSUME TypeInv, NEW u \in Users, NEW msgs \in Seq(UpMsg), SendUp(u, msgs), down' = down,
         \A k \in 1 .. Len(msgs) : msgs[k].type \notin {"get", "remove"}, NEW v \in Users
  PROVE  BringsNone(v)
<1>1. PICK N : N = {msgs[k] : k \in 1 .. Len(msgs)}
  OBVIOUS
<1>2. UpFrom(v, N)
  BY <1>1, SendFlows
<1>3. DownFrom(v, {})
  BY SameFlows
<1>4. QED
  BY <1>1, <1>2, <1>3, FlowBrings

\* A message that is taken off a channel.
LEMMA TailWithin ==
  ASSUME NEW M, NEW q \in Seq(M), q # << >>
  PROVE  \A i \in DOMAIN Tail(q) : \E k \in DOMAIN q : Tail(q)[i] = q[k]
<1>1. \A i \in 1 .. Len(Tail(q)) : i + 1 \in DOMAIN q /\ Tail(q)[i] = q[i + 1]
  BY TailFacts DEF IsTail
<1>2. DOMAIN Tail(q) = 1 .. Len(Tail(q))
  BY TailFacts
<1>3. QED
  BY <1>1, <1>2

\* What a client that ends has sent.
LEMMA EndsFlows ==
  ASSUME TypeInv, NEW u \in Users, NEW how, NEW msgs \in Seq(UpMsg), NEW written,
         written = up[u] \o msgs, Ends(u, how, written),
         NEW N, CloseMsg \in N, \A k \in 1 .. Len(msgs) : msgs[k] \in N, NEW v \in Users
  PROVE  UpFrom(v, N) /\ DownFrom(v, {})
<1>1. up[u] \in Seq(UpMsg) /\ up \in [Users -> Seq(UpMsg)] /\ down \in [Users -> Seq(DownMsg)]
  BY DEF TypeInv
<1>2. CASE v # u
  <2>1. up'[v] = up[v] /\ down'[v] = down[v]
    BY <1>1, <1>2 DEF Ends
  <2>2. QED
    BY <2>1, SameFlows
<1>3. CASE v = u
  <2>1. down'[u] = << >>
    BY <1>1 DEF Ends
  <2>2. IsConcat(written, up[u], msgs) /\ written \in Seq(UpMsg)
        /\ Len(up[u]) \in Nat /\ Len(msgs) \in Nat
    BY <1>1, ConcatFacts
  <2>3. PICK n \in 0 .. Len(written) : up'[u] = Append(SubSeq(written, 1, n), CloseMsg)
    BY <1>1 DEF Ends
  <2>4. /\ Len(written) = Len(up[u]) + Len(msgs) /\ n \in Nat /\ n <= Len(written)
        /\ DOMAIN up'[u] = 1 .. (n + 1) /\ up'[u][n + 1] = CloseMsg
        /\ \A i \in 1 .. n : up'[u][i] = written[i]
        /\ DOMAIN up[u] = 1 .. Len(up[u])
    BY <1>1, <2>2, <2>3 DEF IsConcat
  <2>5. ASSUME NEW i \in DOMAIN up'[u]
        PROVE  up'[u][i] \in N \/ (i \in DOMAIN up[u] /\ up'[u][i] = up[u][i])
    <3>1. CASE i = n + 1
      BY <2>4, <3>1
    <3>2. CASE i # n + 1 /\ i <= Len(up[u])
      <4>1. i \in 1 .. n /\ i \in 1 .. Len(up[u])
        BY <2>2, <2>4, <3>2
      <4>2. QED
        BY <2>2, <2>4, <4>1 DEF IsConcat
    <3>3. CASE i # n + 1 /\ i > Len(up[u])
      <4>. DEFINE k == i - Len(up[u])
      <4>1. k \in 1 .. Len(msgs) /\ i = Len(up[u]) + k /\ i \in 1 .. n
        BY <2>2, <2>4, <3>3
      <4>2. written[i] = msgs[k]
        BY <2>2, <4>1 DEF IsConcat
      <4>3. QED
        BY <2>4, <4>1, <4>2
    <3>4. QED
      BY <2>2, <2>4, <3>1, <3>2, <3>3
  <2>6. QED
    BY <1>3, <2>1, <2>5 DEF UpFrom, DownFrom
<1>4. QED
  BY <1>2, <1>3

\* A client that ends has sent no request.
LEMMA EndsBrings ==
  ASSUME TypeInv, NEW u \in Users, NEW how, NEW msgs \in Seq(UpMsg), NEW written,
         written = up[u] \o msgs, Ends(u, how, written),
         \A k \in 1 .. Len(msgs) : msgs[k].type \notin {"get", "remove"}, NEW v \in Users
  PROVE  BringsNone(v)
<1>1. PICK N : N = {CloseMsg} \cup {msgs[k] : k \in 1 .. Len(msgs)}
  OBVIOUS
<1>2. UpFrom(v, N) /\ DownFrom(v, {})
  <2>1. CloseMsg \in N /\ \A k \in 1 .. Len(msgs) : msgs[k] \in N
    BY <1>1
  <2>2. QED
    BY <2>1, EndsFlows
<1>3. \A m \in N : m.type \notin {"get", "remove"}
  BY <1>1 DEF CloseMsg
<1>4. QED
  BY <1>2, <1>3, FlowBrings

\* A client that ends without having written anything.
LEMMA EndsAlone ==
  ASSUME TypeInv, NEW u \in Users, NEW how, Ends(u, how, up[u]), NEW v \in Users
  PROVE  UpFrom(v, {CloseMsg}) /\ DownFrom(v, {})
<1>1. PICK written : written = up[u]
  OBVIOUS
<1>2. PICK msgs : msgs \in Seq(UpMsg) /\ written = up[u] \o msgs /\ Len(msgs) = 0
  <2>1. PICK q \in Seq(UpMsg) : q = up[u]
    BY Channels
  <2>2. q \o << >> = q /\ << >> \in Seq(UpMsg) /\ Len(<< >>) = 0
    BY <2>1
  <2>3. PICK e : e = << >>
    OBVIOUS
  <2>4. e \in Seq(UpMsg) /\ written = up[u] \o e /\ Len(e) = 0
    BY <1>1, <2>1, <2>2, <2>3
  <2>5. QED
    BY <2>4
<1>3. PICK N : N = {CloseMsg}
  OBVIOUS
<1>4. CloseMsg \in N /\ \A k \in 1 .. Len(msgs) : msgs[k] \in N
  BY <1>2, <1>3
<1>5. UpFrom(v, N) /\ DownFrom(v, {})
  BY <1>1, <1>2, <1>4, EndsFlows
<1>6. QED
  BY <1>3, <1>5

\* It brings nothing.
LEMMA EndsSilently ==
  ASSUME TypeInv, NEW u \in Users, NEW how, Ends(u, how, up[u]), NEW v \in Users
  PROVE  BringsNone(v)
<1>1. PICK N : N = {CloseMsg}
  OBVIOUS
<1>2. UpFrom(v, N) /\ DownFrom(v, {})
  BY <1>1, EndsAlone
<1>3. \A m \in N : m.type \notin {"get", "remove"}
  BY <1>1 DEF CloseMsg
<1>4. QED
  BY <1>2, <1>3, FlowBrings

\* A user whose channels stay.
LEMMA SameBrings ==
  ASSUME NEW v, up'[v] = up[v], down'[v] = down[v]
  PROVE  BringsNone(v)
  BY DEF BringsNone

\* What the server takes is gone, and nothing else comes to it.
LEMMA ConsumeWithin ==
  ASSUME TypeInv, NEW u \in Users, up[u] # << >>, Consume(u), NEW v \in Users
  PROVE  \A i \in DOMAIN up'[v] : \E k \in DOMAIN up[v] : up'[v][i] = up[v][k]
<1>1. up[u] \in Seq(UpMsg) /\ up \in [Users -> Seq(UpMsg)]
  BY DEF TypeInv
<1>2. CASE v # u
  <2>1. up'[v] = up[v]
    BY <1>1, <1>2 DEF Consume
  <2>2. QED
    BY <2>1
<1>3. CASE v = u
  <2>1. up'[u] = Tail(up[u])
    BY <1>1 DEF Consume
  <2>2. QED
    BY <1>1, <1>3, <2>1, TailWithin
<1>4. QED
  BY <1>2, <1>3

\* What an editor takes is gone, and nothing else comes to it.
LEMMA DropWithin ==
  ASSUME TypeInv, NEW u \in Users, down[u] # << >>, Drop(u), NEW v \in Users
  PROVE  \A i \in DOMAIN down'[v] : \E k \in DOMAIN down[v] : down'[v][i] = down[v][k]
<1>1. down[u] \in Seq(DownMsg) /\ down \in [Users -> Seq(DownMsg)]
  BY DEF TypeInv
<1>2. CASE v # u
  <2>1. down'[v] = down[v]
    BY <1>1, <1>2 DEF Drop
  <2>2. QED
    BY <2>1
<1>3. CASE v = u
  <2>1. down'[u] = Tail(down[u])
    BY <1>1 DEF Drop
  <2>2. QED
    BY <1>1, <1>3, <2>1, TailWithin
<1>4. QED
  BY <1>2, <1>3

\* What the server takes it passes on, with its sender's name.
LEMMA RelayFlows ==
  ASSUME TypeInv, NEW u \in Users, up[u] # << >>, Relay(u), Consume(u),
         Named(u, Head(up[u])) \in DownMsg, NEW v \in Users
  PROVE  UpFrom(v, {}) /\ DownFrom(v, {Named(u, Head(up[u]))})
<1>1. UpFrom(v, {})
  BY ConsumeWithin DEF UpFrom
<1>2. PICK n : n = Named(u, Head(up[u]))
  OBVIOUS
<1>3. down'[v] = IF v \in inFile \ {u} /\ ~ Ended(v) THEN Append(down[v], n) ELSE down[v]
  BY <1>2 DEF Relay
<1>4. down[v] \in Seq(DownMsg) /\ DOMAIN down[v] = 1 .. Len(down[v]) /\ n \in DownMsg
  BY <1>2, Channels
<1>5. CASE down'[v] = down[v]
  BY <1>1, <1>5, SameFlows
<1>6. CASE down'[v] = Append(down[v], n)
  <2>1. IsAppend(down'[v], down[v], n)
    BY <1>4, <1>6, AppendFacts
  <2>2. DOMAIN down'[v] = 1 .. (Len(down[v]) + 1) /\ Len(down[v]) \in Nat
    BY <1>4, <1>6
  <2>3. ASSUME NEW i \in DOMAIN down'[v]
        PROVE  down'[v][i] = n \/ (i \in DOMAIN down[v] /\ down'[v][i] = down[v][i])
    BY <1>4, <2>1, <2>2 DEF IsAppend
  <2>4. QED
    BY <1>1, <1>2, <2>3 DEF DownFrom
<1>7. QED
  BY <1>3, <1>5, <1>6

\* A handler of the server that passes an edit on sends no file.
LEMMA RelayBrings ==
  ASSUME TypeInv, NEW u \in Users, up[u] # << >>, IsEdit(Head(up[u])), Relay(u), Consume(u),
         NEW v \in Users
  PROVE  BringsNone(v)
<1>1. Named(u, Head(up[u])) \in DownMsg /\ Named(u, Head(up[u])).type # "file"
  <2>1. Head(up[u]) = up[u][1] /\ up[u][1] \in UpMsg
    BY Channels, TailFacts
  <2>2. Named(u, Head(up[u])) \in DownMsg /\ SameEdit(Named(u, Head(up[u])), Head(up[u]))
    BY <2>1, NamedMessage
  <2>3. QED
    BY <2>2 DEF SameEdit, IsEdit
<1>2. PICK D : D = {Named(u, Head(up[u]))}
  OBVIOUS
<1>3. UpFrom(v, {}) /\ DownFrom(v, D)
  BY <1>1, <1>2, RelayFlows
<1>4. QED
  BY <1>1, <1>2, <1>3, FlowBrings

\* A step that leaves every client where it is.
LEMMA CalmWindow ==
  ASSUME NEW v, BringsNone(v), window' = window, hurt \subseteq hurt', listed' = listed
  PROVE  Calm(v)
<1>1. Gone(v) => Gone(v)'
  BY DEF Gone, Ended
<1>2. QED
  BY <1>1 DEF Calm

\* A step that ends one client, for a cause.
LEMMA CalmEnd ==
  ASSUME TypeInv, NEW u \in Users, NEW how \in EndWords, window' = [window EXCEPT ![u] = how],
         listed' = listed, hurt \subseteq hurt', Gone(u) => u \in hurt', Blamed(u)',
         NEW v \in Users, BringsNone(v)
  PROVE  Calm(v)
<1>1. window \in [Users -> Windows]
  BY DEF TypeInv
<1>2. CASE v # u
  <2>1. window'[v] = window[v]
    BY <1>1, <1>2
  <2>2. Gone(v) => Gone(v)'
    BY <2>1 DEF Gone, Ended
  <2>3. QED
    BY <2>1, <2>2 DEF Calm
<1>3. CASE v = u
  <2>1. window'[u] = how /\ how # "open" /\ Ended(u)'
    BY <1>1 DEF EndWords, Ended
  <2>2. QED
    BY <1>3, <2>1 DEF Calm, Gone
<1>4. QED
  BY <1>2, <1>3

-----------------------------------------------------------------------------
\* The server's handlers of edits end nobody.
LEMMA RelayCause ==
  ASSUME IInv, CauseInv, NEW u \in Users,
         ServerUpdate(u) \/ ServerInsert(u) \/ ServerDelete(u) \/ ServerComment(u)
  PROVE  CauseInv'
<1>1. /\ up[u] # << >> /\ IsEdit(Head(up[u])) /\ Relay(u) /\ Consume(u)
      /\ known' = known /\ window' = window /\ listed' = listed /\ widget' = widget
      /\ hurt' = hurt /\ drifted' = drifted
  BY DEF ServerUpdate, ServerInsert, ServerDelete, ServerComment, ReceivedComment, Received, IsEdit,
         server, client, history
<1>2. \A v \in Users : mark'[v] = mark[v]
  <2>1. mark' = mark \/ mark' = [mark EXCEPT ![Server] = RemoteUpdate(text[Server], @, Head(up[u]), u)]
    BY DEF ServerUpdate, ServerInsert, ServerDelete, ServerComment
  <2>2. mark \in [Replicas -> Marks] /\ \A v \in Users : v \in Replicas /\ v # Server
    BY Channels DEF IInv, TypeInv
  <2>3. QED
    BY <2>1, <2>2
<1>3. ASSUME NEW v \in Users PROVE Calm(v)
  BY <1>1, RelayBrings, CalmWindow DEF IInv
<1>4. QED
  BY <1>1, <1>2, <1>3, CalmStep

\* An editor that takes an insertion or a deletion ends nowhere.
LEMMA ClientWriteCause ==
  ASSUME IInv, CauseInv, NEW u \in Users, ClientInsert(u) \/ ClientDelete(u)
  PROVE  CauseInv'
<1>1. /\ down[u] # << >> /\ Drop(u) /\ up' = up /\ mark' = mark
      /\ known' = known /\ window' = window /\ listed' = listed /\ widget' = widget
      /\ hurt' = hurt /\ drifted' = drifted
  BY DEF ClientInsert, ClientDelete, Arrived, server, client, history
<1>2. ASSUME NEW v \in Users PROVE Calm(v)
  <2>1. BringsNone(v)
    BY <1>1, DropWithin DEF BringsNone, IInv
  <2>2. QED
    BY <1>1, <2>1, CalmWindow
<1>3. QED
  BY <1>1, <1>2, CalmStep

\* A change of a comment finds it.
LEMMA ClientCommentCause ==
  ASSUME IInv, CauseInv, NEW u \in Users, ClientComment(u)
  PROVE  CauseInv'
<1>1. /\ down[u] # << >> /\ AboutComment(Head(down[u])) /\ mark' = mark
      /\ known' = known /\ listed' = listed /\ widget' = widget
      /\ hurt' = hurt /\ drifted' = drifted
      /\ \/ Drop(u) /\ window' = window /\ up' = up
         \/ Head(down[u]).type # "new" /\ ~ Has(comments[u], Head(down[u]).comment)
  BY DEF ClientComment, Arrived, AboutComment, server, history
<1>2. Head(down[u]).type # "new" => Has(comments[u], Head(down[u]).comment)
  <2>1. HAVE Head(down[u]).type # "new"
  <2>2. /\ down[u] \in Seq(DownMsg) /\ Head(down[u]) = down[u][1] /\ 1 \in DOMAIN down[u]
    BY <1>1, Channels, TailFacts DEF IInv
  <2>3. Alters(down[u][1])
    BY <1>1, <2>1, <2>2 DEF Alters, AboutComment
  <2>4. Has(Steps(Held(u), down[u])[1 - 1].comments, down[u][1].comment)
    BY <2>2, <2>3 DEF IInv, FollowInv, Meets
  <2>5. Steps(Held(u), down[u])[0] = Held(u) /\ 1 - 1 = 0
    BY <2>2, StepsFacts
  <2>6. Held(u).comments = comments[u]
    BY DEF Held
  <2>7. QED
    BY <2>2, <2>4, <2>5, <2>6
<1>3. Drop(u) /\ window' = window /\ up' = up
  BY <1>1, <1>2
<1>4. ASSUME NEW v \in Users PROVE Calm(v)
  <2>1. BringsNone(v)
    BY <1>1, <1>3, DropWithin DEF BringsNone, IInv
  <2>2. QED
    BY <1>1, <1>3, <2>1, CalmWindow
<1>5. QED
  BY <1>1, <1>4, CalmStep

\* The server's closing a file ends nobody.
LEMMA ServerCloseCause ==
  ASSUME IInv, CauseInv, NEW u \in Users, ServerClose(u)
  PROVE  CauseInv'
<1>1. /\ up[u] # << >> /\ Consume(u) /\ down' = down /\ mark' = mark
      /\ known' = known /\ window' = window /\ listed' = listed /\ widget' = widget
      /\ hurt' = hurt /\ drifted' = drifted
  BY DEF ServerClose, Received, file, client, history
<1>2. ASSUME NEW v \in Users PROVE Calm(v)
  <2>1. BringsNone(v)
    BY <1>1, ConsumeWithin DEF BringsNone, IInv
  <2>2. QED
    BY <1>1, <2>1, CalmWindow
<1>3. QED
  BY <1>1, <1>2, CalmStep

\* A comment that is written, changed or deleted ends nobody.
LEMMA CommentCause ==
  ASSUME IInv, CauseInv, NEW u \in Users, NEW m \in UpMsg, AboutComment(m), SendUp(u, <<m>>),
         down' = down, mark' = mark, known' = known, window' = window, listed' = listed,
         widget' = widget, hurt' = hurt, drifted' = drifted
  PROVE  CauseInv'
<1>1. /\ <<m>> \in Seq(UpMsg)
      /\ \A k \in 1 .. Len(<<m>>) : <<m>>[k].type \notin {"get", "remove"}
  BY DEF AboutComment
<1>2. ASSUME NEW v \in Users PROVE Calm(v)
  <2>1. PICK msgs : msgs = <<m>>
    OBVIOUS
  <2>2. BringsNone(v)
    BY <1>1, <2>1, SendBrings DEF IInv
  <2>3. QED
    BY <2>2, CalmWindow
<1>3. QED
  BY <1>2, CalmStep

\* A new comment.
LEMMA InsertCommentCause ==
  ASSUME IInv, CauseInv, NEW u \in Users, InsertComment(u)
  PROVE  CauseInv'
<1>1. PICK c : c = [author |-> u, no |-> lastNo[u] + 1, words |-> "first"]
  OBVIOUS
<1>2. PICK m : m = Com("new", c)
  OBVIOUS
<1>3. m \in UpMsg /\ AboutComment(m)
  <2>1. lastNo[u] + 1 \in Nat
    BY DEF IInv, TypeInv
  <2>2. c \in Comment
    BY <1>1, <2>1 DEF Comment
  <2>3. QED
    BY <1>2, <2>2 DEF UpMsg, Com, AboutComment
<1>4. /\ SendUp(u, <<m>>) /\ down' = down /\ mark' = mark /\ known' = known /\ window' = window
      /\ listed' = listed /\ widget' = widget /\ hurt' = hurt /\ drifted' = drifted
  BY <1>1, <1>2 DEF InsertComment, server, history
<1>5. QED
  BY <1>3, <1>4, CommentCause

\* A change or a deletion of an own comment.
LEMMA OwnCommentCause ==
  ASSUME IInv, CauseInv, NEW u \in Users, NEW c \in Own(u), EditComment(u, c) \/ DeleteComment(u, c)
  PROVE  CauseInv'
<1>1. c \in Comment
  BY Channels DEF Own, IInv, TypeInv
<1>2. PICK d : d = [c EXCEPT !.words = "later"]
  OBVIOUS
<1>3. d \in Comment
  BY <1>1, <1>2 DEF Comment
<1>4. PICK m : m = (IF EditComment(u, c) THEN Com("words", d) ELSE Com("erase", c))
  OBVIOUS
<1>5. m \in UpMsg /\ AboutComment(m)
  BY <1>1, <1>3, <1>4 DEF UpMsg, Com, AboutComment
<1>6. /\ SendUp(u, <<m>>) /\ down' = down /\ mark' = mark /\ known' = known /\ window' = window
      /\ listed' = listed /\ widget' = widget /\ hurt' = hurt /\ drifted' = drifted
  BY <1>2, <1>4 DEF EditComment, DeleteComment, server, client, history
<1>7. QED
  BY <1>5, <1>6, CommentCause

\* A change of formats: the widget shows what the File has, both of the range.
LEMMA FormatCause ==
  ASSUME IInv, CauseInv, NEW u \in Users, NEW S, NEW f \in Formats, Format(u, S, f)
  PROVE  CauseInv'
<1>1. /\ mark' = [mark EXCEPT ![u] = LocalUpdate(@, S, f)]
      /\ widget' = [widget EXCEPT ![u] = [s \in Symbols |-> IF s \in S THEN f ELSE @[s]]]
      /\ down' = down /\ known' = known /\ window' = window /\ listed' = listed
      /\ hurt' = hurt /\ drifted' = drifted
  BY DEF Format, server
<1>2. PICK t \in now .. Min({now + 1, MaxClock}) :
         SendUp(u, <<Upd({s \in S : mark[u][s].fmt # f}, f, t)>>)
  BY DEF Format
<1>3. PICK m : m = Upd({s \in S : mark[u][s].fmt # f}, f, t)
  OBVIOUS
<1>4. m \in UpMsg /\ m.type = "upd"
  <2>1. {s \in S : mark[u][s].fmt # f} \subseteq Symbols
    BY Channels DEF Format, IInv, TypeInv
  <2>2. t \in Nat
    <3>1. now \in Nat
      BY DEF IInv, TypeInv
    <3>2. QED
      BY <1>2, <3>1
  <2>3. QED
    BY <1>3, <2>1, <2>2 DEF Upd, UpMsg
<1>5. /\ <<m>> \in Seq(UpMsg)
      /\ \A k \in 1 .. Len(<<m>>) : <<m>>[k].type \notin {"get", "remove"}
  BY <1>4
<1>6. ASSUME NEW v \in Users PROVE Calm(v)
  <2>1. PICK msgs : msgs = <<m>>
    OBVIOUS
  <2>2. SendUp(u, msgs)
    BY <1>2, <1>3, <2>1
  <2>3. BringsNone(v)
    BY <1>1, <1>5, <2>1, <2>2, SendBrings DEF IInv
  <2>4. QED
    BY <1>1, <2>3, CalmWindow
<1>7. ASSUME NEW v \in Users PROVE Departed(v)' /\ Members(v)' /\ Blamed(v)'
  BY <1>1, <1>6, CalmUser DEF CauseInv
<1>8. /\ mark \in [Replicas -> Marks] /\ mark[u] \in Marks /\ \A v \in Users : v \in Replicas
      /\ widget[u] \in [Symbols -> Formats] /\ widget \in [Users -> [Symbols -> Formats]]
  BY Channels DEF IInv, TypeInv, CauseInv
<1>9. widget' \in [Users -> [Symbols -> Formats]]
  BY <1>1, <1>8
<1>10. ASSUME NEW v \in Users PROVE Shown(v)'
  <2>1. Shown(v)
    BY DEF CauseInv
  <2>2. CASE v # u
    <3>1. mark'[v] = mark[v] /\ widget'[v] = widget[v]
      BY <1>1, <1>8, <2>2
    <3>2. QED
      BY <1>1, <2>1, <3>1 DEF Shown
  <2>3. CASE v = u
    <3>1. /\ mark'[u] = LocalUpdate(mark[u], S, f)
          /\ \A s \in Symbols : widget'[u][s] = IF s \in S THEN f ELSE widget[u][s]
      BY <1>1, <1>8
    <3>2. \A s \in Symbols : mark'[u][s].fmt = IF s \in S THEN f ELSE mark[u][s].fmt
      BY <3>1 DEF LocalUpdate
    <3>3. QED
      BY <1>1, <2>1, <2>3, <3>1, <3>2 DEF Shown
  <2>4. QED
    BY <2>2, <2>3
<1>11. QED
  BY <1>7, <1>9, <1>10 DEF CauseInv

\* An edit ends the client only when a count is wrong.
LEMMA EditCause ==
  ASSUME IInv, CauseInv, NEW u \in Users, NEW gone \in SUBSET text[u],
         NEW new \in SUBSET Symbols, Edit(u, gone, new)
  PROVE  CauseInv'
<1>1. /\ known' = known /\ mark' = mark /\ listed' = listed /\ widget' = widget
      /\ drifted' = drifted /\ window[u] = "open"
  BY DEF Edit, server
<1>2. hurt \subseteq hurt' /\ (window' = window \/ u \in hurt')
  BY EditHolds
<1>3. PICK lost \in SUBSET pars[u] :
         /\ gone = {} => lost = {}
         /\ \/ \E found \in SUBSET (Paragraphs \ made) :
                  /\ new = {} => found = {}
                  /\ SendUp(u, Writes(gone, lost, new, found)) /\ window' = window /\ down' = down
            \/ Ends(u, "endedByEdit", up[u])
            \/ Ends(u, "endedByEdit", up[u] \o IF gone = {} THEN << >> ELSE <<Del(gone, lost)>>)
  BY EditFacts
<1>4. gone \in SUBSET Symbols /\ lost \in SUBSET Paragraphs
  BY Channels DEF IInv, TypeInv
<1>5. ASSUME NEW found \in SUBSET (Paragraphs \ made), new = {} => found = {},
             SendUp(u, Writes(gone, lost, new, found)), window' = window, down' = down
      PROVE  CauseInv'
  <2>1. PICK msgs : /\ msgs = Writes(gone, lost, new, found) /\ msgs \in Seq(UpMsg)
                    /\ \A k \in 1 .. Len(msgs) :
                          msgs[k] = Del(gone, lost) \/ msgs[k] = Ins(new, found)
    <3>1. WritesFit(gone, lost, new, found)
      BY <1>3, <1>4, <1>5 DEF WritesFit
    <3>2. QED
      BY <3>1, EditMessages
  <2>2. SendUp(u, msgs) /\ \A k \in 1 .. Len(msgs) : msgs[k].type \notin {"get", "remove"}
    BY <1>5, <2>1 DEF Del, Ins
  <2>3. ASSUME NEW v \in Users PROVE Calm(v)
    <3>1. BringsNone(v)
      BY <1>5, <2>1, <2>2, SendBrings DEF IInv
    <3>2. QED
      BY <1>1, <1>2, <1>5, <3>1, CalmWindow
  <2>4. QED
    BY <1>1, <1>2, <2>3, CalmStep
<1>6. ASSUME NEW msgs \in Seq(UpMsg), Ends(u, "endedByEdit", up[u] \o msgs),
             \A k \in 1 .. Len(msgs) : msgs[k].type \notin {"get", "remove"}
      PROVE  CauseInv'
  <2>1. window' = [window EXCEPT ![u] = "endedByEdit"]
    BY <1>6 DEF Ends
  <2>2. window'[u] = "endedByEdit" /\ u \in hurt'
    BY <1>1, <1>2, <2>1 DEF IInv, TypeInv
  <2>3. Blamed(u)'
    BY <2>2 DEF Blamed
  <2>4. "endedByEdit" \in EndWords
    BY DEF EndWords
  <2>5. ASSUME NEW v \in Users PROVE Calm(v)
    <3>1. PICK written : written = up[u] \o msgs
      OBVIOUS
    <3>2. BringsNone(v)
      BY <1>6, <3>1, EndsBrings DEF IInv
    <3>3. QED
      BY <1>1, <1>2, <2>1, <2>2, <2>3, <2>4, <3>2, CalmEnd DEF IInv
  <2>6. QED
    BY <1>1, <1>2, <2>5, CalmStep
<1>7. up[u] \o << >> = up[u] /\ << >> \in Seq(UpMsg) /\ \A k \in 1 .. Len(<< >>) : FALSE
  <2>1. PICK q \in Seq(UpMsg) : q = up[u]
    BY Channels DEF IInv
  <2>2. q \o << >> = q /\ << >> \in Seq(UpMsg) /\ \A k \in 1 .. Len(<< >>) : FALSE
    BY <2>1
  <2>3. QED
    BY <2>1, <2>2
<1>8. CASE Ends(u, "endedByEdit", up[u])
  <2>1. PICK msgs : msgs = << >>
    OBVIOUS
  <2>2. /\ msgs \in Seq(UpMsg) /\ Ends(u, "endedByEdit", up[u] \o msgs)
        /\ \A k \in 1 .. Len(msgs) : msgs[k].type \notin {"get", "remove"}
    BY <1>7, <1>8, <2>1
  <2>3. QED
    BY <1>6, <2>2
<1>9. CASE Ends(u, "endedByEdit", up[u] \o IF gone = {} THEN << >> ELSE <<Del(gone, lost)>>)
  <2>1. Del(gone, lost) \in UpMsg /\ Del(gone, lost).type = "del"
    BY <1>4 DEF Del, UpMsg
  <2>2. PICK d : d = Del(gone, lost)
    OBVIOUS
  <2>3. /\ <<d>> \in Seq(UpMsg)
        /\ \A k \in 1 .. Len(<<d>>) : <<d>>[k].type \notin {"get", "remove"}
    BY <2>1, <2>2
  <2>4. CASE gone = {}
    BY <1>7, <1>8, <1>9, <2>4
  <2>5. CASE gone # {}
    <3>1. Ends(u, "endedByEdit", up[u] \o <<d>>)
      BY <1>9, <2>2, <2>5
    <3>2. QED
      BY <1>6, <2>3, <3>1
  <2>6. QED
    BY <2>4, <2>5
<1>10. QED
  BY <1>3, <1>5, <1>8, <1>9

\* A user the step is not about.
LEMMA CalmOther ==
  ASSUME NEW v, up'[v] = up[v], down'[v] = down[v], window'[v] = window[v],
         listed'[v] = listed[v], hurt \subseteq hurt'
  PROVE  Calm(v)
<1>1. BringsNone(v)
  BY SameBrings
<1>2. Gone(v) => Gone(v)'
  BY DEF Gone, Ended
<1>3. QED
  BY <1>1, <1>2 DEF Calm

\* Whom the editor does not list has left.
LEMMA HighlightCause ==
  ASSUME IInv, CauseInv, NEW u \in Users, Highlight(u)
  PROVE  CauseInv'
<1>1. /\ window[u] = "open" /\ Ends(u, "endedByHighlight", up[u])
      /\ known' = known /\ mark' = mark /\ listed' = listed /\ widget' = widget
      /\ hurt' = hurt /\ drifted' = drifted
  BY DEF Highlight, file, server, history
<1>2. PICK s \in text[u] : Author[s] \notin listed[u]
  BY DEF Highlight
<1>3. Author[s] \in Users
  BY TextAssumption, Channels DEF IInv, TypeInv
<1>4. Listing(u, listed[u])
  BY DEF CauseInv, Members
<1>5. Author[s] \in Users \ {u} /\ Author[s] \notin known
  BY <1>2, <1>3, <1>4 DEF Listing
<1>6. window' = [window EXCEPT ![u] = "endedByHighlight"]
  BY <1>1 DEF Ends
<1>7. window'[u] = "endedByHighlight"
  BY <1>6 DEF IInv, TypeInv
<1>8. Blamed(u)'
  BY <1>1, <1>5, <1>7 DEF Blamed
<1>9. ~ Gone(u) /\ "endedByHighlight" \in EndWords
  BY <1>1 DEF Gone, Ended, EndWords
<1>10. ASSUME NEW v \in Users PROVE Calm(v)
  <2>1. BringsNone(v)
    BY <1>1, EndsSilently DEF IInv
  <2>2. QED
    BY <1>1, <1>6, <1>8, <1>9, <2>1, CalmEnd DEF IInv
<1>11. QED
  BY <1>1, <1>10, CalmStep

\* A user's coming, going and dropping the link.
LEMMA VisitCause ==
  ASSUME IInv, CauseInv, NEW u \in Users, Open(u) \/ Close(u) \/ DropLink(u)
  PROVE  CauseInv'
<1>1. /\ down' = down /\ known' = known /\ mark' = mark /\ listed' = listed /\ widget' = widget
      /\ hurt' = hurt /\ drifted' = drifted
  BY DEF Open, Close, DropLink, Leave, file, server, history
<1>2. PICK m, how :
         /\ SendUp(u, <<m>>) /\ window' = [window EXCEPT ![u] = how]
         /\ \/ window[u] = "closed" /\ how = "opening" /\ m = Get
            \/ window[u] = "open" /\ how = "closed" /\ m = CloseMsg
            \/ window[u] = "open" /\ how = "left" /\ m = RemoveMsg
  BY DEF Open, Close, DropLink, Leave
<1>3. m \in UpMsg /\ m.type \in {"get", "close", "remove"}
  BY <1>2 DEF Get, CloseMsg, RemoveMsg, UpMsg
<1>4. /\ window'[u] = how /\ \A v \in Users \ {u} : window'[v] = window[v] /\ up'[v] = up[v]
  BY <1>2 DEF SendUp, IInv, TypeInv
<1>5. ASSUME NEW v \in Users, v # u PROVE Departed(v)' /\ Members(v)' /\ Blamed(v)'
  <2>1. Calm(v)
    BY <1>1, <1>4, <1>5, CalmOther
  <2>2. QED
    BY <1>1, <2>1, CalmUser DEF CauseInv
<1>6. Departed(u) /\ Members(u) /\ Session(u)
  BY DEF CauseInv, IInv, FollowInv
<1>7. Members(u)' /\ Blamed(u)'
  BY <1>1, <1>2, <1>4, <1>6 DEF Members, Listing, Blamed
<1>8. /\ \A i \in DOMAIN up'[u] : up'[u][i] = m \/ \E k \in DOMAIN up[u] : up'[u][i] = up[u][k]
  <2>1. up'[u] = Append(up[u], m)
    <3>1. up[u] \in Seq(UpMsg) /\ up'[u] = up[u] \o <<m>>
      BY <1>2 DEF SendUp, IInv, TypeInv
    <3>2. PICK q \in Seq(UpMsg) : q = up[u]
      BY <3>1
    <3>3. q \o <<m>> = Append(q, m)
      BY <1>3
    <3>4. QED
      BY <3>1, <3>2, <3>3
  <2>2. up[u] \in Seq(UpMsg) /\ Len(up[u]) \in Nat /\ DOMAIN up[u] = 1 .. Len(up[u])
    BY Channels DEF IInv
  <2>3. IsAppend(up'[u], up[u], m) /\ DOMAIN up'[u] = 1 .. (Len(up[u]) + 1)
    BY <1>3, <2>1, <2>2, AppendFacts
  <2>4. ASSUME NEW i \in DOMAIN up'[u] PROVE i = Len(up[u]) + 1 \/ i \in DOMAIN up[u]
    BY <2>2, <2>3
  <2>5. QED
    BY <2>2, <2>3, <2>4 DEF IsAppend
<1>9. Departed(u)'
  <2>1. CASE window[u] = "closed" /\ how = "opening" /\ m = Get
    <3>1. ~ Gone(u)
      BY <2>1 DEF Gone, Ended
    <3>2. u \in known /\ ~ Parts(u)
      BY <1>6, <3>1 DEF Departed
    <3>3. ~ Parts(u)'
      BY <1>8, <2>1, <3>2 DEF Parts, Get
    <3>4. QED
      BY <1>1, <3>2, <3>3 DEF Departed
  <2>2. CASE window[u] = "open" /\ how = "closed" /\ m = CloseMsg
    <3>1. ~ Gone(u)
      BY <2>2 DEF Gone, Ended
    <3>2. u \in known /\ ~ Parts(u)
      BY <1>6, <3>1 DEF Departed
    <3>3. ~ Parts(u)'
      BY <1>8, <2>2, <3>2 DEF Parts, CloseMsg
    <3>4. QED
      BY <1>1, <3>2, <3>3 DEF Departed
  <2>3. CASE window[u] = "open" /\ how = "left" /\ m = RemoveMsg
    <3>1. Gone(u)'
      BY <1>4, <2>3 DEF Gone
    <3>2. ~ Wants(u)
      BY <1>6, <2>3 DEF Session, Gets, Wants
    <3>3. ~ Wants(u)'
      BY <1>8, <2>3, <3>2 DEF Wants, RemoveMsg
    <3>4. QED
      BY <3>1, <3>3 DEF Departed
  <2>4. QED
    BY <1>2, <2>1, <2>2, <2>3
<1>10. ASSUME NEW v \in Users PROVE Shown(v)'
  <2>1. window'[v] = "open" => window[v] = "open"
    BY <1>2, <1>4
  <2>2. Shown(v)
    BY DEF CauseInv
  <2>3. QED
    BY <1>1, <2>1, <2>2 DEF Shown
<1>11. QED
  BY <1>1, <1>5, <1>7, <1>9, <1>10 DEF CauseInv

\* Who asks for the file is in its map, so that the map stays, and the list that
\* goes with the file is the map.
LEMMA ServerGetCause ==
  ASSUME IInv, CauseInv, NEW u \in Users, ServerGet(u)
  PROVE  CauseInv'
<1>1. /\ up[u] # << >> /\ Head(up[u]).type = "get" /\ Consume(u) /\ known' = known \cup {u}
      /\ mark' = mark /\ window' = window /\ listed' = listed /\ widget' = widget
      /\ hurt' = hurt /\ drifted' = drifted
  BY DEF ServerGet, Received, file, client
<1>2. Head(up[u]) = up[u][1] /\ 1 \in DOMAIN up[u]
  BY <1>1, Channels, TailFacts DEF IInv
<1>3. Wants(u) /\ Departed(u) /\ Members(u) /\ Blamed(u)
  BY <1>1, <1>2 DEF Wants, CauseInv
<1>4. u \in known /\ known' = known
  BY <1>1, <1>3 DEF Departed
<1>5. PICK m : /\ m.known = known' /\ m \in DownMsg
               /\ down' = [down EXCEPT ![u] = IF Ended(u) THEN @ ELSE Append(@, m)]
  <2>1. PICK n : /\ n = [type |-> "file", text |-> text[Server], pars |-> pars[Server],
                         fmts |-> [s \in Symbols |-> mark[Server][s].fmt],
                         comments |-> comments[Server], known |-> known']
                 /\ down' = [down EXCEPT ![u] = IF Ended(u) THEN @ ELSE Append(@, n)]
    BY DEF ServerGet
  <2>2. n \in DownMsg
    <3>1. [s \in Symbols |-> mark[Server][s].fmt] \in [Symbols -> Formats]
      BY Channels DEF IInv, TypeInv, Marks
    <3>2. /\ text[Server] \in SUBSET Symbols /\ pars[Server] \in SUBSET Paragraphs
          /\ comments[Server] \in SUBSET Comment /\ known' \in SUBSET Users
      BY <1>4, Channels DEF IInv, TypeInv
    <3>3. QED
      BY <2>1, <3>1, <3>2 DEF DownMsg
  <2>3. n.known = known'
    BY <2>1
  <2>4. QED
    BY <2>1, <2>2, <2>3
<1>6. ASSUME NEW v \in Users, v # u PROVE Departed(v)' /\ Members(v)' /\ Blamed(v)'
  <2>1. up'[v] = up[v] /\ down'[v] = down[v]
    BY <1>1, <1>5, <1>6 DEF Consume, IInv, TypeInv
  <2>2. Calm(v)
    BY <1>1, <2>1, CalmOther
  <2>3. QED
    BY <1>1, <1>4, <2>2, CalmUser DEF CauseInv
<1>7. Departed(u)'
  <2>1. \A i \in DOMAIN up'[u] : \E k \in DOMAIN up[u] : up'[u][i] = up[u][k]
    BY <1>1, ConsumeWithin DEF IInv
  <2>2. Parts(u)' => Parts(u)
    BY <2>1 DEF Parts
  <2>3. QED
    BY <1>3, <1>4, <2>2 DEF Departed
<1>8. Blamed(u)'
  BY <1>1, <1>3, <1>4 DEF Blamed
<1>9. Members(u)'
  <2>1. \A i \in DOMAIN down'[u] : down'[u][i] = m \/ \E k \in DOMAIN down[u] : down'[u][i] = down[u][k]
    <3>1. /\ down[u] \in Seq(DownMsg) /\ Len(down[u]) \in Nat /\ DOMAIN down[u] = 1 .. Len(down[u])
          /\ down'[u] = down[u] \/ down'[u] = Append(down[u], m)
      BY <1>5, Channels DEF IInv, TypeInv
    <3>2. CASE down'[u] = down[u]
      BY <3>2
    <3>3. CASE down'[u] = Append(down[u], m)
      <4>1. IsAppend(down'[u], down[u], m) /\ DOMAIN down'[u] = 1 .. (Len(down[u]) + 1)
        BY <1>5, <3>1, <3>3, AppendFacts
      <4>2. ASSUME NEW i \in DOMAIN down'[u] PROVE i = Len(down[u]) + 1 \/ i \in DOMAIN down[u]
        BY <3>1, <4>1
      <4>3. QED
        BY <3>1, <4>1, <4>2 DEF IsAppend
    <3>4. QED
      BY <3>1, <3>2, <3>3
  <2>2. Listing(u, m.known)
    BY <1>4, <1>5 DEF Listing
  <2>3. QED
    BY <1>1, <1>3, <1>4, <2>1, <2>2 DEF Members, Listing
<1>10. ASSUME NEW v \in Users PROVE Shown(v)'
  BY <1>1 DEF CauseInv, Shown
<1>11. QED
  BY <1>1, <1>6, <1>7, <1>8, <1>9, <1>10 DEF CauseInv

\* Who drops the link is taken out of the map, and is gone.
LEMMA ServerRemoveCause ==
  ASSUME IInv, CauseInv, NEW u \in Users, ServerRemove(u)
  PROVE  CauseInv'
<1>1. /\ up[u] # << >> /\ Head(up[u]).type = "remove" /\ Consume(u) /\ known' = known \ {u}
      /\ mark' = mark /\ window' = window /\ listed' = listed /\ widget' = widget /\ down' = down
      /\ hurt' = hurt /\ drifted' = drifted
  BY DEF ServerRemove, Received, file, client, history
<1>2. Head(up[u]) = up[u][1] /\ 1 \in DOMAIN up[u]
  BY <1>1, Channels, TailFacts DEF IInv
<1>3. Gone(u) /\ ~ Wants(u)
  BY <1>1, <1>2 DEF Parts, Departed, CauseInv
<1>4. ASSUME NEW v \in Users
      PROVE  /\ (Wants(v)' => Wants(v)) /\ (Parts(v)' => Parts(v)) /\ (Gone(v)' <=> Gone(v))
             /\ Departed(v) /\ Members(v) /\ Blamed(v) /\ Shown(v)
  <2>1. \A i \in DOMAIN up'[v] : \E k \in DOMAIN up[v] : up'[v][i] = up[v][k]
    BY <1>1, ConsumeWithin DEF IInv
  <2>2. (Wants(v)' => Wants(v)) /\ (Parts(v)' => Parts(v))
    BY <2>1 DEF Wants, Parts
  <2>3. Gone(v)' <=> Gone(v)
    BY <1>1 DEF Gone, Ended
  <2>4. QED
    BY <2>2, <2>3 DEF CauseInv
<1>5. ASSUME NEW v \in Users PROVE Departed(v)'
  <2>1. CASE v = u
    BY <1>3, <1>4, <2>1 DEF Departed
  <2>2. CASE v # u
    BY <1>1, <1>4, <2>2 DEF Departed
  <2>3. QED
    BY <2>1, <2>2
<1>6. ASSUME NEW v \in Users PROVE Members(v)' /\ Blamed(v)' /\ Shown(v)'
  <2>1. Members(v)'
    BY <1>1, <1>4 DEF Members, Listing
  <2>2. Blamed(v)'
    BY <1>1, <1>4 DEF Blamed
  <2>3. Shown(v)'
    BY <1>1, <1>4 DEF Shown
  <2>4. QED
    BY <2>1, <2>2, <2>3
<1>7. QED
  BY <1>1, <1>5, <1>6 DEF CauseInv

\* A step of the clock or of the map of open files, and one of nothing.
LEMMA QuietCause ==
  ASSUME IInv, CauseInv, Reload \/ Tick \/ UNCHANGED vars
  PROVE  CauseInv'
<1>1. /\ up' = up /\ down' = down /\ known' = known /\ window' = window /\ listed' = listed
      /\ widget' = widget /\ hurt' = hurt /\ drifted' = drifted
  BY DEF Reload, Tick, vars, file, server, client, channels, history
<1>2. mark' = mark \/ \E k : mark' = [mark EXCEPT ![Server] = k]
  BY DEF Reload, Tick, vars, file
<1>3. \A v \in Users : mark'[v] = mark[v]
  <2>1. mark \in [Replicas -> Marks] /\ \A v \in Users : v \in Replicas /\ v # Server
    BY Channels DEF IInv, TypeInv
  <2>2. QED
    BY <1>2, <2>1
<1>4. ASSUME NEW v \in Users PROVE Calm(v)
  BY <1>1, CalmOther
<1>5. QED
  BY <1>1, <1>3, <1>4, CalmStep

\* An update of formats: the widget shows what the File takes, unless it refuses
\* a part, and the client ends only over symbols that are not in its text.
LEMMA ClientUpdateCause ==
  ASSUME IInv, CauseInv, NEW u \in Users, ClientUpdate(u)
  PROVE  CauseInv'
<1>1. PICK m, w :
         /\ m = Head(down[u]) /\ w = Walk(text[u], mark[u], widget[u], m, m.user)
         /\ mark' = [mark EXCEPT ![u] = RemoteUpdate(text[u], @, m, m.user)]
         /\ widget' = [widget EXCEPT ![u] = w.widget]
         /\ \/ Drop(u) /\ window' = window /\ up' = up
            \/ w.past /\ Ends(u, "endedByUpdate", up[u])
         /\ drifted' = IF RefusedInPart(text[u], mark[u], m, m.user) THEN drifted \cup {u} ELSE drifted
         /\ hurt' = IF m.syms \subseteq text[u] THEN hurt ELSE hurt \cup {u}
  BY DEF ClientUpdate
<1>2. /\ down[u] # << >> /\ m.type = "upd" /\ known' = known /\ listed' = listed
  BY <1>1 DEF ClientUpdate, Arrived, server
<1>3. m \in DownMsg /\ m.syms \in SUBSET Symbols /\ m.fmt \in Formats
  BY <1>1, <1>2, Channels, TailFacts, DownFacts DEF IInv
<1>4. /\ mark[u] \in Marks /\ text[u] \in SUBSET Symbols /\ widget[u] \in [Symbols -> Formats]
      /\ \A v \in Users : v \in Replicas
  BY Channels DEF IInv, TypeInv, CauseInv
<1>5. /\ w.widget \in [Symbols -> Formats]
      /\ m.syms \subseteq text[u] => ~ w.past
      /\ ~ RefusedInPart(text[u], mark[u], m, m.user) =>
            \A s \in Symbols : w.widget[s] = IF s \in Takes(text[u], mark[u], m, m.user) THEN m.fmt
                                            ELSE widget[u][s]
  <2>1. WalkShows(w, text[u], mark[u], widget[u], m, m.user)
    BY <1>1, <1>3, <1>4, WalkFacts
  <2>2. QED
    BY <2>1 DEF WalkShows
<1>6. hurt \subseteq hurt' /\ drifted \subseteq drifted'
  BY <1>1
<1>7. ASSUME Drop(u) /\ window' = window /\ up' = up, NEW v \in Users
      PROVE  Calm(v)
  <2>1. BringsNone(v)
    BY <1>2, <1>7, DropWithin DEF BringsNone, IInv
  <2>2. QED
    BY <1>2, <1>6, <1>7, <2>1, CalmWindow
<1>8. ASSUME w.past, Ends(u, "endedByUpdate", up[u]), NEW v \in Users
      PROVE  Calm(v)
  <2>1. window' = [window EXCEPT ![u] = "endedByUpdate"] /\ "endedByUpdate" \in EndWords
    BY <1>8 DEF Ends, EndWords
  <2>2. u \in hurt'
    BY <1>1, <1>5, <1>8
  <2>3. window'[u] = "endedByUpdate"
    BY <2>1 DEF IInv, TypeInv
  <2>4. Blamed(u)'
    BY <2>2, <2>3 DEF Blamed
  <2>5. BringsNone(v)
    BY <1>8, EndsSilently DEF IInv
  <2>6. QED
    BY <1>2, <1>6, <2>1, <2>2, <2>4, <2>5, CalmEnd DEF IInv
<1>9. ASSUME NEW v \in Users PROVE Calm(v)
  BY <1>1, <1>7, <1>8
<1>10. ASSUME NEW v \in Users PROVE Departed(v)' /\ Members(v)' /\ Blamed(v)'
  BY <1>2, <1>6, <1>9, CalmUser DEF CauseInv
<1>11. ASSUME NEW v \in Users PROVE Shown(v)'
  <2>1. Shown(v) /\ (window'[v] = "open" => window[v] = "open")
    BY <1>9 DEF CauseInv, Calm
  <2>2. CASE v # u
    <3>1. mark'[v] = mark[v] /\ widget'[v] = widget[v]
      BY <1>1, <1>4, <2>2 DEF IInv, TypeInv, CauseInv
    <3>2. QED
      BY <1>6, <2>1, <3>1 DEF Shown
  <2>3. CASE v = u
    <3>1. mark'[u] = RemoteUpdate(text[u], mark[u], m, m.user) /\ widget'[u] = w.widget
      BY <1>1, <1>4 DEF IInv, TypeInv, CauseInv
    <3>2. \A s \in Symbols : mark'[u][s].fmt = IF s \in Takes(text[u], mark[u], m, m.user) THEN m.fmt
                                             ELSE mark[u][s].fmt
      BY <3>1 DEF RemoteUpdate
    <3>3. u \notin drifted' => u \notin drifted /\ ~ RefusedInPart(text[u], mark[u], m, m.user)
      BY <1>1
    <3>4. QED
      BY <1>5, <2>1, <2>3, <3>1, <3>2, <3>3 DEF Shown
  <2>4. QED
    BY <2>2, <2>3
<1>12. widget' \in [Users -> [Symbols -> Formats]]
  BY <1>1, <1>5 DEF CauseInv
<1>13. QED
  BY <1>10, <1>11, <1>12 DEF CauseInv

\* The file that arrives is shown as it is, and ends the client only over a
\* comment of someone who has left.
LEMMA ClientFileCause ==
  ASSUME IInv, CauseInv, NEW u \in Users, ClientFile(u)
  PROVE  CauseInv'
<1>1. PICK m :
         /\ m = Head(down[u]) /\ m.type = "file" /\ down[u] # << >>
         /\ mark' = [mark EXCEPT ![u] =
                       [s \in Symbols |-> [fmt |-> m.fmts[s], at |-> 0, by |-> Author[s]]]]
         /\ widget' = [widget EXCEPT ![u] = m.fmts] /\ listed' = [listed EXCEPT ![u] = m.known]
         /\ \/ window' = [window EXCEPT ![u] = "open"] /\ Drop(u) /\ up' = up
            \/ /\ Ends(u, "endedByFile", up[u])
               /\ \E c \in m.comments : c.author \notin m.known
         /\ drifted' = drifted \ {u} /\ hurt' = hurt /\ known' = known
  BY DEF ClientFile, Arrived, server
<1>2. /\ m \in DownMsg /\ m.fmts \in [Symbols -> Formats] /\ m.comments \in SUBSET Comment
      /\ m.known \in SUBSET Users /\ 1 \in DOMAIN down[u] /\ down[u][1] = m
  BY <1>1, Channels, TailFacts, DownFacts DEF IInv
<1>3. ~ Gone(u)
  <2>1. 1 \in Files(u)
    BY <1>1, <1>2 DEF Files
  <2>2. Session(u) /\ window[u] \in Windows
    BY DEF IInv, FollowInv, TypeInv
  <2>3. window[u] \notin {"closed", "open", "left"} /\ ~ Ended(u)
    BY <1>1, <2>1, <2>2 DEF Session
  <2>4. QED
    BY <2>3 DEF Gone
<1>4. u \in known /\ ~ Parts(u) /\ Members(u) /\ Listing(u, m.known)
  BY <1>1, <1>2, <1>3 DEF CauseInv, Departed, Members
<1>5. /\ listed'[u] = m.known /\ widget'[u] = m.fmts
      /\ \A s \in Symbols : mark'[u][s].fmt = m.fmts[s]
      /\ \A v \in Users \ {u} : /\ listed'[v] = listed[v] /\ widget'[v] = widget[v]
                               /\ mark'[v] = mark[v]
      /\ widget' \in [Users -> [Symbols -> Formats]]
  BY <1>1, <1>2, Channels DEF IInv, TypeInv, CauseInv
<1>6. CASE window' = [window EXCEPT ![u] = "open"] /\ Drop(u) /\ up' = up
  <2>1. window'[u] = "open" /\ \A v \in Users \ {u} : window'[v] = window[v] /\ down'[v] = down[v]
    BY <1>6 DEF IInv, TypeInv, Drop
  <2>2. ASSUME NEW v \in Users, v # u PROVE Departed(v)' /\ Members(v)' /\ Blamed(v)'
    <3>1. Calm(v)
      BY <1>1, <1>5, <1>6, <2>1, <2>2, CalmOther
    <3>2. QED
      BY <1>1, <3>1, CalmUser DEF CauseInv
  <2>3. Departed(u)' /\ Blamed(u)'
    BY <1>1, <1>4, <1>6, <2>1 DEF Departed, Parts, Blamed
  <2>4. Members(u)'
    <3>1. \A i \in DOMAIN down'[u] : \E k \in DOMAIN down[u] : down'[u][i] = down[u][k]
      BY <1>1, <1>6, DropWithin DEF IInv
    <3>2. QED
      BY <1>1, <1>4, <1>5, <3>1 DEF Members, Listing
  <2>5. ASSUME NEW v \in Users PROVE Shown(v)'
    <3>1. CASE v = u
      BY <1>5, <3>1 DEF Shown
    <3>2. CASE v # u
      <4>1. Shown(v)
        BY DEF CauseInv
      <4>2. QED
        BY <1>1, <1>5, <2>1, <3>2, <4>1 DEF Shown
    <3>3. QED
      BY <3>1, <3>2
  <2>6. QED
    BY <1>5, <2>2, <2>3, <2>4, <2>5 DEF CauseInv
<1>7. CASE Ends(u, "endedByFile", up[u]) /\ \E c \in m.comments : c.author \notin m.known
  <2>1. /\ window'[u] = "endedByFile" /\ down'[u] = << >>
        /\ \A v \in Users \ {u} : window'[v] = window[v] /\ down'[v] = down[v] /\ up'[v] = up[v]
    BY <1>7 DEF IInv, TypeInv, Ends
  <2>2. ASSUME NEW v \in Users, v # u PROVE Departed(v)' /\ Members(v)' /\ Blamed(v)'
    <3>1. Calm(v)
      BY <1>1, <1>5, <2>1, <2>2, CalmOther
    <3>2. QED
      BY <1>1, <3>1, CalmUser DEF CauseInv
  <2>3. Blamed(u)'
    <3>1. PICK c \in m.comments : c.author \notin m.known
      BY <1>7
    <3>2. c.author \in Users
      BY <1>2 DEF Comment
    <3>3. c.author \in Users \ {u} /\ c.author \notin known
      BY <1>4, <3>1, <3>2 DEF Listing
    <3>4. QED
      BY <1>1, <2>1, <3>3 DEF Blamed
  <2>4. Departed(u)'
    <3>1. BringsNone(u)
      BY <1>7, EndsSilently DEF IInv
    <3>2. ~ Parts(u)'
      BY <1>4, <3>1 DEF Parts, BringsNone
    <3>3. QED
      BY <1>1, <1>4, <3>2 DEF Departed
  <2>5. Members(u)'
    BY <1>1, <1>4, <1>5, <2>1 DEF Members, Listing
  <2>6. ASSUME NEW v \in Users PROVE Shown(v)'
    <3>1. CASE v = u
      BY <2>1, <3>1 DEF Shown
    <3>2. CASE v # u
      <4>1. Shown(v)
        BY DEF CauseInv
      <4>2. QED
        BY <1>1, <1>5, <2>1, <3>2, <4>1 DEF Shown
    <3>3. QED
      BY <3>1, <3>2
  <2>7. QED
    BY <1>5, <2>2, <2>3, <2>4, <2>5, <2>6 DEF CauseInv
<1>8. QED
  BY <1>1, <1>6, <1>7

-----------------------------------------------------------------------------
\* Every step keeps it.
LEMMA CauseStep ==
  ASSUME IInv, CauseInv, [Next]_vars
  PROVE  CauseInv'
<1>1. ASSUME NEW u \in Users, Works(u)
      PROVE  CauseInv'
  <2>1. CASE \E S \in Ranges, f \in Formats : Format(u, S, f)
    BY <2>1, FormatCause
  <2>2. CASE \E gone \in SUBSET text[u], new \in kSubset(0, Symbols) \cup kSubset(1, Symbols) :
               Edit(u, gone, new)
    <3>1. kSubset(0, Symbols) \cup kSubset(1, Symbols) \subseteq SUBSET Symbols
      BY DEF kSubset
    <3>2. QED
      BY <2>2, <3>1, EditCause
  <2>3. CASE InsertComment(u)
    BY <2>3, InsertCommentCause
  <2>4. CASE \E c \in Own(u) : EditComment(u, c) \/ DeleteComment(u, c)
    BY <2>4, OwnCommentCause
  <2>5. CASE Open(u) \/ Close(u) \/ DropLink(u)
    BY <2>5, VisitCause
  <2>6. CASE Highlight(u)
    BY <2>6, HighlightCause
  <2>7. QED
    BY <1>1, <2>1, <2>2, <2>3, <2>4, <2>5, <2>6 DEF Works
<1>2. ASSUME NEW u \in Users, ServerReceives(u)
      PROVE  CauseInv'
  BY <1>2, ServerGetCause, ServerCloseCause, ServerRemoveCause, RelayCause DEF ServerReceives
<1>3. ASSUME NEW u \in Users, ClientReceives(u)
      PROVE  CauseInv'
  BY <1>3, ClientFileCause, ClientUpdateCause, ClientWriteCause, ClientCommentCause
  DEF ClientReceives
<1>4. QED
  BY <1>1, <1>2, <1>3, QuietCause DEF Next

\* It holds at the start.
LEMMA InitCause ==
  ASSUME Init
  PROVE  CauseInv
<1>1. widget \in [Users -> [Symbols -> Formats]]
  BY TextAssumption DEF Init
<1>2. ASSUME NEW u \in Users PROVE Departed(u) /\ Members(u) /\ Blamed(u) /\ Shown(u)
  <2>1. /\ up[u] = << >> /\ down[u] = << >> /\ known = Users /\ listed[u] = Users
        /\ window[u] \in {"open", "closed"}
        /\ \A s \in Symbols : widget[u][s] = Plain /\ mark[u][s].fmt = Plain
    BY DEF Init, Unchanged, Replicas
  <2>2. QED
    BY <2>1 DEF Departed, Parts, Members, Listing, Blamed, Shown
<1>3. QED
  BY <1>1, <1>2 DEF CauseInv

\* Whoever is not in the File's user map, or will leave it, has left or has ended
\* over what it is not made for, and no client lists fewer users than the map has.
THEOREM CauseInvariant == Spec => []CauseInv
<1>1. Init => CauseInv
  BY InitCause
<1>2. IInv /\ CauseInv /\ [Next]_vars => CauseInv'
  BY CauseStep
<1>3. QED
  BY <1>1, <1>2, Invariant, PTL DEF Spec

\* No exception ends a client but for one of the three causes: an edit while a
\* count is wrong, an update of deleted symbols, and an author who has dropped
\* the link to the file.
THEOREM ClientsEndByCause == Spec => []EndsOnlyByCause
<1>1. ASSUME CauseInv PROVE EndsOnlyByCause
  <2>1. ASSUME NEW u \in Users
        PROVE  /\ window[u] \in {"endedByEdit", "endedByUpdate"} => u \in hurt
               /\ window[u] \in {"endedByFile", "endedByHighlight"} =>
                     \E v \in Users \ {u} : window[v] = "left" \/ (v \in hurt /\ v \notin known)
               /\ window[u] # "endedByComment"
    <3>1. Blamed(u) /\ \A v \in Users : Departed(v)
      BY <1>1 DEF CauseInv
    <3>2. \A v \in Users : v \notin known => window[v] = "left" \/ v \in hurt
      BY <3>1 DEF Departed, Gone
    <3>3. QED
      BY <3>1, <3>2 DEF Blamed
  <2>2. QED
    BY <2>1 DEF EndsOnlyByCause
<1>2. QED
  BY <1>1, CauseInvariant, PTL

\* The text widget of an open editor shows every symbol in the format its File has
\* it in, until the editor takes an update of which its File refuses a part.
THEOREM WidgetsShowFiles == Spec => []WidgetShowsFile
<1>1. ASSUME IInv, CauseInv PROVE WidgetShowsFile
  <2>1. ASSUME NEW u \in Users \ drifted, window[u] = "open", NEW s \in text[u]
        PROVE  widget[u][s] = mark[u][s].fmt
    <3>1. s \in Symbols
      BY <1>1, Channels DEF IInv, TypeInv
    <3>2. Shown(u)
      BY <1>1 DEF CauseInv
    <3>3. QED
      BY <2>1, <3>1, <3>2 DEF Shown
  <2>2. QED
    BY <2>1 DEF WidgetShowsFile
<1>2. QED
  BY <1>1, Invariant, CauseInvariant, PTL

-----------------------------------------------------------------------------
(***************************************************************************)
(* The paragraph of every line. Unless somebody has miscounted, every line   *)
(* break has a paragraph of its own (given), and every File has, besides the *)
(* first paragraph, those of the line breaks of its text: as the messages    *)
(* have that bring or delete the line breaks.                                *)
(***************************************************************************)
FirstPar ==
  CHOOSE p \in InitialPars : /\ InitialPars = {p} \cup {ParOf[b] : b \in InitialText \cap Breaks}
                             /\ \A b \in InitialText \cap Breaks : p < ParOf[b]
Each(f, S) == {f[x] : x \in S}
Begun(S) == Each(given, S \cap Breaks)
FitsEdit(S, P) == S \subseteq typed /\ P = Begun(S)
FitsFile(T, P) == T \subseteq typed /\ P = {FirstPar} \cup Begun(T)
FitsMsg(m) ==
  /\ m.type \in {"ins", "del"} => FitsEdit(m.syms, m.pars)
  /\ m.type = "file" => FitsFile(m.text, m.pars)

Numbers ==
  /\ typed \in SUBSET Symbols /\ FirstPar \in made
  /\ \A b \in typed \cap Breaks : given[b] \in made /\ FirstPar < given[b]
  /\ \A b, c \in typed \cap Breaks : given[b] = given[c] => b = c
Lined ==
  /\ Numbers
  /\ \A r \in Replicas : FitsFile(text[r], pars[r])
  /\ \A u \in Users : /\ \A i \in DOMAIN up[u] : FitsMsg(up[u][i])
                      /\ \A i \in DOMAIN down[u] : FitsMsg(down[u][i])
LineInv == ~ miscounted => Lined

\* A step that types nothing.
Steady == typed' = typed /\ made' = made /\ given' = given /\ miscounted' = miscounted
Bears(v) == \E N, D : /\ UpFrom(v, N) /\ DownFrom(v, D)
                      /\ \A m \in N \cup D : FitsMsg(m)

\* While nothing is typed, what fitted before fits still.
LEMMA SteadyStep ==
  ASSUME Lined, Steady, \A r \in Replicas : FitsFile(text'[r], pars'[r]), \A v \in Users : Bears(v)
  PROVE  Lined'
<1>1. Numbers'
  BY DEF Lined, Numbers, Steady
<1>2. ASSUME NEW r \in Replicas PROVE FitsFile(text[r], pars[r])'
  BY DEF FitsFile, Begun, Each, Steady
<1>3. ASSUME NEW v \in Users
      PROVE  /\ \A i \in DOMAIN up'[v] : FitsMsg(up'[v][i])
             /\ \A i \in DOMAIN down'[v] : FitsMsg(down'[v][i])
  <2>1. PICK N, D : UpFrom(v, N) /\ DownFrom(v, D) /\ \A m \in N \cup D : FitsMsg(m)
    BY DEF Bears
  <2>2. /\ \A i \in DOMAIN up[v] : FitsMsg(up[v][i])
        /\ \A i \in DOMAIN down[v] : FitsMsg(down[v][i])
    BY DEF Lined
  <2>3. QED
    BY <2>1, <2>2 DEF UpFrom, DownFrom
<1>4. ASSUME NEW m, FitsMsg(m) PROVE FitsMsg(m)'
  BY <1>4 DEF FitsMsg, FitsEdit, FitsFile, Begun, Each, Steady
<1>5. ASSUME NEW v \in Users
      PROVE  /\ \A i \in DOMAIN up'[v] : FitsMsg(up[v][i])'
             /\ \A i \in DOMAIN down'[v] : FitsMsg(down[v][i])'
  BY <1>3, <1>4
<1>6. QED
  BY <1>1, <1>2, <1>5 DEF Lined

\* Messages without text.
LEMMA BlankFits ==
  ASSUME NEW m, m.type \notin {"ins", "del", "file"}
  PROVE  FitsMsg(m)
  BY DEF FitsMsg

\* A step that changes no File's text or paragraphs.
LEMMA StillLined ==
  ASSUME LineInv, Steady, text' = text, pars' = pars, \A v \in Users : Bears(v)
  PROVE  LineInv'
<1>1. SUFFICES ASSUME ~ miscounted' PROVE Lined'
  BY DEF LineInv
<1>2. Lined
  BY <1>1 DEF LineInv, Steady
<1>3. \A r \in Replicas : FitsFile(text'[r], pars'[r])
  BY <1>2 DEF Lined
<1>4. QED
  BY <1>2, <1>3, SteadyStep

\* One message is sent up.
LEMMA SendBears ==
  ASSUME TypeInv, NEW u \in Users, NEW m \in UpMsg, FitsMsg(m), SendUp(u, <<m>>), down' = down,
         NEW v \in Users
  PROVE  Bears(v)
<1>1. PICK msgs : msgs = <<m>>
  OBVIOUS
<1>2. msgs \in Seq(UpMsg) /\ Len(msgs) = 1 /\ msgs[1] = m
  BY <1>1
<1>3. PICK N : N = {m}
  OBVIOUS
<1>4. \A k \in 1 .. Len(msgs) : msgs[k] \in N
  BY <1>2, <1>3
<1>5. UpFrom(v, N)
  BY <1>1, <1>2, <1>4, SendFlows
<1>6. DownFrom(v, {})
  BY SameFlows
<1>7. QED
  BY <1>3, <1>5, <1>6 DEF Bears

\* A client ends that has written nothing.
LEMMA EndsBears ==
  ASSUME TypeInv, NEW u \in Users, NEW how, Ends(u, how, up[u]), NEW v \in Users
  PROVE  Bears(v)
<1>1. PICK N : N = {CloseMsg}
  OBVIOUS
<1>2. UpFrom(v, N) /\ DownFrom(v, {})
  BY <1>1, EndsAlone
<1>3. \A m \in N : FitsMsg(m)
  BY <1>1, BlankFits DEF CloseMsg
<1>4. QED
  BY <1>2, <1>3 DEF Bears

\* The server, or an editor, takes a message, and neither writes.
LEMMA TakingBears ==
  ASSUME TypeInv, NEW u \in Users,
         \/ up' = up
         \/ up[u] # << >> /\ Consume(u),
         \/ down' = down
         \/ down[u] # << >> /\ Drop(u),
         NEW v \in Users
  PROVE  Bears(v)
<1>1. UpFrom(v, {})
  BY SameFlows, ConsumeWithin DEF UpFrom
<1>2. DownFrom(v, {})
  BY SameFlows, DropWithin DEF DownFrom
<1>3. QED
  BY <1>1, <1>2 DEF Bears

\* The server takes a message and passes it on.
LEMMA RelayBears ==
  ASSUME TypeInv, NEW u \in Users, up[u] # << >>, IsEdit(Head(up[u])), FitsMsg(Head(up[u])),
         Relay(u), Consume(u), NEW v \in Users
  PROVE  Bears(v)
<1>1. Named(u, Head(up[u])) \in DownMsg /\ SameEdit(Named(u, Head(up[u])), Head(up[u]))
  <2>1. Head(up[u]) = up[u][1] /\ up[u][1] \in UpMsg
    BY Channels, TailFacts
  <2>2. QED
    BY <2>1, NamedMessage
<1>2. PICK n : n = Named(u, Head(up[u]))
  OBVIOUS
<1>3. PICK D : D = {n}
  OBVIOUS
<1>4. UpFrom(v, {}) /\ DownFrom(v, D)
  BY <1>1, <1>2, <1>3, RelayFlows
<1>5. FitsMsg(n)
  BY <1>1, <1>2 DEF SameEdit, IsEdit, FitsMsg
<1>6. QED
  BY <1>3, <1>4, <1>5 DEF Bears

\* A change of formats, and of comments.
LEMMA FormatLined ==
  ASSUME IInv, LineInv, NEW u \in Users, NEW S, NEW f \in Formats, Format(u, S, f)
  PROVE  LineInv'
<1>1. /\ Steady /\ text' = text /\ pars' = pars /\ down' = down
  BY DEF Format, Steady
<1>2. PICK t \in now .. Min({now + 1, MaxClock}) :
         SendUp(u, <<Upd({s \in S : mark[u][s].fmt # f}, f, t)>>)
  BY DEF Format
<1>3. PICK m : m = Upd({s \in S : mark[u][s].fmt # f}, f, t)
  OBVIOUS
<1>4. m \in UpMsg /\ m.type = "upd"
  <2>1. {s \in S : mark[u][s].fmt # f} \subseteq Symbols
    BY Channels DEF Format, IInv, TypeInv
  <2>2. t \in Nat
    <3>1. now \in Nat
      BY DEF IInv, TypeInv
    <3>2. QED
      BY <1>2, <3>1
  <2>3. QED
    BY <1>3, <2>1, <2>2 DEF Upd, UpMsg
<1>5. FitsMsg(m)
  BY <1>4, BlankFits
<1>6. ASSUME NEW v \in Users PROVE Bears(v)
  BY <1>1, <1>2, <1>3, <1>4, <1>5, SendBears DEF IInv
<1>7. QED
  BY <1>1, <1>6, StillLined

\* A new comment.
LEMMA InsertCommentLined ==
  ASSUME IInv, LineInv, NEW u \in Users, InsertComment(u)
  PROVE  LineInv'
<1>1. PICK c : c = [author |-> u, no |-> lastNo[u] + 1, words |-> "first"]
  OBVIOUS
<1>2. PICK m : m = Com("new", c)
  OBVIOUS
<1>3. m \in UpMsg /\ m.type = "new"
  <2>1. lastNo[u] + 1 \in Nat
    BY DEF IInv, TypeInv
  <2>2. c \in Comment
    BY <1>1, <2>1 DEF Comment
  <2>3. QED
    BY <1>2, <2>2 DEF UpMsg, Com
<1>4. /\ Steady /\ text' = text /\ pars' = pars /\ down' = down /\ SendUp(u, <<m>>)
  BY <1>1, <1>2 DEF InsertComment, Steady, history
<1>5. FitsMsg(m)
  BY <1>3, BlankFits
<1>6. ASSUME NEW v \in Users PROVE Bears(v)
  BY <1>3, <1>4, <1>5, SendBears DEF IInv
<1>7. QED
  BY <1>4, <1>6, StillLined

\* A change or a deletion of a comment.
LEMMA OwnCommentLined ==
  ASSUME IInv, LineInv, NEW u \in Users, NEW c \in Own(u), EditComment(u, c) \/ DeleteComment(u, c)
  PROVE  LineInv'
<1>1. c \in Comment
  BY Channels DEF Own, IInv, TypeInv
<1>2. PICK d : d = [c EXCEPT !.words = "later"]
  OBVIOUS
<1>3. d \in Comment
  BY <1>1, <1>2 DEF Comment
<1>4. PICK m : m = (IF EditComment(u, c) THEN Com("words", d) ELSE Com("erase", c))
  OBVIOUS
<1>5. m \in UpMsg /\ m.type \in {"words", "erase"}
  BY <1>1, <1>3, <1>4 DEF UpMsg, Com
<1>6. /\ Steady /\ text' = text /\ pars' = pars /\ down' = down /\ SendUp(u, <<m>>)
  BY <1>2, <1>4 DEF EditComment, DeleteComment, Steady, history
<1>7. FitsMsg(m)
  BY <1>5, BlankFits
<1>8. ASSUME NEW v \in Users PROVE Bears(v)
  BY <1>5, <1>6, <1>7, SendBears DEF IInv
<1>9. QED
  BY <1>6, <1>8, StillLined

\* A user's coming and going.
LEMMA VisitLined ==
  ASSUME IInv, LineInv, NEW u \in Users, Open(u) \/ Close(u) \/ DropLink(u)
  PROVE  LineInv'
<1>1. Steady /\ text' = text /\ pars' = pars /\ down' = down
  BY DEF Open, Close, DropLink, Leave, Steady, file, history
<1>2. PICK m : m \in {Get, CloseMsg, RemoveMsg} /\ SendUp(u, <<m>>)
  BY DEF Open, Close, DropLink, Leave
<1>3. m \in UpMsg /\ m.type \in {"get", "close", "remove"}
  BY <1>2 DEF Get, CloseMsg, RemoveMsg, UpMsg
<1>4. FitsMsg(m)
  BY <1>3, BlankFits
<1>5. ASSUME NEW v \in Users PROVE Bears(v)
  BY <1>1, <1>2, <1>3, <1>4, SendBears DEF IInv
<1>6. QED
  BY <1>1, <1>5, StillLined

\* The steps that write nothing, or end a client that has written nothing, and
\* change no text.
LEMMA TakingLined ==
  ASSUME IInv, LineInv, NEW u \in Users,
         \/ Highlight(u) \/ ServerClose(u) \/ ServerRemove(u)
         \/ ClientUpdate(u) \/ ClientComment(u)
  PROVE  LineInv'
<1>1. /\ Steady /\ text' = text /\ pars' = pars
      /\ \/ up[u] # << >> /\ Consume(u) /\ down' = down
         \/ down[u] # << >> /\ Drop(u) /\ up' = up
         \/ \E how : Ends(u, how, up[u])
  BY DEF Highlight, ServerClose, ServerRemove, ClientUpdate, ClientComment, Received, Arrived,
         Steady, file, history
<1>2. ASSUME NEW v \in Users PROVE Bears(v)
  BY <1>1, TakingBears, EndsBears DEF IInv
<1>3. QED
  BY <1>1, <1>2, StillLined

\* The map of open files, and time.
LEMMA QuietLined ==
  ASSUME IInv, LineInv, Reload \/ Tick \/ UNCHANGED vars
  PROVE  LineInv'
<1>1. Steady /\ text' = text /\ pars' = pars /\ up' = up /\ down' = down
  <2>1. CASE Reload
    BY <2>1 DEF Reload, Steady, channels
  <2>2. CASE Tick
    BY <2>2 DEF Tick, Steady, file, channels, history
  <2>3. CASE UNCHANGED vars
    BY <2>3 DEF vars, Steady, file, channels, history
  <2>4. QED
    BY <2>1, <2>2, <2>3
<1>2. ASSUME NEW v \in Users PROVE Bears(v)
  BY <1>1, TakingBears DEF IInv
<1>3. QED
  BY <1>1, <1>2, StillLined

\* The first message of a channel fits, as all do.
LEMMA FirstFits ==
  ASSUME IInv, Lined, NEW u \in Users
  PROVE  /\ up[u] # << >> => FitsMsg(Head(up[u])) /\ Head(up[u]) \in UpMsg
         /\ down[u] # << >> => FitsMsg(Head(down[u])) /\ Head(down[u]) \in DownMsg
<1>1. up[u] # << >> => Head(up[u]) = up[u][1] /\ 1 \in DOMAIN up[u] /\ up[u][1] \in UpMsg
  BY Channels, TailFacts DEF IInv
<1>2. down[u] # << >> => Head(down[u]) = down[u][1] /\ 1 \in DOMAIN down[u] /\ down[u][1] \in DownMsg
  BY Channels, TailFacts DEF IInv
<1>3. QED
  BY <1>1, <1>2 DEF Lined

\* What an insertion or a deletion makes of a File that fits.
LEMMA FitsInserted ==
  ASSUME NEW T, NEW P, NEW m, FitsFile(T, P), FitsMsg(m), m.type = "ins"
  PROVE  FitsFile(T \cup m.syms, P \cup m.pars)
<1>1. Begun(T \cup m.syms) = Begun(T) \cup Begun(m.syms)
  BY DEF Begun, Each
<1>2. QED
  BY <1>1 DEF FitsFile, FitsMsg, FitsEdit

\* Each line break has its own paragraph.
LEMMA BegunWithout ==
  ASSUME TypeInv, Numbers, NEW T, NEW S, T \subseteq typed, S \subseteq typed
  PROVE  ({FirstPar} \cup Begun(T)) \ Begun(S) = {FirstPar} \cup Begun(T \ S)
<1>1. FirstPar \notin Begun(S)
  <2>1. SUFFICES ASSUME NEW b \in S \cap Breaks, given[b] = FirstPar PROVE FALSE
    BY DEF Begun, Each
  <2>2. FirstPar < FirstPar /\ FirstPar \in made
    BY <2>1 DEF Numbers
  <2>3. FirstPar \in Nat
    BY <2>2, TextAssumption DEF TypeInv
  <2>4. QED
    BY <2>2, <2>3
<1>2. ASSUME NEW b \in T \cap Breaks, b \notin S PROVE given[b] \notin Begun(S)
  BY <1>2 DEF Begun, Each, Numbers
<1>3. QED
  BY <1>1, <1>2 DEF Begun, Each

\* A deletion takes the paragraphs of the line breaks it takes.
LEMMA FitsDeleted ==
  ASSUME TypeInv, Numbers, NEW T, NEW P, NEW m, FitsFile(T, P), FitsMsg(m), m.type = "del"
  PROVE  FitsFile(T \ m.syms, P \ m.pars)
<1>1. m.syms \subseteq typed /\ m.pars = Begun(m.syms)
      /\ T \subseteq typed /\ P = {FirstPar} \cup Begun(T)
  BY DEF FitsFile, FitsMsg, FitsEdit
<1>2. PICK S : S = m.syms
  OBVIOUS
<1>3. P \ Begun(S) = {FirstPar} \cup Begun(T \ S)
  BY <1>1, <1>2, BegunWithout
<1>4. QED
  BY <1>1, <1>2, <1>3 DEF FitsFile

\* A replica r whose lists become T and P, while the others stay.
LEMMA OneFits ==
  ASSUME TypeInv, Lined, NEW r \in Replicas, NEW T, NEW P, FitsFile(T, P),
         text' = [text EXCEPT ![r] = T], pars' = [pars EXCEPT ![r] = P],
         Steady, \A v \in Users : Bears(v)
  PROVE  Lined'
<1>1. ASSUME NEW q \in Replicas PROVE FitsFile(text'[q], pars'[q])
  <2>1. CASE q = r
    <3>1. text'[q] = T /\ pars'[q] = P
      BY <2>1 DEF TypeInv
    <3>2. QED
      BY <3>1
  <2>2. CASE q # r
    <3>1. text'[q] = text[q] /\ pars'[q] = pars[q]
      BY <2>2 DEF TypeInv
    <3>2. QED
      BY <3>1 DEF Lined
  <2>3. QED
    BY <2>1, <2>2
<1>2. QED
  BY <1>1, SteadyStep

\* The server's handlers of edits.
LEMMA RelayLined ==
  ASSUME IInv, LineInv, NEW u \in Users,
         ServerUpdate(u) \/ ServerInsert(u) \/ ServerDelete(u) \/ ServerComment(u)
  PROVE  LineInv'
<1>1. /\ up[u] # << >> /\ IsEdit(Head(up[u])) /\ Relay(u) /\ Consume(u) /\ Steady
  BY DEF ServerUpdate, ServerInsert, ServerDelete, ServerComment, ReceivedComment, Received, IsEdit,
         Steady, history
<1>2. SUFFICES ASSUME ~ miscounted' PROVE Lined'
  BY DEF LineInv
<1>3. Lined /\ Numbers /\ TypeInv /\ Server \in Replicas
  BY <1>1, <1>2, Channels DEF LineInv, Steady, Lined, IInv
<1>4. FitsMsg(Head(up[u]))
  BY <1>1, <1>3, FirstFits
<1>5. ASSUME NEW v \in Users PROVE Bears(v)
  BY <1>1, <1>3, <1>4, RelayBears
<1>6. PICK m : m = Head(up[u])
  OBVIOUS
<1>7. FitsFile(text[Server], pars[Server])
  BY <1>3 DEF Lined
<1>8. CASE ServerUpdate(u) \/ ServerComment(u)
  <2>1. text' = text /\ pars' = pars
    BY <1>8 DEF ServerUpdate, ServerComment
  <2>2. QED
    BY <1>1, <1>5, <1>2, <2>1, StillLined DEF LineInv
<1>9. CASE ServerInsert(u)
  <2>1. /\ m.type = "ins"
        /\ text' = [text EXCEPT ![Server] = text[Server] \cup m.syms]
        /\ pars' = [pars EXCEPT ![Server] = pars[Server] \cup m.pars]
    BY <1>6, <1>9 DEF ServerInsert, Received
  <2>2. FitsFile(text[Server] \cup m.syms, pars[Server] \cup m.pars)
    BY <1>4, <1>6, <1>7, <2>1, FitsInserted
  <2>3. QED
    BY <1>1, <1>3, <1>5, <2>1, <2>2, OneFits
<1>10. CASE ServerDelete(u)
  <2>1. /\ m.type = "del"
        /\ text' = [text EXCEPT ![Server] = text[Server] \ m.syms]
        /\ pars' = [pars EXCEPT ![Server] = pars[Server] \ m.pars]
    BY <1>6, <1>10 DEF ServerDelete, Received
  <2>2. FitsFile(text[Server] \ m.syms, pars[Server] \ m.pars)
    BY <1>3, <1>4, <1>6, <1>7, <2>1, FitsDeleted
  <2>3. QED
    BY <1>1, <1>3, <1>5, <2>1, <2>2, OneFits
<1>11. QED
  BY <1>8, <1>9, <1>10

\* The editors' handlers of edits.
LEMMA ClientWriteLined ==
  ASSUME IInv, LineInv, NEW u \in Users, ClientInsert(u) \/ ClientDelete(u)
  PROVE  LineInv'
<1>1. down[u] # << >> /\ Drop(u) /\ up' = up /\ Steady
  BY DEF ClientInsert, ClientDelete, Arrived, Steady, history
<1>2. SUFFICES ASSUME ~ miscounted' PROVE Lined'
  BY DEF LineInv
<1>3. Lined /\ Numbers /\ TypeInv /\ u \in Replicas
  BY <1>1, <1>2, Channels DEF LineInv, Steady, Lined, IInv
<1>4. FitsMsg(Head(down[u])) /\ FitsFile(text[u], pars[u])
  BY <1>1, <1>3, FirstFits DEF Lined
<1>5. ASSUME NEW v \in Users PROVE Bears(v)
  BY <1>1, <1>3, TakingBears
<1>6. PICK m : m = Head(down[u])
  OBVIOUS
<1>7. CASE ClientInsert(u)
  <2>1. /\ m.type = "ins"
        /\ text' = [text EXCEPT ![u] = text[u] \cup m.syms]
        /\ pars' = [pars EXCEPT ![u] = pars[u] \cup m.pars]
    BY <1>6, <1>7 DEF ClientInsert, Arrived
  <2>2. FitsFile(text[u] \cup m.syms, pars[u] \cup m.pars)
    BY <1>4, <1>6, <2>1, FitsInserted
  <2>3. QED
    BY <1>1, <1>3, <1>5, <2>1, <2>2, OneFits
<1>8. CASE ClientDelete(u)
  <2>1. /\ m.type = "del"
        /\ text' = [text EXCEPT ![u] = text[u] \ m.syms]
        /\ pars' = [pars EXCEPT ![u] = pars[u] \ m.pars]
    BY <1>6, <1>8 DEF ClientDelete, Arrived
  <2>2. FitsFile(text[u] \ m.syms, pars[u] \ m.pars)
    BY <1>3, <1>4, <1>6, <2>1, FitsDeleted
  <2>3. QED
    BY <1>1, <1>3, <1>5, <2>1, <2>2, OneFits
<1>9. QED
  BY <1>7, <1>8

\* The file the server sends fits as its own does.
LEMMA ServerGetLined ==
  ASSUME IInv, LineInv, NEW u \in Users, ServerGet(u)
  PROVE  LineInv'
<1>1. up[u] # << >> /\ Consume(u) /\ Steady /\ text' = text /\ pars' = pars
  BY DEF ServerGet, Received, Steady, file
<1>2. SUFFICES ASSUME ~ miscounted' PROVE Lined'
  BY DEF LineInv
<1>3. Lined /\ TypeInv
  BY <1>1, <1>2 DEF LineInv, Steady, IInv
<1>4. PICK m : /\ m.type = "file" /\ m.text = text[Server] /\ m.pars = pars[Server] /\ m \in DownMsg
               /\ down' = [down EXCEPT ![u] = IF Ended(u) THEN @ ELSE Append(@, m)]
  <2>1. PICK n : /\ n = [type |-> "file", text |-> text[Server], pars |-> pars[Server],
                         fmts |-> [s \in Symbols |-> mark[Server][s].fmt],
                         comments |-> comments[Server], known |-> known']
                 /\ down' = [down EXCEPT ![u] = IF Ended(u) THEN @ ELSE Append(@, n)]
                 /\ known' = known \cup {u}
    BY DEF ServerGet
  <2>2. n \in DownMsg
    <3>1. [s \in Symbols |-> mark[Server][s].fmt] \in [Symbols -> Formats]
      BY Channels DEF IInv, TypeInv, Marks
    <3>2. /\ text[Server] \in SUBSET Symbols /\ pars[Server] \in SUBSET Paragraphs
          /\ comments[Server] \in SUBSET Comment /\ known' \in SUBSET Users
      BY <2>1, Channels DEF IInv, TypeInv
    <3>3. QED
      BY <2>1, <3>1, <3>2 DEF DownMsg
  <2>3. n.type = "file" /\ n.text = text[Server] /\ n.pars = pars[Server]
    BY <2>1
  <2>4. QED
    BY <2>1, <2>2, <2>3
<1>5. FitsMsg(m)
  <2>1. FitsFile(text[Server], pars[Server])
    BY <1>3, Channels DEF Lined, IInv
  <2>2. QED
    BY <1>4, <2>1 DEF FitsMsg
<1>6. ASSUME NEW v \in Users PROVE Bears(v)
  <2>1. UpFrom(v, {})
    BY <1>1, <1>3, ConsumeWithin DEF UpFrom
  <2>2. PICK D : D = {m}
    OBVIOUS
  <2>3. DownFrom(v, D)
    <3>1. /\ down[v] \in Seq(DownMsg) /\ Len(down[v]) \in Nat /\ DOMAIN down[v] = 1 .. Len(down[v])
          /\ down'[v] = down[v] \/ down'[v] = Append(down[v], m)
      BY <1>3, <1>4, Channels DEF TypeInv
    <3>2. CASE down'[v] = down[v]
      BY <3>2, SameFlows
    <3>3. CASE down'[v] = Append(down[v], m)
      <4>1. IsAppend(down'[v], down[v], m) /\ DOMAIN down'[v] = 1 .. (Len(down[v]) + 1)
        BY <1>4, <3>1, <3>3, AppendFacts
      <4>2. ASSUME NEW i \in DOMAIN down'[v] PROVE i = Len(down[v]) + 1 \/ i \in DOMAIN down[v]
        BY <3>1, <4>1
      <4>3. QED
        BY <2>2, <3>1, <4>1, <4>2 DEF IsAppend, DownFrom
    <3>4. QED
      BY <3>1, <3>2, <3>3
  <2>4. QED
    BY <1>5, <2>1, <2>2, <2>3 DEF Bears
<1>7. QED
  BY <1>1, <1>2, <1>6, StillLined DEF LineInv

\* The file an editor gets becomes its own, also if a comment then ends the client.
LEMMA ClientFileLined ==
  ASSUME IInv, LineInv, NEW u \in Users, ClientFile(u)
  PROVE  LineInv'
<1>1. PICK m : /\ m = Head(down[u]) /\ m.type = "file" /\ down[u] # << >>
               /\ text' = [text EXCEPT ![u] = m.text] /\ pars' = [pars EXCEPT ![u] = m.pars]
               /\ (Drop(u) /\ up' = up) \/ Ends(u, "endedByFile", up[u])
               /\ Steady
  BY DEF ClientFile, Arrived, Steady
<1>2. SUFFICES ASSUME ~ miscounted' PROVE Lined'
  BY DEF LineInv
<1>3. Lined /\ TypeInv /\ u \in Replicas
  BY <1>1, <1>2, Channels DEF LineInv, Steady, IInv
<1>4. FitsFile(m.text, m.pars)
  <2>1. FitsMsg(m)
    BY <1>1, <1>3, FirstFits
  <2>2. QED
    BY <1>1, <2>1 DEF FitsMsg
<1>5. ASSUME NEW v \in Users PROVE Bears(v)
  BY <1>1, <1>3, TakingBears, EndsBears
<1>6. QED
  BY <1>1, <1>3, <1>4, <1>5, OneFits

-----------------------------------------------------------------------------
\* One element, and one for each element of a set.
LEMMA OneMore ==
  ASSUME NEW S, IsFiniteSet(S), NEW f, \A x, y \in S : f[x] = f[y] => x = y,
         NEW p, \A x \in S : f[x] # p
  PROVE  Cardinality({p} \cup Each(f, S)) = 1 + Cardinality(S)
<1>. DEFINE T == Each(f, S)
            g == [x \in S |-> f[x]]
<1>1. g \in Surjection(S, T) /\ g \in Injection(S, T)
  BY DEF Surjection, Injection, IsInjective, Each
<1>. HIDE DEF g, T
<1>2. IsFiniteSet(T) /\ Cardinality(T) = Cardinality(S)
  BY <1>1, FS_Surjection
<1>3. p \notin T
  BY DEF T, Each
<1>4. Cardinality(T \cup {p}) = Cardinality(T) + 1
  BY <1>2, <1>3, FS_AddElement
<1>5. T \cup {p} = {p} \cup T
  OBVIOUS
<1>6. Cardinality(S) \in Nat
  BY FS_CardinalityType
<1>7. PICK n \in Nat : n = Cardinality(S)
  BY <1>6
<1>8. Cardinality(T \cup {p}) = n + 1 /\ n + 1 = 1 + n
  BY <1>2, <1>4, <1>7
<1>9. QED
  BY <1>5, <1>7, <1>8, Zenon DEF T

\* Begun(S) with the paragraph of each line break of S.
LEMMA BegunSize ==
  ASSUME TypeInv, Numbers, NEW S, S \subseteq typed
  PROVE  Cardinality({FirstPar} \cup Begun(S)) = 1 + Cardinality(S \cap Breaks)
<1>. DEFINE B == S \cap Breaks
<1>1. IsFiniteSet(B)
  <2>1. B \in SUBSET Symbols
    BY DEF Numbers
  <2>2. QED
    BY <2>1, TextAssumption, FS_Subset
<1>2. /\ \A x, y \in B : given[x] = given[y] => x = y
      /\ \A x \in B : FirstPar < given[x] /\ given[x] \in made /\ FirstPar \in made
  BY DEF Numbers
<1>3. \A x \in B : given[x] # FirstPar
  <2>1. \A q \in made : q \in Nat
    BY TextAssumption DEF TypeInv
  <2>2. \A q \in Nat : ~ (q < q)
    OBVIOUS
  <2>. HIDE DEF B
  <2>3. QED
    BY <1>2, <2>1, <2>2
<1>4. Begun(S) = Each(given, B)
  BY DEF Begun
<1>. HIDE DEF B
<1>5. Cardinality({FirstPar} \cup Each(given, B)) = 1 + Cardinality(B)
  BY <1>1, <1>2, <1>3, OneMore
<1>6. QED
  BY <1>4, <1>5 DEF B

\* A File that fits has one paragraph for each line.
LEMMA FileLines ==
  ASSUME TypeInv, Numbers, NEW T, NEW P, FitsFile(T, P)
  PROVE  Cardinality(P) = Lines(T)
<1>1. T \subseteq typed /\ P = {FirstPar} \cup Begun(T)
  BY DEF FitsFile
<1>2. QED
  BY <1>1, BegunSize DEF Lines

\* The elements G of B have no other between them: line of the others are below
\* k, the rest above G.
Gap(B, G, k, line) ==
  /\ k \in Nat /\ \A y \in G : k <= y
  /\ \A x \in B \ G : x < k \/ \A y \in G : y < x
  /\ line = Cardinality({x \in B \ G : x < k})

\* Their ranks follow each other.
LEMMA GapRanks ==
  ASSUME NEW B \in SUBSET Nat, IsFiniteSet(B), NEW G \in SUBSET B, NEW k, NEW line,
         Gap(B, G, k, line)
  PROVE  /\ line \in Nat /\ Cardinality(G) \in Nat
         /\ \A x \in B : x \in G <=> Rank(B, x) \in (line + 1) .. (line + Cardinality(G))
<1>. DEFINE L == {x \in B \ G : x < k}
            n == Cardinality(G)
<1>0. /\ k \in Nat /\ \A y \in G : k <= y
      /\ \A x \in B \ G : x < k \/ \A y \in G : y < x
      /\ line = Cardinality(L)
  BY DEF Gap
<1>1. /\ IsFiniteSet(L) /\ IsFiniteSet(G) /\ line \in Nat /\ n \in Nat /\ line = Cardinality(L)
  <2>1. L \in SUBSET B
    OBVIOUS
  <2>2. IsFiniteSet(L) /\ IsFiniteSet(G)
    BY <2>1, FS_Subset
  <2>3. QED
    BY <1>0, <2>2, FS_CardinalityType
<1>2. IsFiniteSet(L \cup G) /\ Cardinality(L \cup G) = line + n
  <2>1. L \cap G = {}
    OBVIOUS
  <2>. HIDE DEF L
  <2>2. /\ IsFiniteSet(L \cup G)
        /\ Cardinality(L \cup G) = Cardinality(L) + Cardinality(G) - Cardinality(L \cap G)
    BY <1>1, FS_Union
  <2>3. Cardinality(L \cap G) = 0
    BY <2>1, FS_EmptySet
  <2>4. Cardinality(L) + Cardinality(G) - 0 = line + n
    BY <1>1
  <2>. HIDE DEF n
  <2>5. QED
    BY <2>2, <2>3, <2>4
<1>3. ASSUME NEW b \in B
      PROVE  b \in G <=> Rank(B, b) \in (line + 1) .. (line + n)
  <2>. DEFINE U == {y \in B : y <= b}
              c == Cardinality(U)
  <2>1. Rank(B, b) = c
    BY DEF Rank
  <2>2. IsFiniteSet(U) /\ c \in Nat
    <3>1. U \in SUBSET B
      OBVIOUS
    <3>. HIDE DEF U
    <3>2. QED
      BY <3>1, FS_Subset, FS_CardinalityType
  <2>0. b \in Nat /\ \A y \in B : y \in Nat
    OBVIOUS
  <2>3. ASSUME b < k PROVE b \notin G /\ c <= line
    <3>1. b \notin G
      BY <1>0, <2>0, <2>3
    <3>2. U \in SUBSET L
      <4>1. \A y \in B : y <= b => y < k
        BY <1>0, <2>0, <2>3
      <4>2. \A y \in B : y < k => y \notin G
        BY <1>0, <2>0
      <4>3. QED
        BY <4>1, <4>2
    <3>. HIDE DEF U, L
    <3>3. QED
      BY <1>1, <3>1, <3>2, FS_Subset
  <2>4. ASSUME b \in G PROVE c \in (line + 1) .. (line + n)
    <3>1. U \in SUBSET (L \cup G)
      <4>1. \A y \in B : y <= b => ~ (b < y)
        BY <1>0, <2>0
      <4>2. \A y \in B \ G : y <= b => y < k
        BY <1>0, <2>4, <4>1
      <4>3. QED
        BY <4>2
    <3>2. L \cup {b} \in SUBSET U /\ b \notin L
      <4>1. k <= b /\ b <= b
        BY <1>0, <2>0, <2>4
      <4>2. \A y \in B : y < k => y <= b
        BY <1>0, <2>0, <4>1
      <4>3. QED
        BY <2>4, <4>1, <4>2
    <3>. HIDE DEF U, L, n
    <3>3. c <= line + n
      BY <1>2, <3>1, FS_Subset
    <3>4. Cardinality(L \cup {b}) = line + 1
      BY <1>1, <3>2, FS_AddElement
    <3>5. line + 1 <= c
      BY <2>2, <3>2, <3>4, FS_Subset
    <3>. HIDE DEF c
    <3>6. QED
      BY <1>1, <2>2, <3>3, <3>5
  <2>5. ASSUME b \notin G, ~ (b < k) PROVE line + n + 1 <= c
    <3>1. \A y \in G : y < b
      BY <1>0, <2>5
    <3>2. (L \cup G) \cup {b} \in SUBSET U
      <4>1. \A y \in B : (y < b => y <= b) /\ (y < k => y <= b)
        BY <1>0, <2>0, <2>5
      <4>2. b <= b
        BY <1>0, <2>0
      <4>3. QED
        BY <3>1, <4>1, <4>2
    <3>3. b \notin L \cup G
      BY <2>5
    <3>. HIDE DEF U, L, n
    <3>4. Cardinality((L \cup G) \cup {b}) = (line + n) + 1
      BY <1>2, <3>3, FS_AddElement
    <3>5. QED
      BY <2>2, <3>2, <3>4, FS_Subset
  <2>. HIDE DEF c, n, U
  <2>6. b \in Nat
    OBVIOUS
  <2>7. QED
    BY <1>1, <2>1, <2>2, <2>3, <2>4, <2>5, <2>6
<1>4. QED
  BY <1>1, <1>3

\* Numbers for the elements of B, in their order, and a lower one.
InOrder(f, B, p) ==
  /\ p \in Nat /\ \A x \in B : f[x] \in Nat /\ p < f[x]
  /\ \A x, y \in B : x < y => f[x] < f[y]

\* The ranks of the paragraphs of line breaks that have them in their order.
LEMMA ParRanks ==
  ASSUME NEW B \in SUBSET Nat, IsFiniteSet(B), NEW f, NEW p, InOrder(f, B, p),
         NEW P, P = {p} \cup Each(f, B)
  PROVE  Rank(P, p) = 1 /\ \A x \in B : Rank(P, f[x]) = 1 + Rank(B, x)
<1>0. /\ p \in Nat /\ \A x \in B : f[x] \in Nat /\ p < f[x]
      /\ \A x, y \in B : x < y => f[x] < f[y]
  BY DEF InOrder
<1>1. \A x, y \in B : f[x] = f[y] => x = y
  <2>1. ASSUME NEW x \in B, NEW y \in B, f[x] = f[y] PROVE x = y
    <3>1. x \in Nat /\ y \in Nat /\ f[x] \in Nat /\ f[y] \in Nat
      BY <1>0
    <3>2. ~ (x < y) /\ ~ (y < x)
      BY <1>0, <2>1, <3>1
    <3>3. QED
      BY <3>1, <3>2
  <2>2. QED
    BY <2>1
<1>2. Rank(P, p) = 1
  <2>1. {y \in P : y <= p} = {p}
    <3>1. p <= p /\ \A x \in B : ~ (f[x] <= p)
      BY <1>0
    <3>2. QED
      BY <3>1 DEF Each
  <2>2. QED
    BY <2>1, FS_Singleton DEF Rank
<1>3. ASSUME NEW b \in B PROVE Rank(P, f[b]) = 1 + Rank(B, b)
  <2>. DEFINE U == {x \in B : x <= b}
  <2>1. \A x \in B : f[x] <= f[b] <=> x <= b
    <3>1. ASSUME NEW x \in B PROVE f[x] <= f[b] <=> x <= b
      <4>1. x \in Nat /\ b \in Nat /\ f[x] \in Nat /\ f[b] \in Nat
        BY <1>0
      <4>2. (x < b => f[x] < f[b]) /\ (b < x => f[b] < f[x]) /\ (x = b => f[x] = f[b])
        BY <1>0
      <4>3. QED
        BY <4>1, <4>2
    <3>2. QED
      BY <3>1
  <2>2. {y \in P : y <= f[b]} = {p} \cup Each(f, U)
    <3>1. p <= f[b] /\ p \in P
      <4>1. p < f[b] /\ f[b] \in Nat /\ p \in Nat
        BY <1>0
      <4>2. QED
        BY <4>1
    <3>2. QED
      BY <2>1, <3>1 DEF Each
  <2>3. IsFiniteSet(U)
    BY FS_Subset
  <2>4. /\ \A x, y \in U : f[x] = f[y] => x = y
        /\ \A x \in U : f[x] # p
    BY <1>0, <1>1
  <2>5. Rank(B, b) = Cardinality(U)
    BY DEF Rank
  <2>. HIDE DEF U
  <2>6. Cardinality({p} \cup Each(f, U)) = 1 + Cardinality(U)
    BY <2>3, <2>4, OneMore
  <2>7. QED
    BY <2>2, <2>5, <2>6 DEF Rank
<1>4. QED
  BY <1>2, <1>3

\* The segment of the paragraphs that goes with a gap in the line breaks has
\* those of the line breaks that are gone.
LEMMA GapSegment ==
  ASSUME NEW B \in SUBSET Nat, IsFiniteSet(B), NEW G \in SUBSET B, NEW k, NEW line,
         Gap(B, G, k, line),
         NEW f, NEW p, InOrder(f, B, p), NEW P, P = {p} \cup Each(f, B)
  PROVE  Segment(P, line + 1, Cardinality(G)) = Each(f, G)
<1>. DEFINE n == Cardinality(G)
<1>1. /\ line \in Nat /\ n \in Nat
      /\ \A x \in B : x \in G <=> Rank(B, x) \in (line + 1) .. (line + n)
  BY GapRanks
<1>2. Rank(P, p) = 1 /\ \A x \in B : Rank(P, f[x]) = 1 + Rank(B, x)
  BY ParRanks
<1>3. \A x \in B : Rank(B, x) \in Nat
  BY RankFacts
<1>. HIDE DEF n
<1>4. ASSUME NEW x \in B
      PROVE  Rank(P, f[x]) \in (line + 1 + 1) .. (line + 1 + n) <=> x \in G
  <2>1. PICK r \in Nat : r = Rank(B, x)
    BY <1>3
  <2>2. Rank(P, f[x]) = 1 + r /\ (x \in G <=> r \in (line + 1) .. (line + n))
    BY <1>1, <1>2, <2>1
  <2>3. QED
    BY <1>1, <2>2
<1>5. Rank(P, p) \notin (line + 1 + 1) .. (line + 1 + n)
  BY <1>1, <1>2
<1>6. Segment(P, line + 1, n) = {x \in P : Rank(P, x) \in (line + 1 + 1) .. (line + 1 + n)}
  BY DEF Segment
<1>7. ASSUME NEW y \in P
      PROVE  Rank(P, y) \in (line + 1 + 1) .. (line + 1 + n) <=> \E x \in G : y = f[x]
  <2>1. y = p \/ \E x \in B : y = f[x]
    BY DEF Each
  <2>2. CASE y = p
    <3>1. \A x \in G : p < f[x] /\ f[x] \in Nat /\ p \in Nat
      BY DEF InOrder
    <3>2. \A x \in G : p # f[x]
      BY <3>1
    <3>3. QED
      BY <1>5, <2>2, <3>2
  <2>3. ASSUME NEW x \in B, y = f[x]
        PROVE  Rank(P, y) \in (line + 1 + 1) .. (line + 1 + n) <=> \E z \in G : y = f[z]
    <3>1. \A z \in B : f[z] = f[x] => (z \in G <=> x \in G)
      BY <1>4
    <3>2. QED
      BY <1>4, <2>3, <3>1
  <2>4. QED
    BY <2>1, <2>2, <2>3
<1>8. \A x \in G : f[x] \in P
  BY DEF Each
<1>9. QED
  BY <1>6, <1>7, <1>8 DEF n, Each

-----------------------------------------------------------------------------
\* What an edit does to the paragraphs when the counts are right: those of the
\* line breaks it deletes go, and it finds one for a line break it types.
EditsLines(u, gone, new, found) ==
  /\ found \in SUBSET (Paragraphs \ made) /\ \A p \in found : FirstPar < p
  /\ Cardinality(found) = Cardinality(new \cap Breaks) /\ (new = {} => found = {})
  /\ text' = [text EXCEPT ![u] = (text[u] \ gone) \cup new]
  /\ typed' = typed \cup new
  /\ pars' = [pars EXCEPT ![u] = (pars[u] \ Begun(gone)) \cup found]
  /\ made' = made \cup found
  /\ given' = [b \in Breaks |-> IF b \in new /\ found # {} THEN CHOOSE p \in found : TRUE
                                ELSE given[b]]
  /\ SendUp(u, Writes(gone, Begun(gone), new, found)) /\ down' = down

\* The line breaks that go are a gap in those of the text.
LEMMA GoneGap ==
  ASSUME NEW T \in SUBSET Symbols, NEW gone \in SUBSET T, NEW new \in SUBSET Symbols,
         gone \cup new # {}, new \cap T = {}, new \cap Breaks = {},
         Contiguous(gone \cup new, (T \ gone) \cup new)
  PROVE  Gap(T \cap Breaks, gone \cap Breaks, Min(gone \cup new),
             LineOf((T \ gone) \cup new, Min(gone \cup new)))
<1>. DEFINE E == gone \cup new
            B == T \cap Breaks
            G == gone \cap Breaks
            k == Min(E)
            t == (T \ gone) \cup new
<1>1. E \in SUBSET Nat /\ T \in SUBSET Nat /\ E # {}
  BY TextAssumption
<1>2. k \in E /\ \A x \in E : k <= x
  <2>. HIDE DEF E
  <2>1. QED
    BY <1>1, LeastOf
<1>3. k \in Nat /\ \A y \in G : k <= y
  BY <1>1, <1>2
<1>4. \A x \in t \ E : (\A y \in E : x < y) \/ (\A y \in E : y < x)
  BY DEF Contiguous
<1>5. \A x \in B \ G : x \in t \ E
  OBVIOUS
<1>6. \A x \in B \ G : x < k \/ \A y \in G : y < x
  <2>. HIDE DEF k, t
  <2>1. QED
    BY <1>2, <1>4, <1>5
<1>7. {x \in B \ G : x < k} = {b \in t \cap Breaks : b < k}
  <2>. HIDE DEF k
  <2>1. QED
    OBVIOUS
<1>8. LineOf(t, k) = Cardinality({x \in B \ G : x < k})
  BY <1>7 DEF LineOf
<1>. HIDE DEF k, t, B, G
<1>9. Gap(B, G, k, LineOf(t, k))
  BY <1>3, <1>6, <1>8 DEF Gap
<1>10. QED
  BY <1>9 DEF k, t, B, G

\* The numbers of an edit.
LEMMA EditNumbers ==
  ASSUME NEW T \in SUBSET Symbols, NEW gone \in SUBSET T, NEW new \in SUBSET Symbols,
         new \cap T = {}, gone \cap Breaks # {} => new \cap Breaks = {},
         NEW P, NEW t, NEW line, NEW removed, NEW added, NEW kept,
         Asks(T, P, gone, new, t, line, removed, added, kept)
  PROVE  removed = Cardinality(gone \cap Breaks) /\ added = Cardinality(new \cap Breaks)
<1>. DEFINE B == T \cap Breaks
            G == gone \cap Breaks
            N == new \cap Breaks
            a == Cardinality(B)
            g == Cardinality(G)
            n == Cardinality(N)
<1>0. /\ t = (T \ gone) \cup new
      /\ removed = IF gone = {} THEN 0 ELSE Max({0, Lines(T) - Lines(t)})
      /\ added = IF new = {} THEN 0 ELSE Max({0, Lines(t) - (Lines(T) - removed)})
  BY DEF Asks
<1>1. IsFiniteSet(B) /\ IsFiniteSet(G) /\ IsFiniteSet(N)
  <2>1. B \in SUBSET Symbols /\ G \in SUBSET Symbols /\ N \in SUBSET Symbols
    OBVIOUS
  <2>2. QED
    BY <2>1, TextAssumption, FS_Subset
<1>2. a \in Nat /\ g \in Nat /\ n \in Nat
  BY <1>1, FS_CardinalityType
<1>3. IsFiniteSet(B \ G) /\ Cardinality(B \ G) = a - g
  <2>1. B \cap G = G
    OBVIOUS
  <2>. HIDE DEF B, G
  <2>2. IsFiniteSet(B \ G) /\ Cardinality(B \ G) = Cardinality(B) - Cardinality(B \cap G)
    BY <1>1, FS_Difference
  <2>3. QED
    BY <2>1, <2>2
<1>4. Cardinality(t \cap Breaks) = a - g + n
  <2>1. t \cap Breaks = (B \ G) \cup N /\ (B \ G) \cap N = {}
    BY <1>0
  <2>. HIDE DEF B, G, N
  <2>2. Cardinality((B \ G) \cup N)
          = Cardinality(B \ G) + Cardinality(N) - Cardinality((B \ G) \cap N)
    BY <1>1, <1>3, FS_Union
  <2>3. Cardinality((B \ G) \cap N) = 0
    BY <2>1, FS_EmptySet
  <2>. HIDE DEF a, g
  <2>4. Cardinality((B \ G) \cup N) = (a - g) + n - 0
    BY <1>3, <2>2, <2>3
  <2>. HIDE DEF n
  <2>5. (a - g) + n - 0 = a - g + n
    BY <1>2
  <2>6. QED
    BY <2>1, <2>4, <2>5
<1>5. Lines(T) = 1 + a /\ Lines(t) = 1 + (a - g + n)
  BY <1>4 DEF Lines
<1>6. (g # 0 => n = 0) /\ (gone = {} => g = 0) /\ (new = {} => n = 0)
  <2>1. G = {} => g = 0
    BY FS_EmptySet
  <2>2. N = {} => n = 0
    BY FS_EmptySet
  <2>3. (G # {} => N = {}) /\ (gone = {} => G = {}) /\ (new = {} => N = {})
    OBVIOUS
  <2>. HIDE DEF G, N, g, n
  <2>4. QED
    BY <2>1, <2>2, <2>3
<1>. HIDE DEF a, g, n
<1>7. removed = g
  <2>1. Lines(T) - Lines(t) = g - n /\ g - n \in Int
    BY <1>2, <1>5
  <2>2. Max({0, g - n}) = IF g - n > 0 THEN g - n ELSE 0
    BY <2>1, NotBelowZero
  <2>3. removed = IF gone = {} THEN 0 ELSE Max({0, g - n})
    BY <1>0, <2>1
  <2>4. QED
    BY <1>2, <1>6, <2>2, <2>3
<1>8. added = n
  <2>1. Lines(t) - (Lines(T) - removed) = n /\ n \in Int
    BY <1>2, <1>5, <1>7
  <2>2. Max({0, n}) = IF n > 0 THEN n ELSE 0
    BY <2>1, NotBelowZero
  <2>3. added = IF new = {} THEN 0 ELSE Max({0, n})
    BY <1>0, <2>1
  <2>4. QED
    BY <1>2, <1>6, <2>2, <2>3
<1>9. QED
  BY <1>7, <1>8 DEF g, n

\* An edit of a text at a line. Of line breaks it deletes the paragraphs are in
\* their order, and it does not type one.
Cuts(T, gone, new, line) ==
  /\ gone \cup new # {} /\ new \cap T = {}
  /\ Contiguous(gone \cup new, (T \ gone) \cup new)
  /\ gone \cap Breaks # {} =>
        /\ new \cap Breaks = {}
        /\ \A b, c \in T \cap Breaks : b < c => ~ (given[c] < given[b])
  /\ line = LineOf((T \ gone) \cup new, Min(gone \cup new))

\* The paragraphs from line on, as many as gone has line breaks, are those of
\* gone's line breaks.
Loses(P, gone, line) ==
  line \in Nat /\ Segment(P, line + 1, Cardinality(gone \cap Breaks)) = Begun(gone)

\* The paragraphs an edit deletes are those of the line breaks it deletes.
LEMMA LostParagraphs ==
  ASSUME TypeInv, Numbers, NEW T \in SUBSET Symbols, NEW P, FitsFile(T, P),
         NEW gone \in SUBSET T, NEW new \in SUBSET Symbols, NEW line, Cuts(T, gone, new, line)
  PROVE  Loses(P, gone, line)
<1>0. /\ gone \cup new # {} /\ new \cap T = {}
      /\ Contiguous(gone \cup new, (T \ gone) \cup new)
      /\ gone \cap Breaks # {} =>
            /\ new \cap Breaks = {}
            /\ \A b, c \in T \cap Breaks : b < c => ~ (given[c] < given[b])
      /\ line = LineOf((T \ gone) \cup new, Min(gone \cup new))
  BY DEF Cuts
<1>1. line \in Nat
  <2>1. PICK t : t = (T \ gone) \cup new
    OBVIOUS
  <2>2. t \in SUBSET Symbols
    BY <2>1
  <2>3. QED
    BY <1>0, <2>1, <2>2, LineOfNat
<1>2. CASE gone \cap Breaks = {}
  <2>1. Cardinality(gone \cap Breaks) = 0
    BY <1>2, FS_EmptySet
  <2>2. line + 1 \in Nat
    BY <1>1
  <2>3. Segment(P, line + 1, 0) = {}
    BY <2>2, NoSegment
  <2>4. Begun(gone) = {}
    BY <1>2 DEF Begun, Each
  <2>5. QED
    BY <1>1, <2>1, <2>3, <2>4 DEF Loses
<1>3. CASE /\ new \cap Breaks = {}
           /\ \A b, c \in T \cap Breaks : b < c => ~ (given[c] < given[b])
  <2>. DEFINE B == T \cap Breaks
              G == gone \cap Breaks
              k == Min(gone \cup new)
  <2>1. Gap(B, G, k, line)
    BY <1>0, <1>3, GoneGap
  <2>2. B \in SUBSET Nat /\ IsFiniteSet(B) /\ G \in SUBSET B
    <3>1. B \in SUBSET Symbols
      OBVIOUS
    <3>2. QED
      BY <3>1, TextAssumption, FS_Subset
  <2>3. T \subseteq typed /\ P = {FirstPar} \cup Each(given, B)
    BY DEF FitsFile, Begun
  <2>4. /\ FirstPar \in made /\ \A b \in B : given[b] \in made /\ FirstPar < given[b]
        /\ \A b, c \in B : given[b] = given[c] => b = c
    BY <2>3 DEF Numbers
  <2>5. \A p \in made : p \in Nat
    BY TextAssumption DEF TypeInv
  <2>6. ASSUME NEW b \in B, NEW c \in B, b < c PROVE given[b] < given[c]
    <3>1. given[b] \in Nat /\ given[c] \in Nat /\ b \in Nat /\ c \in Nat
      BY <2>2, <2>4, <2>5
    <3>2. ~ (given[c] < given[b]) /\ b # c
      BY <1>3, <2>6, <3>1
    <3>3. given[b] # given[c]
      BY <2>4, <3>2
    <3>4. QED
      BY <3>1, <3>2, <3>3
  <2>. HIDE DEF B
  <2>7. InOrder(given, B, FirstPar)
    BY <2>4, <2>5, <2>6 DEF InOrder
  <2>. HIDE DEF G, k
  <2>8. Segment(P, line + 1, Cardinality(G)) = Each(given, G)
    BY <2>1, <2>2, <2>3, <2>7, GapSegment
  <2>9. QED
    BY <1>1, <2>8 DEF G, Begun, Loses
<1>4. QED
  BY <1>0, <1>2, <1>3

\* What is found for a new line comes after the first paragraph.
LEMMA FoundAfter ==
  ASSUME TypeInv, Numbers, NEW S, S \subseteq typed, NEW kept, kept = {FirstPar} \cup Begun(S),
         NEW n \in Nat, NEW p \in FreshPars(kept, n + 1)
  PROVE  p \in Paragraphs \ made /\ FirstPar < p
<1>1. p \in Paragraphs \ made /\ \A q \in kept : IF Rank(kept, q) <= n + 1 THEN q < p ELSE p < q
  BY DEF FreshPars
<1>2. \A q \in Begun(S) : FirstPar < q /\ q \in Nat /\ FirstPar \in Nat
  <2>1. \A q \in made : q \in Nat
    BY TextAssumption DEF TypeInv
  <2>2. /\ FirstPar \in made
        /\ \A b \in S \cap Breaks : FirstPar < given[b] /\ given[b] \in made
    BY DEF Numbers
  <2>3. QED
    BY <2>1, <2>2 DEF Begun, Each
<1>3. {q \in kept : q <= FirstPar} = {FirstPar}
  <2>1. FirstPar \in Nat
    BY TextAssumption DEF Numbers, TypeInv
  <2>2. FirstPar <= FirstPar /\ \A q \in Begun(S) : ~ (q <= FirstPar)
    BY <1>2, <2>1
  <2>3. QED
    BY <2>2
<1>4. Rank(kept, FirstPar) = 1
  BY <1>3, FS_Singleton DEF Rank
<1>5. Rank(kept, FirstPar) <= n + 1
  BY <1>4
<1>6. QED
  BY <1>1, <1>5

\* While nobody miscounts, that is what Edit does.
LEMMA EditOutcome ==
  ASSUME IInv, Lined, NEW u \in Users, NEW gone \in SUBSET text[u], NEW new \in SUBSET Symbols,
         Edit(u, gone, new), ~ miscounted'
  PROVE  \E found : EditsLines(u, gone, new, found)
<1>. DEFINE T == text[u]
            P == pars[u]
            t == (T \ gone) \cup new
            line == LineOf(t, Min(gone \cup new))
            removed == IF gone = {} THEN 0 ELSE Max({0, nblocks[u] - Lines(t)})
            added == IF new = {} THEN 0 ELSE Max({0, Lines(t) - (nblocks[u] - removed)})
            lost == Segment(P, line + 1, removed)
            kept == P \ lost
            deletion == IF gone = {} THEN << >> ELSE <<Del(gone, lost)>>
            deletes == removed = 0 \/ line + 1 + removed <= Cardinality(P)
            inserts == /\ added = 0 \/ line + 1 <= Cardinality(kept)
                       /\ new = {} \/ line <= Cardinality(kept) + added
            Succeeds ==
              /\ \E found \in kSubset(added, FreshPars(kept, line + 1)) :
                    /\ pars' = [pars EXCEPT ![u] = kept \cup found]
                    /\ made' = made \cup found
                    /\ given' = [b \in Breaks |-> IF b \in new /\ found # {}
                                                 THEN CHOOSE p \in found : TRUE ELSE given[b]]
                    /\ SendUp(u, deletion \o IF new = {} THEN << >> ELSE <<Ins(new, found)>>)
              /\ down' = down
<1>1. /\ EditFits(u, gone, new)
      /\ text' = [text EXCEPT ![u] = t] /\ typed' = typed \cup new
      /\ Succeeds \/ ~ (deletes /\ inserts)
  BY DEF Edit
<1>2. /\ nblocks[u] = Lines(T)
      /\ gone \cap Breaks # {} => new \cap Breaks = {} /\ ~ Shuffled(u)
  BY DEF Edit
<1>3. /\ TypeInv /\ Numbers /\ FitsFile(T, P) /\ T \in SUBSET Symbols /\ P \in SUBSET Paragraphs
      /\ T \subseteq typed
  BY Channels DEF IInv, TypeInv, Lined, FitsFile
<1>4. /\ gone \cup new # {} /\ new \cap T = {} /\ Contiguous(gone \cup new, t)
      /\ \A s \in new : s \notin typed
  BY <1>1, <1>3 DEF EditFits
<1>5. Cardinality(P) = Lines(T)
  BY <1>3, FileLines
<1>6. Succeeds
  <2>1. Asks(T, P, gone, new, t, line, removed, added, kept)
    BY <1>2 DEF Asks
  <2>. HIDE DEF T, P, t, line, removed, added, kept, Succeeds
  <2>2. gone \in SUBSET T
    BY DEF T
  <2>3. deletes /\ inserts
    BY <1>3, <1>4, <1>5, <2>1, <2>2, EditCounts
  <2>4. QED
    BY <1>1, <2>3
<1>7. removed = Cardinality(gone \cap Breaks) /\ added = Cardinality(new \cap Breaks)
  <2>1. Asks(T, P, gone, new, t, line, removed, added, kept)
    BY <1>2 DEF Asks
  <2>2. gone \in SUBSET T
    OBVIOUS
  <2>. HIDE DEF T, P, t, line, removed, added, kept
  <2>3. QED
    BY <1>2, <1>3, <1>4, <2>1, <2>2, EditNumbers
<1>8. line \in Nat /\ lost = Begun(gone)
  <2>1. gone \cap Breaks # {} => \A b, c \in T \cap Breaks : b < c => ~ (given[c] < given[b])
    BY <1>2 DEF Shuffled
  <2>2. gone \in SUBSET T /\ Cuts(T, gone, new, line)
    BY <1>2, <1>4, <2>1 DEF Cuts
  <2>. HIDE DEF T, P, line, removed
  <2>3. Loses(P, gone, line)
    BY <1>3, <2>2, LostParagraphs
  <2>4. QED
    BY <1>7, <2>3 DEF Loses
<1>9. kept = {FirstPar} \cup Begun(T \ gone)
  <2>. HIDE DEF T, P, lost
  <2>1. P = {FirstPar} \cup Begun(T) /\ gone \subseteq T
    BY <1>3 DEF FitsFile, T
  <2>2. QED
    BY <1>3, <1>8, <2>1, BegunWithout
<1>10. PICK found \in kSubset(added, FreshPars(kept, line + 1)) :
          /\ pars' = [pars EXCEPT ![u] = kept \cup found]
          /\ made' = made \cup found
          /\ given' = [b \in Breaks |-> IF b \in new /\ found # {}
                                       THEN CHOOSE p \in found : TRUE ELSE given[b]]
          /\ SendUp(u, deletion \o IF new = {} THEN << >> ELSE <<Ins(new, found)>>)
          /\ down' = down
  BY <1>6
<1>11. found \subseteq FreshPars(kept, line + 1) /\ Cardinality(found) = added
  BY DEF kSubset
<1>12. found \in SUBSET (Paragraphs \ made) /\ \A p \in found : FirstPar < p
  <2>1. T \ gone \subseteq typed
    BY <1>3
  <2>. HIDE DEF T, kept, line, added
  <2>2. \A p \in found : p \in Paragraphs \ made /\ FirstPar < p
    BY <1>3, <1>8, <1>9, <1>11, <2>1, FoundAfter
  <2>3. QED
    BY <2>2
<1>13. Cardinality(found) = Cardinality(new \cap Breaks)
  BY <1>7, <1>11
<1>14. new = {} => found = {}
  <2>1. HAVE new = {}
  <2>2. new \cap Breaks = {}
    BY <2>1
  <2>3. Cardinality(new \cap Breaks) = 0
    BY <2>2, FS_EmptySet
  <2>4. IsFiniteSet(found)
    <3>1. found \in SUBSET Paragraphs
      BY <1>12
    <3>2. QED
      BY <3>1, TextAssumption, FS_Subset
  <2>. HIDE DEF kept, line, added
  <2>5. QED
    BY <1>13, <2>3, <2>4, FS_EmptySet
<1>15. SendUp(u, Writes(gone, Begun(gone), new, found))
  <2>1. deletion = IF gone = {} THEN << >> ELSE <<Del(gone, Begun(gone))>>
    BY <1>8
  <2>. HIDE DEF deletion
  <2>2. QED
    BY <1>10, <2>1 DEF Writes
<1>16. pars' = [pars EXCEPT ![u] = (pars[u] \ Begun(gone)) \cup found]
  BY <1>8, <1>10
<1>17. EditsLines(u, gone, new, found)
  BY <1>1, <1>10, <1>12, <1>13, <1>14, <1>15, <1>16 DEF EditsLines
<1>18. QED
  BY <1>17

\* g numbers a line break of new, of which there is one at most, by what was found.
Suits(g, new, found) ==
  /\ new = {} \/ \E s : new = {s}
  /\ Cardinality(found) = Cardinality(new \cap Breaks)
  /\ found # {} => \A b \in new \cap Breaks : g[b] = CHOOSE p \in found : TRUE

\* A line break that is typed begins the paragraph that was found, whatever
\* numbers g the others have.
LEMMA FoundIsGiven ==
  ASSUME NEW new \in SUBSET Symbols, NEW found \in SUBSET Paragraphs, NEW g,
         Suits(g, new, found)
  PROVE  found = Each(g, new \cap Breaks)
<1>0. /\ new = {} \/ \E s : new = {s}
      /\ Cardinality(found) = Cardinality(new \cap Breaks)
      /\ found # {} => \A b \in new \cap Breaks : g[b] = CHOOSE p \in found : TRUE
  BY DEF Suits
<1>1. IsFiniteSet(found)
  BY TextAssumption, FS_Subset
<1>2. CASE new \cap Breaks = {}
  <2>1. Cardinality(found) = 0
    BY <1>0, <1>2, FS_EmptySet
  <2>2. found = {}
    BY <1>1, <2>1, FS_EmptySet
  <2>3. QED
    BY <1>2, <2>2 DEF Each
<1>3. ASSUME NEW s, new \cap Breaks = {s} PROVE found = Each(g, new \cap Breaks)
  <2>1. Cardinality(found) = 1
    BY <1>0, <1>3, FS_Singleton
  <2>2. PICK p : found = {p}
    BY <1>1, <2>1, FS_Singleton
  <2>3. g[s] = p
    BY <1>0, <1>3, <2>2
  <2>4. QED
    BY <1>3, <2>2, <2>3 DEF Each
<1>4. QED
  BY <1>0, <1>2, <1>3

\* What an edit leaves true of the line breaks there were, and of the new one.
Adds(new, found) ==
  /\ new \cap typed = {} /\ typed' = typed \cup new /\ made' = made \cup found
  /\ found \in SUBSET (Paragraphs \ made) /\ \A p \in found : FirstPar < p
  /\ \A b \in typed \cap Breaks : given'[b] = given[b]
  /\ found = Each(given', new \cap Breaks)
  /\ \A b, c \in new : b = c

\* It is true of every edit while nobody miscounts.
LEMMA EditAdds ==
  ASSUME TypeInv, NEW u \in Users, NEW gone \in SUBSET text[u],
         NEW new \in kSubset(0, Symbols) \cup kSubset(1, Symbols), \A s \in new : s \notin typed,
         NEW found, EditsLines(u, gone, new, found)
  PROVE  Adds(new, found)
<1>1. new \in SUBSET Symbols /\ (new = {} \/ \E s : new = {s})
  <2>1. new \in SUBSET Symbols /\ (Cardinality(new) = 0 \/ Cardinality(new) = 1)
    BY DEF kSubset
  <2>2. IsFiniteSet(new)
    BY <2>1, TextAssumption, FS_Subset
  <2>3. QED
    BY <2>1, <2>2, FS_EmptySet, FS_Singleton
<1>2. /\ found \in SUBSET (Paragraphs \ made) /\ \A p \in found : FirstPar < p
      /\ Cardinality(found) = Cardinality(new \cap Breaks)
      /\ typed' = typed \cup new /\ made' = made \cup found
      /\ given' = [b \in Breaks |-> IF b \in new /\ found # {} THEN CHOOSE p \in found : TRUE
                                    ELSE given[b]]
  BY DEF EditsLines
<1>3. PICK g : g = given'
  OBVIOUS
<1>4. Suits(g, new, found)
  BY <1>1, <1>2, <1>3 DEF Suits
<1>5. found = Each(g, new \cap Breaks)
  BY <1>1, <1>2, <1>4, FoundIsGiven
<1>6. \A b \in typed \cap Breaks : given'[b] = given[b]
  BY <1>2
<1>7. QED
  BY <1>1, <1>2, <1>3, <1>5, <1>6 DEF Adds

\* Each line break still has a paragraph of its own.
LEMMA NumbersAdded ==
  ASSUME TypeInv, Numbers, NEW new \in SUBSET Symbols, NEW found, Adds(new, found)
  PROVE  Numbers'
<1>1. /\ typed \in SUBSET Symbols /\ FirstPar \in made
      /\ \A b \in typed \cap Breaks : given[b] \in made /\ FirstPar < given[b]
      /\ \A b, c \in typed \cap Breaks : given[b] = given[c] => b = c
  BY DEF Numbers
<1>2. /\ new \cap typed = {} /\ typed' = typed \cup new /\ made' = made \cup found
      /\ found \in SUBSET (Paragraphs \ made) /\ \A p \in found : FirstPar < p
      /\ \A b \in typed \cap Breaks : given'[b] = given[b]
      /\ \A b, c \in new : b = c
  BY DEF Adds
<1>3. \A b \in new \cap Breaks : given'[b] \in found
  BY DEF Adds, Each
<1>4. \A b \in typed' \cap Breaks : given'[b] \in made' /\ FirstPar < given'[b]
  BY <1>1, <1>2, <1>3
<1>5. \A b, c \in typed' \cap Breaks : given'[b] = given'[c] => b = c
  <2>1. \A b \in typed \cap Breaks : given'[b] \in made
    BY <1>1, <1>2
  <2>2. \A b \in new \cap Breaks : given'[b] \notin made
    BY <1>2, <1>3
  <2>3. QED
    BY <1>1, <1>2, <2>1, <2>2
<1>6. QED
  BY <1>1, <1>2, <1>4, <1>5 DEF Numbers

\* What fitted before fits still.
LEMMA FitsStill ==
  ASSUME NEW new, NEW found, Adds(new, found)
  PROVE  /\ \A S \in SUBSET typed : Each(given', S \cap Breaks) = Begun(S)
         /\ \A S, P : FitsEdit(S, P) => FitsEdit(S, P)'
         /\ \A T, P : FitsFile(T, P) => FitsFile(T, P)'
         /\ \A m : FitsMsg(m) => FitsMsg(m)'
<1>1. \A S \in SUBSET typed : Each(given', S \cap Breaks) = Begun(S)
  BY DEF Adds, Begun, Each
<1>2. typed \subseteq typed'
  BY DEF Adds
<1>3. \A S, P : FitsEdit(S, P) => FitsEdit(S, P)'
  BY <1>1, <1>2 DEF FitsEdit, Begun
<1>4. \A T, P : FitsFile(T, P) => FitsFile(T, P)'
  BY <1>1, <1>2 DEF FitsFile, Begun
<1>5. \A m : FitsMsg(m) => FitsMsg(m)'
  BY <1>3, <1>4 DEF FitsMsg
<1>6. QED
  BY <1>1, <1>3, <1>4, <1>5

\* What an edit writes fits.
LEMMA EditBears ==
  ASSUME TypeInv, Numbers, NEW u \in Users, NEW gone \in SUBSET text[u],
         NEW new \in SUBSET Symbols, NEW found, text[u] \subseteq typed,
         EditsLines(u, gone, new, found), Adds(new, found),
         NEW v \in Users
  PROVE  \E N : UpFrom(v, N) /\ \A m \in N : FitsMsg(m)'
<1>1. PICK lost : lost = Begun(gone)
  OBVIOUS
<1>2. PICK N : N = {Del(gone, lost), Ins(new, found)}
  OBVIOUS
<1>3. gone \in SUBSET Symbols /\ gone \in SUBSET typed
  BY Channels DEF TypeInv
<1>4. PICK msgs : /\ msgs = Writes(gone, lost, new, found) /\ msgs \in Seq(UpMsg)
                  /\ \A k \in 1 .. Len(msgs) :
                        msgs[k] = Del(gone, lost) \/ msgs[k] = Ins(new, found)
  <2>1. lost \in SUBSET Paragraphs
    <3>1. \A b \in gone \cap Breaks : given[b] \in made
      BY <1>3 DEF Numbers
    <3>2. QED
      BY <1>1, <3>1 DEF Begun, Each, TypeInv
  <2>2. gone = {} => lost = {}
    BY <1>1 DEF Begun, Each
  <2>3. found \in SUBSET Paragraphs /\ (new = {} => found = {})
    BY DEF EditsLines
  <2>4. WritesFit(gone, lost, new, found)
    BY <1>3, <2>1, <2>2, <2>3 DEF WritesFit
  <2>5. QED
    BY <2>4, EditMessages
<1>5. SendUp(u, msgs)
  BY <1>1, <1>4 DEF EditsLines
<1>6. UpFrom(v, N)
  BY <1>2, <1>4, <1>5, SendFlows
<1>7. FitsMsg(Del(gone, lost))'
  <2>1. FitsMsg(Del(gone, lost))
    BY <1>1, <1>3 DEF FitsMsg, FitsEdit, Del
  <2>2. QED
    BY <2>1, FitsStill
<1>8. FitsMsg(Ins(new, found))'
  <2>1. new \subseteq typed' /\ found = Each(given', new \cap Breaks)
    BY DEF Adds
  <2>2. QED
    BY <2>1 DEF FitsMsg, FitsEdit, Ins, Begun
<1>9. QED
  BY <1>2, <1>6, <1>7, <1>8

\* A user's edit.
LEMMA EditLined ==
  ASSUME IInv, LineInv, NEW u \in Users, NEW gone \in SUBSET text[u],
         NEW new \in kSubset(0, Symbols) \cup kSubset(1, Symbols), Edit(u, gone, new)
  PROVE  LineInv'
<1>1. SUFFICES ASSUME ~ miscounted' PROVE Lined'
  BY DEF LineInv
<1>2. Lined /\ Numbers /\ TypeInv /\ u \in Replicas
  <2>1. ~ miscounted
    BY <1>1 DEF Edit
  <2>2. QED
    BY <2>1, Channels DEF LineInv, Lined, IInv
<1>3. new \in SUBSET Symbols /\ \A s \in new : s \notin typed
  BY DEF kSubset, Edit, EditFits
<1>4. PICK found : EditsLines(u, gone, new, found)
  BY <1>1, <1>2, <1>3, EditOutcome
<1>5. Adds(new, found)
  BY <1>2, <1>3, <1>4, EditAdds
<1>6. /\ text' = [text EXCEPT ![u] = (text[u] \ gone) \cup new]
      /\ pars' = [pars EXCEPT ![u] = (pars[u] \ Begun(gone)) \cup found]
      /\ down' = down
  BY <1>4 DEF EditsLines
<1>7. text[u] \subseteq typed /\ pars[u] = {FirstPar} \cup Begun(text[u])
  BY <1>2 DEF Lined, FitsFile
<1>8. ASSUME NEW r \in Replicas PROVE FitsFile(text[r], pars[r])'
  <2>1. CASE r = u
    <3>1. PICK T, P : T = text[u] \ gone /\ P = pars[u] \ Begun(gone)
      OBVIOUS
    <3>2. text'[u] = T \cup new /\ pars'[u] = P \cup found
      BY <1>2, <1>6, <3>1 DEF TypeInv
    <3>3. P = {FirstPar} \cup Begun(T)
      BY <1>2, <1>7, <3>1, BegunWithout
    <3>4. T \in SUBSET typed
      BY <1>7, <3>1
    <3>5. Each(given', T \cap Breaks) = Begun(T)
      BY <1>5, <3>4, FitsStill
    <3>6. found = Each(given', new \cap Breaks) /\ typed' = typed \cup new
      BY <1>5 DEF Adds
    <3>7. Each(given', (T \cup new) \cap Breaks) = Begun(T) \cup found
      BY <3>5, <3>6 DEF Each
    <3>8. text'[u] \subseteq typed' /\ pars'[u] = {FirstPar} \cup Each(given', text'[u] \cap Breaks)
      BY <3>2, <3>3, <3>4, <3>6, <3>7
    <3>9. QED
      BY <2>1, <3>8 DEF FitsFile, Begun
  <2>2. CASE r # u
    <3>1. text'[r] = text[r] /\ pars'[r] = pars[r]
      BY <1>2, <1>6, <2>2 DEF TypeInv
    <3>2. PICK T, P : T = text[r] /\ P = pars[r]
      OBVIOUS
    <3>3. FitsFile(T, P)'
      BY <1>2, <1>5, <3>2, FitsStill DEF Lined
    <3>4. QED
      BY <3>1, <3>2, <3>3 DEF FitsFile
  <2>3. QED
    BY <2>1, <2>2
<1>9. ASSUME NEW m, FitsMsg(m) PROVE FitsMsg(m)'
  BY <1>5, <1>9, FitsStill
<1>10. ASSUME NEW v \in Users
       PROVE  /\ \A i \in DOMAIN up'[v] : FitsMsg(up[v][i])'
              /\ \A i \in DOMAIN down'[v] : FitsMsg(down[v][i])'
  <2>1. PICK N : UpFrom(v, N) /\ \A m \in N : FitsMsg(m)'
    BY <1>2, <1>3, <1>4, <1>5, <1>7, EditBears
  <2>2. \A i \in DOMAIN down[v] : FitsMsg(down[v][i])
    BY <1>2 DEF Lined
  <2>3. \A i \in DOMAIN up[v] : FitsMsg(up[v][i])
    BY <1>2 DEF Lined
  <2>4. ASSUME NEW i \in DOMAIN up'[v] PROVE FitsMsg(up[v][i])'
    <3>1. PICK m : m = up'[v][i]
      OBVIOUS
    <3>2. m \in N \/ \E k \in DOMAIN up[v] : m = up[v][k]
      BY <2>1, <3>1 DEF UpFrom
    <3>3. FitsMsg(m)'
      BY <1>9, <2>1, <2>3, <3>2
    <3>4. QED
      BY <3>1, <3>3
  <2>5. ASSUME NEW i \in DOMAIN down'[v] PROVE FitsMsg(down[v][i])'
    <3>1. PICK m : m = down[v][i]
      OBVIOUS
    <3>2. FitsMsg(m)'
      BY <1>6, <1>9, <2>2, <3>1
    <3>3. QED
      BY <1>6, <3>1, <3>2
  <2>6. QED
    BY <2>4, <2>5
<1>11. Numbers'
  BY <1>2, <1>3, <1>5, NumbersAdded
<1>12. QED
  BY <1>8, <1>10, <1>11 DEF Lined

\* Every step.
LEMMA LineStep ==
  ASSUME IInv, LineInv, [Next]_vars
  PROVE  LineInv'
<1>1. ASSUME NEW u \in Users, Works(u)
      PROVE  LineInv'
  <2>1. CASE \E S \in Ranges, f \in Formats : Format(u, S, f)
    BY <2>1, FormatLined
  <2>2. CASE \E gone \in SUBSET text[u], new \in kSubset(0, Symbols) \cup kSubset(1, Symbols) :
               Edit(u, gone, new)
    BY <2>2, EditLined
  <2>3. CASE InsertComment(u)
    BY <2>3, InsertCommentLined
  <2>4. CASE \E c \in Own(u) : EditComment(u, c) \/ DeleteComment(u, c)
    BY <2>4, OwnCommentLined
  <2>5. CASE Open(u) \/ Close(u) \/ DropLink(u)
    BY <2>5, VisitLined
  <2>6. CASE Highlight(u)
    BY <2>6, TakingLined
  <2>7. QED
    BY <1>1, <2>1, <2>2, <2>3, <2>4, <2>5, <2>6 DEF Works
<1>2. ASSUME NEW u \in Users, ServerReceives(u)
      PROVE  LineInv'
  BY <1>2, ServerGetLined, TakingLined, RelayLined DEF ServerReceives
<1>3. ASSUME NEW u \in Users, ClientReceives(u)
      PROVE  LineInv'
  BY <1>3, ClientFileLined, TakingLined, ClientWriteLined DEF ClientReceives
<1>4. QED
  BY <1>1, <1>2, <1>3, QuietLined DEF Next

\* It holds at the start: the paragraphs of the file are a first one, and those
\* of its line breaks in their order.
LEMMA InitLined ==
  ASSUME Init
  PROVE  LineInv
<1>1. /\ FirstPar \in InitialPars
      /\ InitialPars = {FirstPar} \cup {ParOf[b] : b \in InitialText \cap Breaks}
      /\ \A b \in InitialText \cap Breaks : FirstPar < ParOf[b]
  <2>1. \E p \in InitialPars :
           /\ InitialPars = {p} \cup {ParOf[b] : b \in InitialText \cap Breaks}
           /\ \A b \in InitialText \cap Breaks : p < ParOf[b]
    BY TextAssumption
  <2>2. QED
    BY <2>1 DEF FirstPar
<1>2. /\ typed = InitialText /\ made = InitialPars
      /\ \A b \in InitialText \cap Breaks : given[b] = ParOf[b]
      /\ \A r \in Replicas : text[r] = InitialText /\ pars[r] = InitialPars
      /\ \A u \in Users : up[u] = << >> /\ down[u] = << >>
  BY TextAssumption DEF Init
<1>3. Numbers
  <2>1. ASSUME NEW b \in InitialText \cap Breaks, NEW c \in InitialText \cap Breaks,
               ParOf[b] = ParOf[c]
        PROVE  b = c
    <3>1. /\ b \in Nat /\ c \in Nat /\ ParOf[b] \in Nat /\ ParOf[c] \in Nat
          /\ b < c => ParOf[b] < ParOf[c]
          /\ c < b => ParOf[c] < ParOf[b]
      BY TextAssumption
    <3>2. QED
      BY <2>1, <3>1
  <2>2. \A b \in InitialText \cap Breaks : ParOf[b] \in InitialPars
    BY TextAssumption
  <2>3. InitialText \in SUBSET Symbols
    BY TextAssumption
  <2>4. QED
    BY <1>1, <1>2, <2>1, <2>2, <2>3 DEF Numbers
<1>4. FitsFile(InitialText, InitialPars)
  <2>1. Each(given, InitialText \cap Breaks) = {ParOf[b] : b \in InitialText \cap Breaks}
    BY <1>2 DEF Each
  <2>2. QED
    BY <1>1, <1>2, <2>1 DEF FitsFile, Begun
<1>5. QED
  BY <1>2, <1>3, <1>4 DEF LineInv, Lined

\* Unless somebody has miscounted, every replica, and every message on its way,
\* has the paragraphs of its line breaks, and each line break its own.
THEOREM LineInvariant == Spec => []LineInv
<1>1. Init => LineInv
  BY InitLined
<1>2. IInv /\ LineInv /\ [Next]_vars => LineInv'
  BY LineStep
<1>3. QED
  BY <1>1, <1>2, Invariant, PTL DEF Spec

\* Every File, the server's and every editor's, has one paragraph for each line of
\* its text, whatever edits cross on the way, until somebody miscounts.
THEOREM LinesHaveParagraphs == Spec => []OneParagraphPerLine
<1>1. ASSUME IInv, LineInv PROVE OneParagraphPerLine
  <2>1. ASSUME ~ miscounted, NEW r \in Replicas PROVE Cardinality(pars[r]) = Lines(text[r])
    <3>1. TypeInv /\ Numbers /\ FitsFile(text[r], pars[r])
      BY <1>1, <2>1 DEF IInv, LineInv, Lined
    <3>2. QED
      BY <3>1, FileLines
  <2>2. QED
    BY <2>1 DEF OneParagraphPerLine
<1>2. QED
  BY <1>1, Invariant, LineInvariant, PTL

=============================================================================
