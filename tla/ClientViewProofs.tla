--------------------------- MODULE ClientViewProofs ---------------------------
(***************************************************************************)
(* The sessions that are active are those of the entries of _clients, and  *)
(* the server falls over a session only after an account was removed with  *)
(* a file open. The first rests on the tokens: a token that is valid,      *)
(* wherever it is, is the session of the client's own entry. The second    *)
(* rests on the lists of the files: whoever is in the list of a file that  *)
(* still has rows has an entry, with that file open.                       *)
(*                                                                         *)
(* From Haunted on, what the windows of the clients show: a frozen window    *)
(* has what releases it on the way, the editor names the file it shows, the  *)
(* file the server keeps open is the one shown, and a client ends only by    *)
(* the causes named. All that is on the way to a client counts, in its       *)
(* order.                                                                    *)
(*                                                                         *)
(* At the end, that the tables of Wire fit, action by action.                *)
(***************************************************************************)
EXTENDS ClientView, SequenceTheorems, FiniteSetTheorems, TLAPS

FileIds == Files \cup {NoFile}
Endings == {"no", "lost", "quit", "notLogged", "noFile", "stranger", "icon"}
Links   == {"none", "opening", "open", "aborted", "made"}
Kinds   == {"ERROR", "DIALOG", "LOGIN", "EDIT_USER", "DELETE_USER", "GET", "NEW_FILE",
            "ACTIVATE_LINK", "FILE_DELETED", "DELETE_FILE", "REFRESH", "ALL_DIRS", "STRANGER",
            "JOINED", "ICON"}
Causes  == {"raced", "late", "crossed", "covered", "returned", "doubled", "haunting", "linked",
            "strayed", "switched"}

Guis ==
  [ended : Endings, conn : Links, timer : BOOLEAN, win : Windows, frozen : SUBSET Windows,
   logged : BOOLEAN, token : Nat, fileOpen : BOOLEAN, fileId : FileIds, shown : FileIds,
   listed : SUBSET Files]

Letters == [kind : Kinds, file : FileIds, session : Nat, users : SUBSET Users]

Sessions == [user : Users, active : BOOLEAN]

\* The sessions that the messages of s carry, and those a client may come to use.
Sent(s) == {s[i].session : i \in 1 .. Len(s)}
Held(k) == {gui[k].token} \cup Sent(down[k])

ClientTyped ==
  /\ gui \in [Clients -> Guis] /\ down \in [Clients -> Seq(Letters)]
  /\ past \in [Clients -> SUBSET Causes]

ServerTyped ==
  /\ entry \in [Clients -> Nat] /\ open \in [Clients -> FileIds]
  /\ inFile \in [Files -> SUBSET Clients]
  /\ sessions \in Seq(Sessions)
  /\ rows \in [Files -> SUBSET Users] /\ born \subseteq Files
  /\ members \in [Files -> SUBSET Users]

\* Every session a client may come to use, and that of its entry, is in the
\* table; if it is active it is the one of its entry.
Tokens ==
  \A k \in Clients :
    /\ entry[k] \in 0 .. Len(sessions)
    /\ \A t \in Held(k) : t \in 0 .. Len(sessions) /\ (t # 0 /\ sessions[t].active => entry[k] = t)

\* Nobody was left in a list: all that are in the list of a file with rows have
\* an entry with it open. A file that was not made yet has neither.
Seated ==
  /\ \A f \in Files \ born : rows[f] = {} /\ inFile[f] = {}
  /\ \/ \E k \in Clients : "haunting" \in past[k]
     \/ \A f \in Files : \A k \in inFile[f] : rows[f] = {} \/ (entry[k] # 0 /\ open[k] = f)

IInv == ClientTyped /\ ServerTyped /\ Tokens /\ SessionsMatch /\ Seated /\ FallsOnlyToGhosts
-----------------------------------------------------------------------------
\* What the slots do to the windows keeps their type and, but for login, the token.
LEMMA GuiOps ==
  ASSUME NEW g \in Guis
  PROVE  /\ Freeze(g) \in Guis /\ Freeze(g).token = g.token
         /\ Unfreeze(g) \in Guis /\ Unfreeze(g).token = g.token
         /\ \A w \in Windows : Show(g, w) \in Guis /\ Show(g, w).token = g.token
         /\ \A f \in FileIds : OpenFile(g, f) \in Guis /\ OpenFile(g, f).token = g.token
         /\ CloseFile(g) \in Guis /\ CloseFile(g).token = g.token
         /\ \A t \in Nat : LogIn(g, t) \in Guis /\ LogIn(g, t).token = t
         /\ LogOut(g) \in Guis /\ LogOut(g).token = g.token
         /\ Refresh(g) \in Guis /\ Refresh(g).token = g.token
<1>1. /\ Freeze(g) \in Guis /\ Freeze(g).token = g.token
      /\ Unfreeze(g) \in Guis /\ Unfreeze(g).token = g.token
  BY DEF Guis, Freeze, Unfreeze
<1>2. \A w \in Windows : Show(g, w) \in Guis /\ Show(g, w).token = g.token
  BY DEF Guis, Show
<1>3. \A f \in FileIds : OpenFile(g, f) \in Guis /\ OpenFile(g, f).token = g.token
  BY DEF Guis, OpenFile
<1>4. CloseFile(g) \in Guis /\ CloseFile(g).token = g.token
  BY DEF Guis, CloseFile
<1>5. \A t \in Nat : LogIn(g, t) \in Guis /\ LogIn(g, t).token = t
  BY DEF Guis, LogIn
<1>6. LogOut(g) \in Guis /\ LogOut(g).token = g.token
  BY DEF Guis, LogOut
<1>7. Refresh(g) \in Guis /\ Refresh(g).token = g.token
  BY DEF Guis, Refresh
<1>8. QED
  BY <1>1, <1>2, <1>3, <1>4, <1>5, <1>6, <1>7

\* A process that starts, or has ended, holds no session.
LEMMA Beginnings ==
  /\ Started \in Guis /\ Started.token = 0
  /\ \A why \in Endings : Ended(why) \in Guis /\ Ended(why).token = 0
<1>1. Started \in Guis /\ Started.token = 0
  <2>1. NoFile \in FileIds
    BY DEF FileIds
  <2>2. QED
    BY <2>1 DEF Started, Guis, Endings, Links, Windows
<1>2. QED
  BY <1>1 DEF Ended, Guis

\* The messages other than the answer to a login carry no session.
LEMMA Plainness ==
  ASSUME NEW kind \in Kinds, NEW f \in FileIds
  PROVE  /\ Msg(kind, f) \in Letters /\ Msg(kind, f).session = 0
         /\ Bare(kind) \in Letters /\ Bare(kind).session = 0
         /\ Fault \in Letters /\ Fault.session = 0
<1>1. /\ NoFile \in FileIds
      /\ \A k \in Kinds, n \in FileIds : Msg(k, n) \in Letters /\ Msg(k, n).session = 0
  BY DEF FileIds, Msg, Letters
<1>2. QED
  BY <1>1 DEF Bare, Fault, Kinds

\* The answers and the notices that name users.
LEMMA Naming ==
  ASSUME ServerTyped, NEW c \in Clients, NEW f \in Files, UserOf(c) \in Users, NEW kind \in Kinds
  PROVE  /\ Answering(kind, c, f) \in Letters /\ Answering(kind, c, f).session = 0
         /\ Joined(c) \in Letters /\ Joined(c).session = 0
         /\ Stranger \in Letters /\ Stranger.session = 0
<1>1. /\ Msg(kind, f) \in Letters /\ Msg(kind, f).session = 0
      /\ Bare("JOINED") \in Letters /\ Bare("JOINED").session = 0
      /\ Stranger \in Letters /\ Stranger.session = 0
  BY Plainness DEF Kinds, FileIds, Stranger
<1>2. ASSUME NEW m \in Letters, NEW us \in SUBSET Users
      PROVE  [m EXCEPT !.users = us] \in Letters /\ [m EXCEPT !.users = us].session = m.session
  BY DEF Letters
<1>3. members[f] \ {UserOf(c)} \in SUBSET Users /\ {UserOf(c)} \in SUBSET Users
  BY DEF ServerTyped
<1>4. QED
  BY <1>1, <1>2, <1>3 DEF Answering, Joined

\* The sessions of a message more, of two sequences, of a rest.
LEMMA SentOf ==
  ASSUME NEW s \in Seq(Letters), NEW r \in Seq(Letters), NEW m \in Letters
  PROVE  /\ Append(s, m) \in Seq(Letters) /\ Sent(Append(s, m)) \subseteq Sent(s) \cup {m.session}
         /\ s \o r \in Seq(Letters) /\ Sent(s \o r) \subseteq Sent(s) \cup Sent(r)
         /\ s # << >> => /\ Tail(s) \in Seq(Letters) /\ Sent(Tail(s)) \subseteq Sent(s)
                         /\ Head(s) \in Letters /\ Head(s).session \in Sent(s)
<1>1. Append(s, m) \in Seq(Letters) /\ Sent(Append(s, m)) \subseteq Sent(s) \cup {m.session}
  BY DEF Sent
<1>2. s \o r \in Seq(Letters) /\ Sent(s \o r) \subseteq Sent(s) \cup Sent(r)
  <2>1. s \o r \in Seq(Letters) /\ Len(s \o r) = Len(s) + Len(r)
    OBVIOUS
  <2>2. ASSUME NEW i \in 1 .. Len(s \o r)
        PROVE  (s \o r)[i].session \in Sent(s) \cup Sent(r)
    <3>1. CASE i <= Len(s)
      <4>1. (s \o r)[i] = s[i] /\ i \in 1 .. Len(s)
        BY <3>1, <2>1
      <4>2. QED
        BY <4>1 DEF Sent
    <3>2. CASE i > Len(s)
      <4>1. (s \o r)[i] = r[i - Len(s)] /\ i - Len(s) \in 1 .. Len(r)
        BY <3>2, <2>1
      <4>2. QED
        BY <4>1 DEF Sent
    <3>3. QED
      BY <3>1, <3>2
  <2>3. QED
    BY <2>1, <2>2 DEF Sent
<1>3. ASSUME s # << >>
      PROVE  /\ Tail(s) \in Seq(Letters) /\ Sent(Tail(s)) \subseteq Sent(s)
             /\ Head(s) \in Letters /\ Head(s).session \in Sent(s)
  <2>1. Tail(s) \in Seq(Letters) /\ Len(Tail(s)) = Len(s) - 1 /\ Len(s) >= 1
    BY <1>3
  <2>2. \A i \in 1 .. Len(Tail(s)) : Tail(s)[i] = s[i + 1] /\ i + 1 \in 1 .. Len(s)
    BY <1>3, <2>1
  <2>3. Head(s) = s[1] /\ s[1] \in Letters
    BY <1>3, <2>1
  <2>4. QED
    BY <2>1, <2>2, <2>3 DEF Sent
<1>4. QED
  BY <1>1, <1>2, <1>3

\* Of no message, of one, of two.
LEMMA SentFew ==
  /\ << >> \in Seq(Letters) /\ Sent(<< >>) = {}
  /\ \A m \in Letters : <<m>> \in Seq(Letters) /\ Sent(<<m>>) = {m.session}
  /\ \A m, n \in Letters : <<m, n>> \in Seq(Letters) /\ Sent(<<m, n>>) = {m.session, n.session}
<1>1. << >> \in Seq(Letters) /\ Sent(<< >>) = {}
  BY DEF Sent
<1>2. ASSUME NEW m \in Letters
      PROVE  <<m>> \in Seq(Letters) /\ Sent(<<m>>) = {m.session}
  BY DEF Sent
<1>3. ASSUME NEW m \in Letters, NEW n \in Letters
      PROVE  <<m, n>> \in Seq(Letters) /\ Sent(<<m, n>>) = {m.session, n.session}
  <2>1. <<m, n>> \in Seq(Letters) /\ Len(<<m, n>>) = 2
    OBVIOUS
  <2>2. 1 .. 2 = {1, 2}
    OBVIOUS
  <2>3. QED
    BY <2>1, <2>2 DEF Sent
<1>4. QED
  BY <1>1, <1>2, <1>3

\* Of the same message several times.
LEMMA SentMany ==
  ASSUME NEW n \in Nat, NEW m \in Letters
  PROVE  /\ [i \in 1 .. n |-> m] \in Seq(Letters) /\ Len([i \in 1 .. n |-> m]) = n
         /\ Sent([i \in 1 .. n |-> m]) \subseteq {m.session}
<1>. DEFINE s == [i \in 1 .. n |-> m]
<1>1. s \in Seq(Letters) /\ Len(s) = n /\ \A i \in 1 .. n : s[i] = m
  OBVIOUS
<1>. HIDE DEF s
<1>2. Sent(s) \subseteq {m.session}
  BY <1>1 DEF Sent
<1>3. QED
  BY <1>1, <1>2 DEF s
-----------------------------------------------------------------------------
\* A step after which the clients are what they may be and none holds a session
\* it did not hold, and one that forgets nothing of what has happened.
Hands ==
  /\ gui' \in [Clients -> Guis] /\ down' \in [Clients -> Seq(Letters)]
  /\ \A k \in Clients : Held(k)' \subseteq Held(k) \cup {0}

Remembers ==
  /\ past' \in [Clients -> SUBSET Causes]
  /\ \A k \in Clients : past[k] \subseteq past'[k]

\* What is sent to a client, and what to others, is all that is new in down.
LEMMA DeliversWhat ==
  ASSUME ClientTyped, NEW c \in Clients, NEW answers \in Seq(Letters), NEW S, NEW m \in Letters,
         Delivers(c, answers, S, m)
  PROVE  /\ down' \in [Clients -> Seq(Letters)]
         /\ Sent(down'[c]) \subseteq Sent(down[c]) \cup Sent(answers)
         /\ \A k \in Clients \ {c} : Sent(down'[k]) \subseteq Sent(down[k]) \cup {m.session}
<1>1. /\ down' = [k \in Clients |->
           IF k = c THEN down[k] \o answers
           ELSE IF k \in S /\ Running(k) THEN Append(down[k], m) ELSE down[k]]
      /\ down \in [Clients -> Seq(Letters)]
  BY DEF Delivers, ClientTyped
<1>2. ASSUME NEW k \in Clients
      PROVE  /\ down'[k] \in Seq(Letters)
             /\ k = c => Sent(down'[k]) \subseteq Sent(down[k]) \cup Sent(answers)
             /\ k # c => Sent(down'[k]) \subseteq Sent(down[k]) \cup {m.session}
  <2>. DEFINE a == down[k] \o answers
              b == Append(down[k], m)
  <2>1. /\ down[k] \in Seq(Letters)
        /\ a \in Seq(Letters) /\ Sent(a) \subseteq Sent(down[k]) \cup Sent(answers)
        /\ b \in Seq(Letters) /\ Sent(b) \subseteq Sent(down[k]) \cup {m.session}
    BY <1>1, SentOf
  <2>2. down'[k] = IF k = c THEN a ELSE IF k \in S /\ Running(k) THEN b ELSE down[k]
    BY <1>1
  <2>. HIDE DEF a, b
  <2>3. QED
    BY <2>1, <2>2
<1>3. QED
  <2>1. down' \in [Clients -> Seq(Letters)]
    BY <1>1, <1>2
  <2>2. QED
    BY <2>1, <1>2

\* The client c becomes g and everyone is sent what carries no session.
LEMMA HandsOver ==
  ASSUME ClientTyped, NEW c \in Clients, NEW g \in Guis, g.token \in {gui[c].token, 0},
         gui' = [gui EXCEPT ![c] = g],
         NEW answers \in Seq(Letters), Sent(answers) \subseteq {0},
         NEW S, NEW m \in Letters, m.session = 0, Delivers(c, answers, S, m)
  PROVE  Hands
<1>1. /\ down' \in [Clients -> Seq(Letters)]
      /\ \A k \in Clients : Sent(down'[k]) \subseteq Sent(down[k]) \cup {0}
  BY DeliversWhat
<1>2. gui' \in [Clients -> Guis] /\ \A k \in Clients : gui'[k].token \in {gui[k].token, 0}
  BY DEF ClientTyped
<1>3. \A k \in Clients : Held(k)' = {gui'[k].token} \cup Sent(down'[k])
  BY DEF Held, Sent
<1>4. QED
  BY <1>1, <1>2, <1>3 DEF Hands, Held

\* A request with answers that carry no session.
LEMMA AsksHands ==
  ASSUME ClientTyped, NEW c \in Clients, NEW type, NEW action,
         NEW g \in Guis, g.token = gui[c].token,
         NEW answers \in Seq(Letters), Sent(answers) \subseteq {0},
         Asks(c, type, action, g, answers)
  PROVE  Hands
<1>1. Fault \in Letters /\ Fault.session = 0
  BY Plainness DEF Kinds, FileIds
<1>2. gui' = [gui EXCEPT ![c] = g] /\ Delivers(c, answers, {}, Fault)
  BY DEF Asks
<1>3. QED
  BY <1>1, <1>2, HandsOver

\* A client whose process ends holds nothing.
LEMMA EndsHands ==
  ASSUME ClientTyped, NEW c \in Clients, NEW why \in Endings, Ends(c, why)
  PROVE  Hands
<1>1. Ended(why) \in Guis /\ Ended(why).token = 0 /\ << >> \in Seq(Letters) /\ Sent(<< >>) = {}
  BY Beginnings, SentFew
<1>2. /\ gui' = [gui EXCEPT ![c] = Ended(why)] /\ down' = [down EXCEPT ![c] = << >>]
      /\ gui \in [Clients -> Guis] /\ down \in [Clients -> Seq(Letters)]
  BY DEF Ends, ClientTyped
<1>3. /\ gui' \in [Clients -> Guis] /\ down' \in [Clients -> Seq(Letters)]
      /\ \A k \in Clients : gui'[k].token \in {gui[k].token, 0} /\ Sent(down'[k]) \subseteq Sent(down[k])
  BY <1>1, <1>2
<1>4. \A k \in Clients : Held(k)' = {gui'[k].token} \cup Sent(down'[k])
  BY DEF Held, Sent
<1>5. QED
  BY <1>3, <1>4 DEF Hands, Held
-----------------------------------------------------------------------------
\* The four parts of IInv that are about more than types, each by what it needs.
LEMMA TokensKept ==
  ASSUME Tokens, ServerTyped, Hands, UNCHANGED <<entry, sessions>>
  PROVE  Tokens'
BY DEF Tokens, ServerTyped, Hands

\* Nothing of the sessions or entries changes: they still match.
LEMMA MatchKept ==
  ASSUME SessionsMatch, Remembers, UNCHANGED <<entry, sessions>>
  PROVE  SessionsMatch'
BY DEF SessionsMatch, Remembers

\* Nothing of the entries, lists or rows changes: whoever is in a list is still seated.
LEMMA SeatedKept ==
  ASSUME Seated, Remembers, UNCHANGED <<entry, open, inFile, rows, members, born>>
  PROVE  Seated'
BY DEF Seated, Remembers

\* The server falls at most with a ghost in a list.
LEMMA FallsKept ==
  ASSUME FallsOnlyToGhosts, Remembers,
         server' = server \/ \E k \in Clients : "haunting" \in past[k]
  PROVE  FallsOnlyToGhosts'
BY DEF FallsOnlyToGhosts, Remembers

\* A step of the clients alone.
LEMMA Stays ==
  ASSUME IInv, Hands, Remembers, UNCHANGED <<manager, store, server>>
  PROVE  IInv'
<1>1. UNCHANGED <<entry, open, inFile, sessions, rows, members, born, server>>
  BY DEF manager, store
<1>2. ClientTyped' /\ ServerTyped'
  BY <1>1 DEF IInv, ClientTyped, ServerTyped, Hands, Remembers
<1>3. Tokens' /\ SessionsMatch' /\ Seated' /\ FallsOnlyToGhosts'
  BY <1>1, TokensKept, MatchKept, SeatedKept, FallsKept DEF IInv
<1>4. QED
  BY <1>2, <1>3 DEF IInv
-----------------------------------------------------------------------------
\* Nothing is forgotten by a step that leaves past alone, or adds a cause to it.
LEMMA PastKept ==
  ASSUME ClientTyped,
         \/ past' = past
         \/ \E c \in Clients, x \in Causes : past' = [past EXCEPT ![c] = @ \cup {x}]
         \/ \E c \in Clients, xs \in SUBSET Causes : past' = [past EXCEPT ![c] = @ \cup xs]
  PROVE  Remembers
BY DEF ClientTyped, Remembers

\* A step of the windows of a client.
LEMMA GuiHands ==
  ASSUME ClientTyped, NEW c \in Clients, NEW g \in Guis, g.token = gui[c].token,
         gui' = [gui EXCEPT ![c] = g], down' = down
  PROVE  Hands
<1>1. \A k \in Clients : Held(k)' = {gui'[k].token} \cup Sent(down[k])
  BY DEF Held, Sent
<1>2. gui' \in [Clients -> Guis] /\ \A k \in Clients : gui'[k].token = gui[k].token
  BY DEF ClientTyped
<1>3. QED
  BY <1>1, <1>2 DEF Hands, Held, ClientTyped

\* The connection, and the turns between windows.
LEMMA ConnectionKeeps ==
  ASSUME IInv, NEW c \in Clients,
         \/ Connect(c) \/ SocketConnected(c) \/ Connected(c) \/ CheckConnection(c)
  PROVE  IInv'
<1>. DEFINE g == gui[c]
<1>1. ClientTyped /\ g \in Guis
  BY DEF IInv, ClientTyped
<1>2. CASE Connect(c)
  <2>. DEFINE s == Freeze(g)
              h == [s EXCEPT !.conn = "opening", !.timer = TRUE]
  <2>1. h \in Guis /\ h.token = g.token
    <3>1. s \in Guis /\ s.token = g.token
      BY <1>1, GuiOps
    <3>. HIDE DEF s
    <3>2. QED
      BY <3>1 DEF Guis, Links
  <2>2. gui' = [gui EXCEPT ![c] = h]
    BY <1>2 DEF Connect
  <2>3. QED
    <3>. HIDE DEF h
    <3>1. UNCHANGED <<down, manager, store, server, past>>
      BY <1>2 DEF Connect, history
    <3>2. QED
      BY <1>1, <2>1, <2>2, <3>1, GuiHands, PastKept, Stays
<1>3. CASE SocketConnected(c)
  <2>. DEFINE h == [g EXCEPT !.conn = "open"]
  <2>1. h \in Guis /\ h.token = g.token
    BY <1>1 DEF Guis, Links
  <2>2. gui' = [gui EXCEPT ![c] = h]
    BY <1>3 DEF SocketConnected
  <2>3. QED
    <3>. HIDE DEF h
    <3>1. UNCHANGED <<down, manager, store, server, past>>
      BY <1>3 DEF SocketConnected, history
    <3>2. QED
      BY <1>1, <2>1, <2>2, <3>1, GuiHands, PastKept, Stays
<1>4. CASE Connected(c)
  <2>. DEFINE h == Show(Unfreeze(g), "Login")
  <2>1. h \in Guis /\ h.token = g.token
    BY <1>1, GuiOps DEF Windows
  <2>2. UNCHANGED <<down, manager, store, server, past>>
    BY <1>4 DEF Connected, history
  <2>3. CASE g.conn = "open"
    <3>. DEFINE i == [h EXCEPT !.conn = "made", !.timer = FALSE]
    <3>1. i \in Guis /\ i.token = g.token
      <4>. HIDE DEF h
      <4>1. QED
        BY <2>1 DEF Guis, Links
    <3>2. gui' = [gui EXCEPT ![c] = i]
      BY <1>4, <2>3 DEF Connected
    <3>3. QED
      <4>. HIDE DEF i
      <4>1. QED
        BY <1>1, <3>1, <3>2, <2>2, GuiHands, PastKept, Stays
  <2>4. CASE g.conn # "open"
    <3>. DEFINE e == Ended("lost")
    <3>1. e \in Guis /\ e.token = 0
      BY Beginnings DEF Endings
    <3>2. gui' = [gui EXCEPT ![c] = e]
      BY <1>4, <2>4 DEF Connected
    <3>3. Hands
      <4>. HIDE DEF e
      <4>1. \A k \in Clients : Held(k)' = {gui'[k].token} \cup Sent(down[k])
        BY <2>2 DEF Held, Sent
      <4>2. gui' \in [Clients -> Guis] /\ \A k \in Clients : gui'[k].token \in {gui[k].token, 0}
        BY <1>1, <3>1, <3>2 DEF ClientTyped
      <4>3. QED
        BY <1>1, <2>2, <4>1, <4>2 DEF Hands, Held, ClientTyped
    <3>4. QED
      BY <1>1, <3>3, <2>2, PastKept, Stays
  <2>5. QED
    BY <2>3, <2>4
<1>5. CASE CheckConnection(c)
  <2>. DEFINE s == Show(Unfreeze(g), "Connect")
              h == [s EXCEPT !.timer = FALSE, !.conn = IF g.conn = "open" THEN "aborted" ELSE "none"]
  <2>1. s \in Guis /\ s.token = g.token
    BY <1>1, GuiOps DEF Windows
  <2>2. h \in Guis /\ h.token = g.token
    <3>. HIDE DEF s
    <3>1. QED
      BY <2>1 DEF Guis, Links
  <2>3. gui' = [gui EXCEPT ![c] = h] /\ UNCHANGED <<down, manager, store, server>>
    BY <1>5 DEF CheckConnection
  <2>4. \/ past' = [past EXCEPT ![c] = @ \cup {"raced"}]
        \/ past' = past
    BY <1>1, <1>5 DEF CheckConnection, ClientTyped
  <2>5. "raced" \in Causes
    BY DEF Causes
  <2>6. QED
    <3>. HIDE DEF h
    <3>1. Remembers
      BY <1>1, <2>4, <2>5, PastKept
    <3>2. QED
      BY <1>1, <2>2, <2>3, <3>1, GuiHands, Stays
<1>6. QED
  BY <1>2, <1>3, <1>4, <1>5
-----------------------------------------------------------------------------
\* A message of the server is taken: the client becomes h, whose token it held, and
\* is sent the answers r, which carry no session.
LEMMA TakenKeeps ==
  ASSUME IInv, NEW c \in Clients, down[c] # << >>,
         NEW h \in Guis, h.token \in Held(c), NEW r \in Seq(Letters), Sent(r) \subseteq {0},
         gui' = [gui EXCEPT ![c] = h], down' = [down EXCEPT ![c] = Tail(@) \o r],
         UNCHANGED <<manager, store, server>>, Remembers
  PROVE  IInv'
<1>. DEFINE s == Tail(down[c]) \o r
<1>1. ClientTyped /\ down' = [down EXCEPT ![c] = s]
  BY DEF IInv, ClientTyped
<1>2. s \in Seq(Letters) /\ Sent(s) \subseteq Sent(down[c]) \cup {0}
  <2>1. down[c] \in Seq(Letters)
    BY <1>1 DEF ClientTyped
  <2>2. Fault \in Letters
    BY Plainness DEF Kinds, FileIds
  <2>3. Tail(down[c]) \in Seq(Letters) /\ Sent(Tail(down[c])) \subseteq Sent(down[c])
    BY <2>1, <2>2, SentOf
  <2>4. Sent(s) \subseteq Sent(Tail(down[c])) \cup Sent(r) /\ s \in Seq(Letters)
    BY <2>2, <2>3, SentOf
  <2>5. QED
    BY <2>3, <2>4
<1>. HIDE DEF s
<1>3. Hands
  <2>1. gui' \in [Clients -> Guis] /\ down' \in [Clients -> Seq(Letters)]
    BY <1>1, <1>2 DEF ClientTyped
  <2>2. \A k \in Clients : Held(k)' = {gui'[k].token} \cup Sent(down'[k])
    BY DEF Held, Sent
  <2>3. \A k \in Clients \ {c} : gui'[k] = gui[k] /\ down'[k] = down[k]
    BY <1>1 DEF ClientTyped
  <2>4. gui'[c] = h /\ down'[c] = s
    BY <1>1 DEF ClientTyped
  <2>5. Held(c)' \subseteq Held(c) \cup {0}
    BY <1>2, <2>2, <2>4 DEF Held
  <2>6. \A k \in Clients \ {c} : Held(k)' = Held(k)
    BY <2>2, <2>3 DEF Held
  <2>7. QED
    BY <2>1, <2>5, <2>6 DEF Hands
<1>4. QED
  BY <1>3, Stays

\* What is asked for a listing, and what an icon comes to.
LEMMA FewAnswers ==
  ASSUME NEW g, NEW c \in Clients
  PROVE  /\ Refused(g) \in Seq(Letters) /\ Sent(Refused(g)) \subseteq {0}
         /\ Icons(c) \in Seq(Letters) /\ Sent(Icons(c)) \subseteq {0}
         /\ Refused(g) \o Icons(c) \in Seq(Letters) /\ Sent(Refused(g) \o Icons(c)) \subseteq {0}
<1>1. /\ Fault \in Letters /\ Fault.session = 0
      /\ Bare("ICON") \in Letters /\ Bare("ICON").session = 0
  BY Plainness DEF Kinds, FileIds
<1>2. /\ Refused(g) \in Seq(Letters) /\ Sent(Refused(g)) \subseteq {0}
      /\ Icons(c) \in Seq(Letters) /\ Sent(Icons(c)) \subseteq {0}
  BY <1>1, SentFew DEF Refused, Icons
<1>3. QED
  BY <1>1, <1>2, SentOf

\* A slot for a message of the server: the client becomes g, whose token it held.
LEMMA BecomesKeeps ==
  ASSUME IInv, NEW c \in Clients, down[c] # << >>,
         NEW g \in Guis, g.token \in Held(c),
         NEW needsToken \in BOOLEAN, NEW refreshes \in BOOLEAN,
         Becomes(c, g, needsToken, refreshes), Remembers
  PROVE  IInv'
<1>1. ClientTyped /\ UNCHANGED <<manager, store, server>>
  BY DEF IInv, Becomes
<1>2. CASE Ends(c, "notLogged")
  <2>1. "notLogged" \in Endings
    BY DEF Endings
  <2>2. QED
    BY <1>1, <1>2, <2>1, EndsHands, Stays
<1>3. CASE ~ Ends(c, "notLogged")
  <2>. DEFINE h == IF refreshes THEN Refresh(g) ELSE g
              r == IF refreshes THEN Refused(g) ELSE << >>
  <2>1. gui' = [gui EXCEPT ![c] = h] /\ down' = [down EXCEPT ![c] = Tail(@) \o r]
    BY <1>1, <1>3 DEF Becomes
  <2>2. h \in Guis /\ h.token = g.token
    BY GuiOps
  <2>3. r \in Seq(Letters) /\ Sent(r) \subseteq {0}
    BY FewAnswers, SentFew
  <2>. HIDE DEF h, r
  <2>4. QED
    BY <1>1, <2>1, <2>2, <2>3, TakenKeeps
<1>4. QED
  BY <1>2, <1>3

\* A slot that shows the file that has come, and asks for the icons of its users.
LEMMA DisplaysKeeps ==
  ASSUME IInv, NEW c \in Clients, down[c] # << >>,
         NEW g \in Guis, g.token \in Held(c), NEW refreshes \in BOOLEAN,
         Displays(c, g, refreshes)
  PROVE  IInv'
<1>1. /\ ClientTyped /\ UNCHANGED <<manager, store, server>>
      /\ Remembers
  BY PastKept DEF IInv, Displays, history
<1>2. CASE Ends(c, "notLogged")
  <2>1. "notLogged" \in Endings
    BY DEF Endings
  <2>2. QED
    BY <1>1, <1>2, <2>1, EndsHands, Stays
<1>3. CASE ~ Ends(c, "notLogged")
  <2>. DEFINE h == IF refreshes THEN Refresh(g) ELSE g
              q == IF refreshes THEN Refused(g) ELSE << >>
              i == Icons(c)
              r == q \o i
  <2>1. gui' = [gui EXCEPT ![c] = h] /\ down' = [down EXCEPT ![c] = Tail(@) \o q \o i]
    BY <1>1, <1>3 DEF Displays
  <2>2. h \in Guis /\ h.token = g.token
    BY GuiOps
  <2>3. /\ q \in Seq(Letters) /\ Sent(q) \subseteq {0}
        /\ i \in Seq(Letters) /\ Sent(i) \subseteq {0}
    BY FewAnswers, SentFew
  <2>4. down[c] \in Seq(Letters) /\ Fault \in Letters
    BY <1>1, Plainness DEF ClientTyped, Kinds, FileIds
  <2>5. Tail(down[c]) \in Seq(Letters)
    BY <2>4, SentOf
  <2>. HIDE DEF h, q, i
  <2>6. r \in Seq(Letters) /\ Sent(r) \subseteq {0}
    BY <2>3, <2>4, SentOf
  <2>7. down' = [down EXCEPT ![c] = Tail(@) \o r]
    <3>1. Tail(down[c]) \o q \o i = Tail(down[c]) \o (q \o i)
      <4>1. ASSUME NEW x \in Seq(Letters), NEW y \in Seq(Letters), NEW z \in Seq(Letters)
            PROVE  (x \o y) \o z = x \o (y \o z)
        BY ConcatAssociative
      <4>2. QED
        BY <2>3, <2>5, <4>1, Zenon
    <3>2. QED
      BY <1>1, <2>1, <3>1 DEF ClientTyped
  <2>. HIDE DEF r
  <2>8. QED
    BY <1>1, <2>1, <2>2, <2>6, <2>7, TakenKeeps
<1>4. QED
  BY <1>2, <1>3

\* The slots of GuiManager.
LEMMA ReceivingKeeps ==
  ASSUME IInv, NEW c \in Clients, Receiving(c)
  PROVE  IInv'
<1>. DEFINE g == gui[c]
            m == Head(down[c])
<1>1. /\ ClientTyped /\ g \in Guis /\ g.token \in Held(c)
      /\ down[c] \in Seq(Letters)
  BY DEF IInv, ClientTyped, Held
<1>2. down[c] # << >>
  BY DEF Receiving, ServerRelease, ServerLogin, ServerEditUser, ServerDeleteUser, ServerNewFile,
         ServerGetFile, ServerDeletedFile, ServerDeleteFile, ServerRefresh, ServerGetAllDirs,
         ServerStranger, ServerJoined, ServerIcon, Arrives
<1>3. m \in Letters /\ m.session \in Held(c) /\ m.session \in Nat /\ m.file \in FileIds
  <2>1. m \in Letters /\ m.session \in Sent(down[c])
    BY <1>1, <1>2, SentOf
  <2>2. QED
    BY <2>1 DEF Held, Letters
<1>4. /\ Unfreeze(g) \in Guis /\ Unfreeze(g).token = g.token
      /\ CloseFile(g) \in Guis /\ CloseFile(g).token = g.token
      /\ LogIn(g, m.session) \in Guis /\ LogIn(g, m.session).token = m.session
      /\ OpenFile(g, m.file) \in Guis /\ OpenFile(g, m.file).token = g.token
  BY <1>1, <1>3, GuiOps
<1>5. UNCHANGED history => Remembers
  BY <1>1, PastKept DEF history
<1>. HIDE DEF g, m
<1>6. CASE ServerRelease(c)
  <2>1. Becomes(c, Unfreeze(g), FALSE, FALSE) /\ UNCHANGED history
    BY <1>6 DEF ServerRelease, g
  <2>2. QED
    BY <1>1, <1>2, <1>4, <1>5, <2>1, BecomesKeeps
<1>7. CASE ServerLogin(c)
  <2>. DEFINE h == Show(Unfreeze(LogIn(g, m.session)), "Browser")
  <2>1. h \in Guis /\ h.token = m.session
    BY <1>4, GuiOps DEF Windows
  <2>2. Becomes(c, h, TRUE, TRUE) /\ UNCHANGED history
    BY <1>7 DEF ServerLogin, g, m
  <2>. HIDE DEF h
  <2>3. QED
    BY <1>2, <1>3, <1>5, <2>1, <2>2, BecomesKeeps
<1>8. CASE ServerEditUser(c)
  <2>. DEFINE h == Show(Unfreeze(g), "Browser")
  <2>1. h \in Guis /\ h.token = g.token
    BY <1>4, GuiOps DEF Windows
  <2>2. Becomes(c, h, FALSE, FALSE) /\ UNCHANGED history
    BY <1>8 DEF ServerEditUser, g
  <2>. HIDE DEF h
  <2>3. QED
    BY <1>1, <1>2, <1>5, <2>1, <2>2, BecomesKeeps
<1>9. CASE ServerDeleteUser(c)
  <2>. DEFINE h == Show(Unfreeze(g), "Login")
  <2>1. h \in Guis /\ h.token = g.token
    BY <1>4, GuiOps DEF Windows
  <2>2. Becomes(c, h, FALSE, FALSE) /\ UNCHANGED history
    BY <1>9 DEF ServerDeleteUser, g
  <2>. HIDE DEF h
  <2>3. QED
    BY <1>1, <1>2, <1>5, <2>1, <2>2, BecomesKeeps
<1>10. /\ Opened(c) \in Guis /\ Opened(c).token = g.token
  BY <1>4, GuiOps DEF Windows, Opened, g, m
<1>11. CASE ServerNewFile(c)
  <2>. DEFINE o == Opened(c)
              h == [o EXCEPT !.fileId = m.file]
  <2>. HIDE DEF o
  <2>1. h \in Guis /\ h.token = g.token
    BY <1>3, <1>10 DEF Guis, o
  <2>2. Displays(c, h, TRUE)
    BY <1>11 DEF ServerNewFile, m, o
  <2>. HIDE DEF h
  <2>3. QED
    BY <1>1, <1>2, <2>1, <2>2, DisplaysKeeps
<1>12. CASE ServerGetFile(c)
  <2>1. Displays(c, Opened(c), FALSE)
    BY <1>12 DEF ServerGetFile
  <2>2. QED
    BY <1>1, <1>2, <1>10, <2>1, DisplaysKeeps
<1>13. "returned" \in Causes
  BY DEF Causes
<1>14. CASE ServerDeletedFile(c)
  <2>. DEFINE h == Show(CloseFile(g), "Browser")
  <2>1. h \in Guis /\ h.token = g.token
    BY <1>4, GuiOps DEF Windows
  <2>2. Becomes(c, h, TRUE, TRUE) /\ Remembers
    BY <1>1, <1>13, <1>14, PastKept DEF ServerDeletedFile, g
  <2>. HIDE DEF h
  <2>3. QED
    BY <1>1, <1>2, <2>1, <2>2, BecomesKeeps
<1>15. CASE ServerDeleteFile(c)
  <2>. DEFINE h == Show(Unfreeze(CloseFile(g)), "Browser")
  <2>1. h \in Guis /\ h.token = g.token
    BY <1>4, GuiOps DEF Windows
  <2>2. Becomes(c, h, TRUE, TRUE) /\ Remembers
    BY <1>1, <1>13, <1>15, PastKept DEF ServerDeleteFile, g
  <2>. HIDE DEF h
  <2>3. QED
    BY <1>1, <1>2, <2>1, <2>2, BecomesKeeps
<1>16. CASE ServerRefresh(c)
  <2>1. Becomes(c, g, TRUE, TRUE) /\ UNCHANGED history
    BY <1>16 DEF ServerRefresh, g
  <2>2. QED
    BY <1>1, <1>2, <1>5, <2>1, BecomesKeeps
<1>17. CASE ServerGetAllDirs(c)
  <2>1. Remembers
    BY <1>5, <1>17 DEF ServerGetAllDirs
  <2>2. CASE Becomes(c, g, FALSE, FALSE) \/ Becomes(c, g, TRUE, FALSE)
    BY <1>1, <1>2, <2>1, <2>2, BecomesKeeps
  <2>3. CASE ~ (Becomes(c, g, FALSE, FALSE) \/ Becomes(c, g, TRUE, FALSE))
    <3>1. PICK f \in g.listed :
            down' = [down EXCEPT ![c] = Append(Tail(@), IF Reaches(c, f) THEN Bare("REFRESH") ELSE Fault)]
      BY <1>17, <2>3 DEF ServerGetAllDirs, g
    <3>2. gui' = gui /\ UNCHANGED <<manager, store, server>>
      BY <1>17, <2>3 DEF ServerGetAllDirs, g
    <3>. DEFINE a == IF Reaches(c, f) THEN Bare("REFRESH") ELSE Fault
    <3>3. a \in Letters /\ a.session = 0
      BY Plainness DEF Kinds, FileIds
    <3>. HIDE DEF a
    <3>4. <<a>> \in Seq(Letters) /\ Sent(<<a>>) \subseteq {0}
      BY <3>3, SentFew
    <3>5. gui' = [gui EXCEPT ![c] = g] /\ down' = [down EXCEPT ![c] = Tail(@) \o <<a>>]
      <4>1. Tail(down[c]) \in Seq(Letters)
        BY <1>1, <1>2, <1>3, SentOf
      <4>2. Append(Tail(down[c]), a) = Tail(down[c]) \o <<a>>
        BY <3>3, <4>1
      <4>3. QED
        BY <1>1, <3>1, <3>2, <4>2 DEF ClientTyped, a, g
    <3>6. QED
      BY <1>1, <1>2, <2>1, <3>2, <3>4, <3>5, TakenKeeps
  <2>4. QED
    BY <2>2, <2>3
<1>18. CASE ServerStranger(c)
  <2>1. Ends(c, "stranger") /\ UNCHANGED <<manager, store, server, history>>
    BY <1>18 DEF ServerStranger
  <2>2. "stranger" \in Endings
    BY DEF Endings
  <2>3. QED
    BY <1>1, <1>5, <2>1, <2>2, EndsHands, Stays
<1>19. CASE ServerIcon(c)
  <2>1. Ends(c, "icon") /\ UNCHANGED <<manager, store, server, history>>
    BY <1>19 DEF ServerIcon
  <2>2. "icon" \in Endings
    BY DEF Endings
  <2>3. QED
    BY <1>1, <1>5, <2>1, <2>2, EndsHands, Stays
<1>20. CASE ServerJoined(c)
  <2>1. UNCHANGED <<manager, store, server, history>>
    BY <1>20 DEF ServerJoined
  <2>2. CASE Ends(c, "stranger")
    <3>1. "stranger" \in Endings
      BY DEF Endings
    <3>2. QED
      BY <1>1, <1>5, <2>1, <2>2, <3>1, EndsHands, Stays
  <2>3. CASE ~ Ends(c, "stranger")
    <3>1. gui' = [gui EXCEPT ![c] = g] /\ down' = [down EXCEPT ![c] = Tail(@) \o Icons(c)]
      BY <1>1, <1>20, <2>3 DEF ServerJoined, g, ClientTyped
    <3>2. QED
      BY <1>1, <1>2, <1>5, <2>1, <3>1, FewAnswers, TakenKeeps
  <2>4. QED
    BY <2>2, <2>3
<1>21. QED
  BY <1>6, <1>7, <1>8, <1>9, <1>11, <1>12, <1>14, <1>15, <1>16, <1>17, <1>18, <1>19, <1>20
  DEF Receiving
-----------------------------------------------------------------------------
\* The token of a client is one the table can be asked about; if it is valid, the
\* client has an entry, with that session.
LEMMA Validity ==
  ASSUME IInv, NEW c \in Clients
  PROVE  /\ Valid(Holds(c)) \in BOOLEAN
         /\ Valid(Holds(c)) => /\ Holds(c) \in 1 .. Len(sessions) /\ entry[c] = Holds(c)
                               /\ UserOf(c) \in Users
<1>1. /\ Holds(c) \in 0 .. Len(sessions) /\ sessions \in Seq(Sessions)
      /\ Holds(c) # 0 /\ sessions[Holds(c)].active => entry[c] = Holds(c)
  BY DEF IInv, Tokens, Held, Holds, ServerTyped
<1>2. Holds(c) # 0 => sessions[Holds(c)] \in Sessions
  BY <1>1
<1>3. QED
  BY <1>1, <1>2 DEF Valid, UserOf, Sessions

\* A request that is answered with one message, or with an error, and changes
\* nothing at the server.
LEMMA InquiryKeeps ==
  ASSUME IInv, NEW c \in Clients, NEW type, NEW action, NEW kind \in Kinds, NEW B \in BOOLEAN,
         NEW g \in Guis, g.token = gui[c].token, Remembers,
         Asks(c, type, action, g, IF B THEN <<Bare(kind)>> ELSE <<Fault>>),
         UNCHANGED <<manager, store, server>>
  PROVE  IInv'
<1>. DEFINE r == IF B THEN <<Bare(kind)>> ELSE <<Fault>>
<1>1. r \in Seq(Letters) /\ Sent(r) \subseteq {0}
  <2>1. /\ Bare(kind) \in Letters /\ Bare(kind).session = 0
        /\ Fault \in Letters /\ Fault.session = 0
    BY Plainness DEF FileIds
  <2>2. QED
    BY <2>1, SentFew
<1>2. Asks(c, type, action, g, r)
  OBVIOUS
<1>. HIDE DEF r
<1>3. Hands
  BY <1>1, <1>2, AsksHands DEF IInv
<1>4. QED
  BY <1>3, Stays

\* A request that a dialog answers freezes the window and changes nothing at the server.
LEMMA DialogKeeps ==
  ASSUME IInv, NEW c \in Clients, NEW action, NEW f, Dialog(c, action, f)
  PROVE  IInv'
<1>1. /\ ClientTyped /\ Freeze(gui[c]) \in Guis /\ Freeze(gui[c]).token = gui[c].token
  BY GuiOps DEF IInv, ClientTyped
<1>2. Remembers /\ UNCHANGED <<manager, store, server>>
  BY <1>1, PastKept DEF Dialog, history
<1>3. Reaches(c, f) \in BOOLEAN
  BY DEF Reaches
<1>4. "DIALOG" \in Kinds
  BY DEF Kinds
<1>5. Asks(c, "FILE", action, Freeze(gui[c]), IF Reaches(c, f) THEN <<Bare("DIALOG")>> ELSE <<Fault>>)
  BY DEF Dialog
<1>6. QED
  BY <1>1, <1>2, <1>3, <1>4, <1>5, InquiryKeeps

\* What a client does that leaves the server's tables as they are.
LEMMA ActsKeep ==
  ASSUME IInv, NEW c \in Clients,
         \/ Quit(c) \/ ConnectionLost(c) \/ ActUnlogged(c)
         \/ GoRegister(c) \/ Cancel(c) \/ EditAccount(c) \/ EditCancel(c)
         \/ EditSave(c) \/ Alter(c) \/ GetAllDirs(c) \/ EditorRename(c)
         \/ (\E f \in Files : BrowserInfo(c, f)) \/ BrowserShare(c) \/ EditorInquiry(c)
  PROVE  IInv'
<1>. DEFINE g == gui[c]
<1>1. /\ ClientTyped /\ g \in Guis /\ Freeze(g) \in Guis /\ Freeze(g).token = g.token
  BY GuiOps DEF IInv, ClientTyped
<1>2. UNCHANGED history => Remembers
  BY <1>1, PastKept DEF history
<1>3. {"lost", "quit", "notLogged", "noFile"} \subseteq Endings
  BY DEF Endings
<1>4. CASE Quit(c)
  BY <1>1, <1>2, <1>3, <1>4, EndsHands, Stays DEF Quit
<1>5. CASE ConnectionLost(c)
  BY <1>1, <1>2, <1>3, <1>5, EndsHands, Stays DEF ConnectionLost
<1>6. CASE ActUnlogged(c)
  BY <1>1, <1>2, <1>3, <1>6, EndsHands, Stays DEF ActUnlogged
<1>7. CASE GoRegister(c) \/ Cancel(c) \/ EditAccount(c) \/ EditCancel(c)
  <2>1. PICK from \in Windows, to \in Windows : Turn(c, from, to)
    BY <1>7 DEF GoRegister, Cancel, EditAccount, EditCancel, Windows
  <2>2. Show(g, to) \in Guis /\ Show(g, to).token = g.token
    BY <1>1, GuiOps
  <2>3. gui' = [gui EXCEPT ![c] = Show(g, to)] /\ UNCHANGED <<down, manager, store, server, history>>
    BY <2>1 DEF Turn
  <2>4. QED
    BY <1>1, <1>2, <2>2, <2>3, GuiHands, Stays
<1>8. CASE EditSave(c)
  <2>1. "covered" \in Causes /\ "EDIT_USER" \in Kinds
    BY DEF Causes, Kinds
  <2>2. Remembers
    BY <1>1, <1>8, <2>1, PastKept DEF EditSave
  <2>3. Valid(Holds(c)) \in BOOLEAN
    BY Validity
  <2>4. QED
    BY <1>1, <1>8, <2>1, <2>2, <2>3, InquiryKeeps DEF EditSave
<1>9. CASE Alter(c)
  <2>1. PICK f \in gui[c].listed :
          Delivers(c, IF Reaches(c, f) THEN <<Bare("REFRESH")>> ELSE <<Fault>>, {}, Fault)
    BY <1>9 DEF Alter
  <2>. DEFINE r == IF Reaches(c, f) THEN <<Bare("REFRESH")>> ELSE <<Fault>>
  <2>2. Fault \in Letters /\ Fault.session = 0
    BY Plainness DEF Kinds, FileIds
  <2>3. r \in Seq(Letters) /\ Sent(r) \subseteq {0}
    <3>1. Bare("REFRESH") \in Letters /\ Bare("REFRESH").session = 0
      BY Plainness DEF Kinds, FileIds
    <3>2. QED
      BY <2>2, <3>1, SentFew
  <2>4. gui' = [gui EXCEPT ![c] = g] /\ UNCHANGED <<manager, store, server, history>>
    BY <1>1, <1>9 DEF Alter, ClientTyped
  <2>. HIDE DEF r
  <2>5. Hands
    BY <1>1, <2>1, <2>2, <2>3, <2>4, HandsOver DEF r
  <2>6. QED
    BY <1>2, <2>4, <2>5, Stays
<1>10. CASE GetAllDirs(c)
  <2>1. Valid(Holds(c)) \in BOOLEAN
    BY Validity
  <2>2. "ALL_DIRS" \in Kinds
    BY DEF Kinds
  <2>3. QED
    BY <1>1, <1>2, <1>10, <2>1, <2>2, InquiryKeeps DEF GetAllDirs
<1>11. CASE EditorRename(c)
  <2>1. Reaches(c, gui[c].fileId) \in BOOLEAN /\ "REFRESH" \in Kinds
    BY DEF Reaches, Kinds
  <2>2. QED
    BY <1>1, <1>2, <1>11, <2>1, InquiryKeeps DEF EditorRename
<1>12. CASE \E f \in Files : BrowserInfo(c, f)
  BY <1>12, DialogKeeps DEF BrowserInfo
<1>13. CASE BrowserShare(c)
  BY <1>1, <1>2, <1>3, <1>13, DialogKeeps, EndsHands, Stays DEF BrowserShare
<1>14. CASE EditorInquiry(c)
  BY <1>14, DialogKeeps DEF EditorInquiry
<1>15. QED
  BY <1>4, <1>5, <1>6, <1>7, <1>8, <1>9, <1>10, <1>11, <1>12, <1>13, <1>14
-----------------------------------------------------------------------------
\* The loop over the clients of a file falls over one without an entry, who was
\* left in the list; for a file with rows that takes an account removed.
LEMMA FallenOverGhost ==
  ASSUME IInv, NEW c \in Clients, NEW f \in Files, rows[f] # {}, "fallen" \in Relayed(c, f)
  PROVE  \E k \in Clients : "haunting" \in past[k]
<1>1. PICK k \in inFile[f] : entry[k] = 0
  BY DEF Relayed, Ghosts, Others
<1>2. QED
  BY <1>1 DEF IInv, Seated

\* The ways a relay of the server may end.
LEMMA RelayedAre ==
  ASSUME NEW c, NEW f
  PROVE  Relayed(c, f) \subseteq {"done", "refused", "fallen"}
BY DEF Relayed

\* A request with a relay to the others of a file that has rows.
LEMMA RelaysHands ==
  ASSUME IInv, NEW c \in Clients, NEW type, NEW action, NEW f \in Files, rows[f] # {},
         NEW g \in Guis, g.token = gui[c].token,
         NEW ok \in Seq(Letters), Sent(ok) \subseteq {0},
         NEW T, NEW m \in Letters, m.session = 0,
         NEW r \in Relayed(c, f), Relays(c, type, action, g, r, ok, T, m), Remembers
  PROVE  Hands /\ FallsOnlyToGhosts'
<1>. DEFINE s == CASE r = "done" -> ok [] r = "refused" -> <<Fault>> [] r = "fallen" -> << >>
<1>1. r \in {"done", "refused", "fallen"}
  BY RelayedAre
<1>2. s \in Seq(Letters) /\ Sent(s) \subseteq {0}
  <2>1. Fault \in Letters /\ Fault.session = 0
    BY Plainness DEF Kinds, FileIds
  <2>2. s \in {ok, <<Fault>>, << >>}
    BY <1>1
  <2>. HIDE DEF s
  <2>3. QED
    BY <2>1, <2>2, SentFew
<1>3. /\ gui' = [gui EXCEPT ![c] = g] /\ Delivers(c, s, T, m)
      /\ server' = IF r = "fallen" THEN "fallen" ELSE server
  BY DEF Relays
<1>. HIDE DEF s
<1>4. Hands
  BY <1>2, <1>3, HandsOver DEF IInv
<1>5. FallsOnlyToGhosts'
  <2>1. server' = server \/ r = "fallen"
    BY <1>3
  <2>2. QED
    BY <2>1, FallenOverGhost, FallsKept DEF IInv
<1>6. QED
  BY <1>4, <1>5

\* A client that has no file open, and has an entry, enters one that has rows or
\* is made now.
LEMMA EnterSeats ==
  ASSUME IInv, NEW c \in Clients, NEW f \in Files, NEW us \in SUBSET Users, NEW r, NEW T,
         open[c] = NoFile, entry[c] # 0, UserOf(c) \in Users, f \notin born \/ rows[f] # {},
         Enter(c, f, r, T), rows' = [rows EXCEPT ![f] = us], born' = born \cup {f},
         UNCHANGED <<entry, sessions>>, Remembers
  PROVE  ServerTyped' /\ Seated'
<1>1. /\ open' = [open EXCEPT ![c] = f] /\ inFile' = [inFile EXCEPT ![f] = @ \cup {c}]
      /\ members' = [members EXCEPT ![f] = members[f] \cup {UserOf(c)}]
  BY DEF Enter
<1>2. ServerTyped'
  BY <1>1 DEF IInv, ServerTyped, FileIds
<1>3. ASSUME NEW d \in Files \ born'
      PROVE  rows'[d] = {} /\ inFile'[d] = {}
  BY <1>1, <1>3 DEF IInv, ServerTyped, Seated
<1>4. ASSUME ~ \E k \in Clients : "haunting" \in past'[k],
             NEW d \in Files, NEW k \in inFile'[d]
      PROVE  rows'[d] = {} \/ (entry'[k] # 0 /\ open'[k] = d)
  <2>1. \A e \in Files : \A j \in inFile[e] : rows[e] = {} \/ (entry[j] # 0 /\ open[j] = e)
    BY <1>4 DEF IInv, Seated, Remembers
  <2>2. inFile[d] \subseteq Clients /\ k \in Clients /\ d # NoFile
    BY <1>1, ClientViewAssumption DEF IInv, ServerTyped
  <2>3. CASE k = c
    BY <1>1, <2>1, <2>2, <2>3 DEF IInv, ServerTyped
  <2>4. CASE k # c
    <3>1. k \in inFile[d] /\ open'[k] = open[k] /\ entry' = entry
      BY <1>1, <2>2, <2>4 DEF IInv, ServerTyped
    <3>2. d = f => rows[d] # {}
      BY <3>1 DEF IInv, Seated
    <3>3. d # f => rows'[d] = rows[d]
      BY DEF IInv, ServerTyped
    <3>4. QED
      BY <2>1, <3>1, <3>2, <3>3
  <2>5. QED
    BY <2>3, <2>4
<1>5. QED
  BY <1>2, <1>3, <1>4 DEF Seated

\* getFile, for a client that may enter the file.
LEMMA EntersKeeps ==
  ASSUME IInv, NEW c \in Clients, NEW f \in Files, NEW us \in SUBSET Users, rows[f] # {},
         NEW action \in {"GET", "ACTIVATE_LINK"},
         NEW g \in Guis, g.token = gui[c].token, Enters(c, f, action, g),
         open[c] = NoFile, entry[c] # 0, UserOf(c) \in Users,
         rows' = [rows EXCEPT ![f] = us], UNCHANGED <<entry, sessions, born>>, Remembers
  PROVE  Hands /\ FallsOnlyToGhosts' /\ ServerTyped' /\ Seated'
<1>. DEFINE a == Answering(action, c, f)
            m == Joined(c)
<1>1. PICK r, T : /\ r \in Relayed(c, f) /\ T \in Told(c, f, r)
                  /\ Relays(c, "FILE", action, g, r, <<a>>, T, m) /\ Enter(c, f, r, T)
  BY DEF Enters
<1>2. a \in Letters /\ a.session = 0 /\ m \in Letters /\ m.session = 0
  BY Naming DEF IInv, Kinds
<1>. HIDE DEF a, m
<1>3. <<a>> \in Seq(Letters) /\ Sent(<<a>>) \subseteq {0}
  BY <1>2, SentFew
<1>4. Hands /\ FallsOnlyToGhosts'
  BY <1>1, <1>2, <1>3, RelaysHands
<1>5. born' = born \cup {f}
  BY DEF IInv, Seated
<1>6. ServerTyped' /\ Seated'
  BY <1>1, <1>5, EnterSeats
<1>7. QED
  BY <1>4, <1>6

\* A step that leaves the entries and the sessions alone.
LEMMA Gather ==
  ASSUME IInv, Hands, Remembers, UNCHANGED <<entry, sessions>>,
         ServerTyped', Seated', FallsOnlyToGhosts'
  PROVE  IInv'
<1>1. ClientTyped'
  BY DEF ClientTyped, Hands, Remembers
<1>2. Tokens' /\ SessionsMatch'
  BY TokensKept, MatchKept DEF IInv
<1>3. QED
  BY <1>1, <1>2 DEF IInv

\* A request that is refused.
LEMMA RefusedKeeps ==
  ASSUME IInv, NEW c \in Clients, NEW type, NEW action,
         NEW g \in Guis, g.token = gui[c].token, Remembers,
         Asks(c, type, action, g, <<Fault>>)
  PROVE  Hands /\ (server' = server => FallsOnlyToGhosts')
<1>1. <<Fault>> \in Seq(Letters) /\ Sent(<<Fault>>) \subseteq {0}
  BY Plainness, SentFew DEF Kinds, FileIds
<1>2. QED
  BY <1>1, AsksHands, FallsKept DEF IInv

\* Who has a token that reaches a file, has an entry, and the file has rows.
LEMMA Reach ==
  ASSUME IInv, NEW c \in Clients, NEW f \in FileIds, Reaches(c, f)
  PROVE  f \in Files /\ f \in born /\ rows[f] # {} /\ entry[c] # 0 /\ UserOf(c) \in Users
BY Validity DEF Reaches, FileIds, IInv, Seated

\* getFile, whether the others of the file are told or not.
LEMMA OpenKeeps ==
  ASSUME IInv, NEW c \in Clients, NEW f \in Files, Open(c, f)
  PROVE  IInv'
<1>. DEFINE s == Freeze(gui[c])
            g == [s EXCEPT !.fileId = f]
<1>1. ClientTyped /\ ServerTyped /\ Seated
  BY DEF IInv
<1>2. g \in Guis /\ g.token = gui[c].token
  <2>1. s \in Guis /\ s.token = gui[c].token
    BY <1>1, GuiOps DEF ClientTyped
  <2>. HIDE DEF s
  <2>2. QED
    BY <2>1 DEF Guis, FileIds
<1>3. Remembers
  <2>. DEFINE xs == (IF Awaits(c, Opening) THEN {"crossed"} ELSE {})
                    \cup (IF Reaches(c, f) /\ entry[c] # 0 /\ open[c] = NoFile THEN Switching(c) ELSE {})
  <2>1. past' = [past EXCEPT ![c] = @ \cup xs]
    BY <1>1 DEF Open, ClientTyped
  <2>2. xs \in SUBSET Causes
    BY DEF Causes, Switching
  <2>. HIDE DEF xs
  <2>3. QED
    BY <1>1, <2>1, <2>2, PastKept
<1>4. UNCHANGED <<entry, sessions, rows, born>>
  BY DEF Open
<1>5. CASE Reaches(c, f) /\ entry[c] # 0 /\ open[c] = NoFile
  <2>1. Enters(c, f, "GET", g)
    BY <1>5 DEF Open
  <2>2. rows[f] # {} /\ UserOf(c) \in Users
    BY <1>5, Reach DEF FileIds
  <2>3. rows' = [rows EXCEPT ![f] = rows[f]] /\ rows[f] \in SUBSET Users
    BY <1>1, <1>4 DEF ServerTyped
  <2>. HIDE DEF g
  <2>4. Hands /\ FallsOnlyToGhosts' /\ ServerTyped' /\ Seated'
    BY <1>2, <1>3, <1>4, <1>5, <2>1, <2>2, <2>3, EntersKeeps
  <2>5. QED
    BY <1>3, <1>4, <2>4, Gather
<1>6. CASE ~ (Reaches(c, f) /\ entry[c] # 0 /\ open[c] = NoFile)
  <2>1. Asks(c, "FILE", "GET", g, <<Fault>>) /\ UNCHANGED <<open, inFile, members, server>>
    BY <1>6 DEF Open
  <2>. HIDE DEF g
  <2>2. Hands /\ FallsOnlyToGhosts'
    BY <1>2, <1>3, <2>1, RefusedKeeps
  <2>3. ServerTyped' /\ Seated'
    BY <1>1, <1>3, <1>4, <2>1, SeatedKept DEF ServerTyped
  <2>4. QED
    BY <1>3, <1>4, <2>2, <2>3, Gather
<1>7. QED
  BY <1>5, <1>6

\* A row more for a file that has rows.
LEMMA RowSeats ==
  ASSUME ServerTyped, Seated, NEW f \in Files, NEW us \in SUBSET Users, rows[f] # {}, Remembers,
         rows' = [rows EXCEPT ![f] = us], UNCHANGED <<entry, open, inFile, sessions, members, born>>
  PROVE  ServerTyped' /\ Seated'
<1>1. ServerTyped'
  BY DEF ServerTyped
<1>2. \A d \in Files \ born' : rows'[d] = {} /\ inFile'[d] = {}
  BY DEF ServerTyped, Seated
<1>3. \A d \in Files : rows[d] = {} => rows'[d] = {}
  BY DEF ServerTyped
<1>4. QED
  BY <1>1, <1>2, <1>3 DEF Seated, Remembers

\* activateLink.
LEMMA ActivateLinkKeeps ==
  ASSUME IInv, NEW c \in Clients, NEW f \in Files, ActivateLink(c, f)
  PROVE  IInv'
<1>. DEFINE g   == Freeze(gui[c])
            new == Valid(Holds(c)) /\ UserOf(c) \notin rows[f]
            us  == IF new THEN rows[f] \cup {UserOf(c)} ELSE rows[f]
<1>1. ClientTyped /\ ServerTyped /\ Seated
  BY DEF IInv
<1>2. g \in Guis /\ g.token = gui[c].token
  BY <1>1, GuiOps DEF ClientTyped
<1>3. Remembers
  <2>. DEFINE xs == IF ~ new THEN {} ELSE IF entry[c] # 0 /\ open[c] = NoFile THEN Switching(c)
                    ELSE {"linked"}
  <2>1. past' = [past EXCEPT ![c] = @ \cup xs]
    BY DEF ActivateLink
  <2>2. xs \in SUBSET Causes
    BY DEF Causes, Switching
  <2>. HIDE DEF xs
  <2>3. QED
    BY <1>1, <2>1, <2>2, PastKept
<1>4. /\ rows[f] # {} /\ f \in born /\ rows' = [rows EXCEPT ![f] = us] /\ us \in SUBSET Users
      /\ UNCHANGED <<entry, sessions, born>>
  <2>1. rows[f] # {} /\ UNCHANGED <<entry, sessions, born>>
    BY DEF ActivateLink
  <2>2. rows' = IF new THEN [rows EXCEPT ![f] = @ \cup {UserOf(c)}] ELSE rows
    BY DEF ActivateLink
  <2>3. rows[f] \in SUBSET Users /\ rows = [rows EXCEPT ![f] = rows[f]]
    BY <1>1 DEF ServerTyped
  <2>4. QED
    BY <1>1, <2>1, <2>2, <2>3, Validity DEF Seated
<1>5. CASE new /\ entry[c] # 0 /\ open[c] = NoFile
  <2>1. Enters(c, f, "ACTIVATE_LINK", g) /\ UserOf(c) \in Users
    BY <1>5, Validity DEF ActivateLink
  <2>. HIDE DEF g, us
  <2>2. Hands /\ FallsOnlyToGhosts' /\ ServerTyped' /\ Seated'
    BY <1>2, <1>3, <1>4, <1>5, <2>1, EntersKeeps
  <2>3. QED
    BY <1>3, <1>4, <2>2, Gather
<1>6. CASE ~ (new /\ entry[c] # 0 /\ open[c] = NoFile)
  <2>1. Asks(c, "FILE", "ACTIVATE_LINK", g, <<Fault>>) /\ UNCHANGED <<open, inFile, members, server>>
    BY <1>6 DEF ActivateLink
  <2>. HIDE DEF g, us
  <2>2. Hands /\ FallsOnlyToGhosts'
    BY <1>2, <1>3, <2>1, RefusedKeeps
  <2>3. ServerTyped' /\ Seated'
    BY <1>1, <1>3, <1>4, <2>1, RowSeats
  <2>4. QED
    BY <1>3, <1>4, <2>2, <2>3, Gather
<1>7. QED
  BY <1>5, <1>6

\* newFile: the element is made, and entered if no other file is open.
LEMMA NewFileKeeps ==
  ASSUME IInv, NEW c \in Clients, NEW f \in Files, NewFile(c, f)
  PROVE  IInv'
<1>. DEFINE g == Freeze(gui[c])
<1>1. ClientTyped /\ ServerTyped /\ Seated
  BY DEF IInv
<1>2. g \in Guis /\ g.token = gui[c].token
  BY <1>1, GuiOps DEF ClientTyped
<1>3. Remembers /\ UNCHANGED <<entry, sessions, server>>
  <2>1. past' = past \/ past' = [past EXCEPT ![c] = @ \cup Switching(c)]
    BY DEF NewFile
  <2>2. Switching(c) \in SUBSET Causes
    BY DEF Causes, Switching
  <2>3. QED
    BY <1>1, <2>1, <2>2, PastKept DEF NewFile
<1>4. CASE ~ Valid(Holds(c))
  <2>1. Asks(c, "FILE", "NEW_FILE", g, <<Fault>>) /\ UNCHANGED <<open, inFile, rows, members, born>>
    BY <1>4 DEF NewFile
  <2>. HIDE DEF g
  <2>2. Hands /\ FallsOnlyToGhosts'
    BY <1>2, <1>3, <2>1, RefusedKeeps
  <2>3. ServerTyped' /\ Seated'
    BY <1>1, <1>3, <2>1, SeatedKept DEF ServerTyped
  <2>4. QED
    BY <1>3, <2>2, <2>3, Gather
<1>5. CASE Valid(Holds(c))
  <2>1. /\ f \notin born /\ born' = born \cup {f}
        /\ rows' = [rows EXCEPT ![f] = {UserOf(c)}]
    BY <1>5 DEF NewFile
  <2>2. {UserOf(c)} \in SUBSET Users /\ UserOf(c) \in Users /\ entry[c] # 0
    BY <1>5, Validity
  <2>3. CASE open[c] # NoFile
    <3>1. Asks(c, "FILE", "NEW_FILE", g, <<Fault>>) /\ UNCHANGED <<open, inFile, members>>
      BY <1>5, <2>3 DEF NewFile
    <3>. HIDE DEF g
    <3>2. Hands /\ FallsOnlyToGhosts'
      BY <1>2, <1>3, <3>1, RefusedKeeps
    <3>3. ServerTyped'
      BY <1>1, <1>3, <2>1, <2>2, <3>1 DEF ServerTyped
    <3>4. Seated'
      <4>1. \A d \in Files \ born' : d \in Files \ born /\ rows'[d] = rows[d]
        BY <1>1, <2>1 DEF ServerTyped
      <4>2. \A d \in Files : inFile[d] # {} => rows'[d] = rows[d]
        BY <1>1, <2>1 DEF ServerTyped, Seated
      <4>3. QED
        BY <1>1, <1>3, <3>1, <4>1, <4>2 DEF Seated, Remembers
    <3>5. QED
      BY <1>3, <3>2, <3>3, <3>4, Gather
  <2>4. CASE open[c] = NoFile
    <3>1. Asks(c, "FILE", "NEW_FILE", g, <<Msg("NEW_FILE", f)>>) /\ Enter(c, f, "done", {})
      BY <1>5, <2>4 DEF NewFile
    <3>2. <<Msg("NEW_FILE", f)>> \in Seq(Letters) /\ Sent(<<Msg("NEW_FILE", f)>>) \subseteq {0}
      BY Plainness, SentFew DEF Kinds, FileIds
    <3>. HIDE DEF g
    <3>3. Hands /\ FallsOnlyToGhosts'
      BY <1>1, <1>2, <1>3, <3>1, <3>2, AsksHands, FallsKept DEF IInv
    <3>4. ServerTyped' /\ Seated'
      BY <1>3, <2>1, <2>2, <2>4, <3>1, EnterSeats
    <3>5. QED
      BY <1>3, <3>3, <3>4, Gather
  <2>5. QED
    BY <2>3, <2>4
<1>6. QED
  BY <1>4, <1>5

\* closeFile.
LEMMA EditorCloseKeeps ==
  ASSUME IInv, NEW c \in Clients, EditorClose(c)
  PROVE  IInv'
<1>. DEFINE g == Show(gui[c], "Browser")
            f == gui[c].fileId
<1>1. ClientTyped /\ ServerTyped /\ Seated
  BY DEF IInv
<1>2. g \in Guis /\ g.token = gui[c].token /\ f \in FileIds
  <2>1. gui[c] \in Guis
    BY <1>1 DEF ClientTyped
  <2>2. QED
    BY <2>1, GuiOps DEF Windows, Guis
<1>3. Remembers /\ UNCHANGED <<entry, sessions, rows, members, born>>
  BY <1>1, PastKept DEF EditorClose, history, store
<1>4. CASE Reaches(c, f) /\ entry[c] # 0 /\ open[c] = f
  <2>1. PICK r, T : /\ r \in Relayed(c, f) /\ T \in Told(c, f, r)
                    /\ Relays(c, "FILE", "CLOSE", g, r, << >>, NotListing(UserOf(c), T), Stranger)
    BY <1>4 DEF EditorClose, Leaves
  <2>2. inFile' = [inFile EXCEPT ![f] = @ \ {c}] /\ open' = [open EXCEPT ![c] = NoFile]
    BY <1>4 DEF EditorClose
  <2>3. f \in Files /\ rows[f] # {}
    BY <1>2, <1>4, Reach
  <2>. HIDE DEF f, g
  <2>4. Hands /\ FallsOnlyToGhosts'
    <3>1. Stranger \in Letters /\ Stranger.session = 0
      BY Plainness DEF Stranger, Kinds, FileIds
    <3>2. QED
      BY <1>2, <1>3, <2>1, <2>3, <3>1, SentFew, RelaysHands
  <2>5. ServerTyped'
    BY <1>1, <1>3, <2>2, <2>3 DEF ServerTyped, FileIds
  <2>6. Seated'
    <3>1. \A d \in Files : inFile'[d] \subseteq inFile[d]
      BY <1>1, <2>2, <2>3 DEF ServerTyped
    <3>2. \A d \in Files : \A k \in inFile'[d] :
            open[k] = d => open'[k] = d
      BY <1>1, <1>4, <2>2, <2>3 DEF ServerTyped
    <3>3. QED
      BY <1>1, <1>3, <3>1, <3>2 DEF Seated, Remembers
  <2>7. QED
    BY <1>3, <2>4, <2>5, <2>6, Gather
<1>5. CASE ~ (Reaches(c, f) /\ entry[c] # 0 /\ open[c] = f)
  <2>1. Asks(c, "FILE", "CLOSE", g, <<Fault>>) /\ UNCHANGED <<open, inFile, server>>
    BY <1>5 DEF EditorClose
  <2>. HIDE DEF f, g
  <2>2. Hands /\ FallsOnlyToGhosts'
    BY <1>2, <1>3, <2>1, RefusedKeeps
  <2>3. ServerTyped' /\ Seated'
    BY <1>1, <1>3, <2>1, SeatedKept DEF ServerTyped
  <2>4. QED
    BY <1>3, <2>2, <2>3, Gather
<1>6. QED
  BY <1>4, <1>5

\* localInsert and the like: what is passed on carries no session.
LEMMA TypesKeeps ==
  ASSUME IInv, NEW c \in Clients, NEW f \in FileIds, NEW taken,
         taken => Reaches(c, f), Types(c, f, taken)
  PROVE  IInv'
<1>1. ClientTyped /\ ServerTyped /\ Seated
  BY DEF IInv
<1>2. Remembers /\ UNCHANGED <<entry, open, inFile, sessions, rows, members, born>> /\ gui' = gui
  BY <1>1, PastKept DEF Types, history, store, manager
<1>3. /\ Fault \in Letters /\ Fault.session = 0
      /\ Stranger \in Letters /\ Stranger.session = 0
  BY Plainness DEF Stranger, Kinds, FileIds
<1>4. gui[c] \in Guis /\ gui' = [gui EXCEPT ![c] = gui[c]]
  BY <1>1, <1>2 DEF ClientTyped
<1>5. ServerTyped' /\ Seated'
  BY <1>1, <1>2, SeatedKept DEF ServerTyped
<1>6. Hands /\ FallsOnlyToGhosts'
  <2>1. CASE taken
    <3>1. f \in Files /\ rows[f] # {} /\ PassOn(c, f)
      BY <2>1, Reach DEF Types
    <3>2. PICK r, T :
            /\ r \in Relayed(c, f) /\ T \in Told(c, f, r)
            /\ server' = IF r = "fallen" THEN "fallen" ELSE server
            /\ Delivers(c, IF r = "refused" THEN <<Fault>> ELSE << >>, NotListing(UserOf(c), T), Stranger)
      BY <3>1 DEF PassOn
    <3>. DEFINE s == IF r = "refused" THEN <<Fault>> ELSE << >>
    <3>3. s \in Seq(Letters) /\ Sent(s) \subseteq {0}
      BY <1>3, SentFew
    <3>4. Delivers(c, s, NotListing(UserOf(c), T), Stranger)
      BY <3>2
    <3>. HIDE DEF s
    <3>5. Hands
      BY <1>1, <1>3, <1>4, <3>3, <3>4, HandsOver
    <3>6. server' = server \/ \E k \in Clients : "haunting" \in past[k]
      BY <3>1, <3>2, FallenOverGhost
    <3>7. QED
      BY <1>2, <3>5, <3>6, FallsKept DEF IInv
  <2>2. CASE ~ taken
    <3>1. Delivers(c, <<Fault>>, {}, Fault) /\ server' = server
      BY <2>2 DEF Types
    <3>2. <<Fault>> \in Seq(Letters) /\ Sent(<<Fault>>) \subseteq {0}
      BY <1>3, SentFew
    <3>3. Hands
      BY <1>1, <1>3, <1>4, <3>1, <3>2, HandsOver
    <3>4. QED
      BY <1>2, <3>1, <3>3, FallsKept DEF IInv
  <2>3. QED
    BY <2>1, <2>2
<1>7. QED
  BY <1>2, <1>5, <1>6, Gather

\* A file removed: the owner's removal takes every row, and closes the file for
\* all that are in its list, without taking them out of it.
LEMMA RemoveKeeps ==
  ASSUME IInv, NEW c \in Clients, NEW f \in FileIds, NEW g \in Guis, g.token = gui[c].token,
         Remove(c, f, g)
  PROVE  IInv'
<1>1. ClientTyped /\ ServerTyped /\ Seated
  BY DEF IInv
<1>2. Remembers /\ UNCHANGED <<entry, sessions, born, server>> /\ gui' = [gui EXCEPT ![c] = g]
  BY <1>1, PastKept DEF Remove, history
<1>3. FallsOnlyToGhosts'
  BY <1>2, FallsKept DEF IInv
<1>4. /\ Fault \in Letters /\ Fault.session = 0
      /\ Bare("DELETE_FILE") \in Letters /\ Bare("DELETE_FILE").session = 0
      /\ Bare("FILE_DELETED") \in Letters /\ Bare("FILE_DELETED").session = 0
  BY Plainness DEF Kinds, FileIds
<1>5. CASE Reaches(c, f) /\ entry[c] # 0
  <2>. DEFINE u       == UserOf(c)
              leaves  == open[c] = f
              linkers == IF u = Owner[f] THEN rows[f] \ {u} ELSE {}
              told    == {k \in Clients : entry[k] # 0 /\ sessions[entry[k]].user \in linkers}
  <2>1. /\ rows' = [rows EXCEPT ![f] = IF u = Owner[f] THEN {} ELSE @ \ {u}]
        /\ inFile' = [inFile EXCEPT ![f] = IF leaves THEN @ \ {c} ELSE @]
        /\ members' = [members EXCEPT ![f] = IF leaves THEN @ \ {u} ELSE @]
        /\ open' = [k \in Clients |->
             IF (k = c /\ leaves) \/ (k \in inFile[f] /\ linkers # {}) THEN NoFile ELSE open[k]]
    BY <1>5 DEF Remove
  <2>2. Delivers(c, <<Bare("DELETE_FILE")>>, told, Bare("FILE_DELETED"))
    BY <1>5 DEF Remove
  <2>3. f \in Files
    BY <1>5, Reach
  <2>4. linkers # {} => u = Owner[f]
    OBVIOUS
  <2>. HIDE DEF u, linkers, told
  <2>5. Hands
    <3>1. <<Bare("DELETE_FILE")>> \in Seq(Letters) /\ Sent(<<Bare("DELETE_FILE")>>) \subseteq {0}
      BY <1>4, SentFew
    <3>2. QED
      BY <1>1, <1>2, <1>4, <2>2, <3>1, HandsOver
  <2>6. ServerTyped'
    <3>1. open' \in [Clients -> FileIds]
      BY <1>1, <2>1 DEF ServerTyped, FileIds
    <3>2. /\ inFile' \in [Files -> SUBSET Clients] /\ rows' \in [Files -> SUBSET Users]
          /\ members' \in [Files -> SUBSET Users]
      BY <1>1, <2>1, <2>3 DEF ServerTyped
    <3>3. QED
      BY <1>1, <1>2, <3>1, <3>2 DEF ServerTyped
  <2>7. Seated'
    <3>1. \A d \in Files : rows'[d] \subseteq rows[d] /\ inFile'[d] \subseteq inFile[d]
      BY <1>1, <2>1, <2>3 DEF ServerTyped
    <3>2. ASSUME ~ \E k \in Clients : "haunting" \in past'[k],
                 NEW d \in Files, NEW k \in inFile'[d], rows'[d] # {}
          PROVE  entry'[k] # 0 /\ open'[k] = d
      <4>1. \A e \in Files : \A j \in inFile[e] : rows[e] = {} \/ (entry[j] # 0 /\ open[j] = e)
        BY <1>1, <1>2, <3>2 DEF Seated, Remembers
      <4>2. k \in inFile[d] /\ k \in Clients /\ rows[d] # {} /\ entry'[k] # 0 /\ open[k] = d
        BY <1>1, <1>2, <3>1, <3>2, <4>1 DEF ServerTyped
      <4>3. CASE d = f
        <5>1. linkers = {}
          BY <1>1, <2>1, <2>3, <2>4, <3>2, <4>3 DEF ServerTyped
        <5>2. ~ (k = c /\ leaves)
          BY <1>1, <2>1, <2>3, <3>2, <4>3 DEF ServerTyped
        <5>3. QED
          BY <2>1, <4>2, <5>1, <5>2
      <4>4. CASE d # f
        <5>1. ~ (k = c /\ leaves)
          BY <4>2, <4>4
        <5>2. k \in inFile[f] => rows[f] = {}
          BY <2>3, <4>1, <4>2, <4>4
        <5>3. rows[f] # {}
          BY <1>5, Reach
        <5>4. QED
          BY <2>1, <4>2, <5>1, <5>2, <5>3
      <4>5. QED
        BY <4>3, <4>4
    <3>3. QED
      BY <1>1, <1>2, <3>1, <3>2 DEF Seated
  <2>8. QED
    BY <1>2, <1>3, <2>5, <2>6, <2>7, Gather
<1>6. CASE ~ (Reaches(c, f) /\ entry[c] # 0)
  <2>1. Delivers(c, <<Fault>>, {}, Fault) /\ UNCHANGED <<rows, inFile, members, open>>
    BY <1>6 DEF Remove
  <2>2. <<Fault>> \in Seq(Letters) /\ Sent(<<Fault>>) \subseteq {0}
    BY <1>4, SentFew
  <2>3. Hands
    BY <1>1, <1>2, <1>4, <2>1, <2>2, HandsOver
  <2>4. ServerTyped' /\ Seated'
    BY <1>1, <1>2, <2>1, SeatedKept DEF ServerTyped
  <2>5. QED
    BY <1>2, <1>3, <2>3, <2>4, Gather
<1>7. QED
  BY <1>5, <1>6

\* A client of the list that has lost files is sent as many notices.
LEMMA LostFew ==
  ASSUME NEW S \in SUBSET Files
  PROVE  /\ Cardinality(S) \in Nat
         /\ [i \in 1 .. Cardinality(S) |-> Bare("FILE_DELETED")] \in Seq(Letters)
         /\ Sent([i \in 1 .. Cardinality(S) |-> Bare("FILE_DELETED")]) \subseteq {0}
<1>1. Cardinality(S) \in Nat
  BY ClientViewAssumption, FS_Subset, FS_CardinalityType
<1>2. Bare("FILE_DELETED") \in Letters /\ Bare("FILE_DELETED").session = 0
  BY Plainness DEF Kinds, FileIds
<1>3. QED
  BY <1>1, <1>2, SentMany

\* deleteDir: rows go, and files are closed as for a removal, but no list changes.
LEMMA DeleteDirKeeps ==
  ASSUME IInv, NEW c \in Clients, DeleteDir(c)
  PROVE  IInv'
<1>1. ClientTyped /\ ServerTyped /\ Seated /\ gui[c] \in Guis
  BY DEF IInv, ClientTyped
<1>2. UNCHANGED <<entry, inFile, sessions, members, born, server>>
  BY DEF DeleteDir
<1>3. Remembers
  <2>1. past' = past \/ past' = [past EXCEPT ![c] = @ \cup {"strayed"}]
    BY DEF DeleteDir
  <2>2. "strayed" \in Causes
    BY DEF Causes
  <2>3. QED
    BY <1>1, <2>1, <2>2, PastKept
<1>4. FallsOnlyToGhosts'
  BY <1>2, <1>3, FallsKept DEF IInv
<1>5. CASE Asks(c, "FILESYSTEM", "DELETE_DIR", gui[c], <<Fault>>) /\ UNCHANGED <<rows, open, past>>
  <2>1. Hands
    BY <1>1, <1>3, <1>5, RefusedKeeps
  <2>2. ServerTyped' /\ Seated'
    BY <1>1, <1>2, <1>3, <1>5, SeatedKept DEF ServerTyped
  <2>3. QED
    BY <1>2, <1>3, <1>4, <2>1, <2>2, Gather
<1>6. CASE ~ (Asks(c, "FILESYSTEM", "DELETE_DIR", gui[c], <<Fault>>) /\ UNCHANGED <<rows, open, past>>)
  <2>. DEFINE u == UserOf(c)
  <2>1. PICK S \in SUBSET {f \in Files : Reaches(c, f)} :
          LET shared     == {f \in S : u = Owner[f] /\ rows[f] # {u}}
              lost(k)    == {f \in shared : entry[k] # 0 /\ sessions[entry[k]].user \in rows[f]}
              notices(k) == [i \in 1 .. Cardinality(lost(k)) |-> Bare("FILE_DELETED")]
          IN  /\ gui' = gui
              /\ rows' = [f \in Files |-> IF f \notin S THEN rows[f]
                                          ELSE IF u = Owner[f] THEN {} ELSE rows[f] \ {u}]
              /\ open' = [k \in Clients |->
                            IF \E f \in shared : k \in inFile[f] THEN NoFile ELSE open[k]]
              /\ down' = [k \in Clients |->
                            IF k = c THEN Append(down[k], Bare("REFRESH"))
                            ELSE IF Running(k) THEN down[k] \o notices(k) ELSE down[k]]
    BY <1>6 DEF DeleteDir
  <2>. DEFINE shared     == {f \in S : u = Owner[f] /\ rows[f] # {u}}
              lost(k)    == {f \in shared : entry[k] # 0 /\ sessions[entry[k]].user \in rows[f]}
              notices(k) == [i \in 1 .. Cardinality(lost(k)) |-> Bare("FILE_DELETED")]
  <2>2. Bare("REFRESH") \in Letters /\ Bare("REFRESH").session = 0
    BY Plainness DEF Kinds, FileIds
  <2>3. ASSUME NEW k \in Clients
        PROVE  down'[k] \in Seq(Letters) /\ Sent(down'[k]) \subseteq Sent(down[k]) \cup {0}
    <3>. DEFINE n == notices(k)
    <3>1. n \in Seq(Letters) /\ Sent(n) \subseteq {0}
      <4>1. lost(k) \in SUBSET Files
        OBVIOUS
      <4>. HIDE DEF lost
      <4>2. QED
        BY <4>1, LostFew
    <3>2. down'[k] = IF k = c THEN Append(down[k], Bare("REFRESH"))
                     ELSE IF Running(k) THEN down[k] \o n ELSE down[k]
      BY <2>1
    <3>3. down[k] \in Seq(Letters)
      BY <1>1 DEF ClientTyped
    <3>. HIDE DEF n
    <3>4. /\ Append(down[k], Bare("REFRESH")) \in Seq(Letters)
          /\ Sent(Append(down[k], Bare("REFRESH"))) \subseteq Sent(down[k]) \cup {0}
          /\ down[k] \o n \in Seq(Letters) /\ Sent(down[k] \o n) \subseteq Sent(down[k]) \cup Sent(n)
      BY <2>2, <3>1, <3>3, SentOf
    <3>5. QED
      BY <3>1, <3>2, <3>3, <3>4
  <2>4. Hands
    <3>1. gui' = gui /\ down' \in [Clients -> Seq(Letters)]
      BY <2>1, <2>3
    <3>2. \A k \in Clients : Held(k)' = {gui[k].token} \cup Sent(down'[k])
      BY <3>1 DEF Held, Sent
    <3>3. QED
      BY <1>1, <2>3, <3>1, <3>2 DEF Hands, Held, ClientTyped
  <2>5. /\ rows' = [f \in Files |-> IF f \notin S THEN rows[f]
                                    ELSE IF u = Owner[f] THEN {} ELSE rows[f] \ {u}]
        /\ open' = [k \in Clients |-> IF \E f \in shared : k \in inFile[f] THEN NoFile ELSE open[k]]
    BY <2>1
  <2>6. ServerTyped'
    <3>1. open' \in [Clients -> FileIds]
      BY <1>1, <2>5 DEF ServerTyped, FileIds
    <3>2. rows' \in [Files -> SUBSET Users]
      BY <1>1, <2>5 DEF ServerTyped
    <3>3. QED
      BY <1>1, <1>2, <3>1, <3>2 DEF ServerTyped
  <2>7. Seated'
    <3>1. \A d \in Files : rows'[d] \subseteq rows[d] /\ (d \in shared => rows[d] # {} /\ rows'[d] = {})
      <4>1. \A d \in S : d \in Files /\ u \in rows[d]
        BY DEF Reaches
      <4>2. QED
        BY <2>5, <4>1
    <3>2. ASSUME ~ \E k \in Clients : "haunting" \in past'[k],
                 NEW d \in Files, NEW k \in inFile'[d], rows'[d] # {}
          PROVE  entry'[k] # 0 /\ open'[k] = d
      <4>1. \A e \in Files : \A j \in inFile[e] : rows[e] = {} \/ (entry[j] # 0 /\ open[j] = e)
        BY <1>1, <1>3, <3>2 DEF Seated, Remembers
      <4>2. k \in inFile[d] /\ k \in Clients /\ rows[d] # {} /\ entry'[k] # 0 /\ open[k] = d
        BY <1>1, <1>2, <3>1, <3>2, <4>1 DEF ServerTyped
      <4>3. ~ \E f \in shared : k \in inFile[f]
        <5>1. shared \subseteq Files
          OBVIOUS
        <5>. HIDE DEF shared
        <5>2. QED
          BY <3>1, <3>2, <4>1, <4>2, <5>1
      <4>. HIDE DEF shared
      <4>4. QED
        BY <2>5, <4>2, <4>3
    <3>3. QED
      BY <1>1, <1>2, <3>1, <3>2 DEF Seated
  <2>8. QED
    BY <1>2, <1>3, <1>4, <2>4, <2>6, <2>7, Gather
<1>7. QED
  BY <1>5, <1>6
-----------------------------------------------------------------------------
\* A session that ends with its entry: clientDisconnected, and deleteUser.
LEMMA EndOfSession ==
  ASSUME IInv, NEW c \in Clients, Hands, Remembers,
         entry' = [entry EXCEPT ![c] = 0],
         sessions' = IF entry[c] = 0 THEN sessions ELSE [sessions EXCEPT ![entry[c]].active = FALSE]
  PROVE  /\ sessions' \in Seq(Sessions) /\ entry' \in [Clients -> Nat]
         /\ Tokens' /\ SessionsMatch'
<1>1. /\ ServerTyped /\ Tokens /\ SessionsMatch
      /\ \A k \in Clients : entry[k] \in 0 .. Len(sessions)
  BY DEF IInv, Tokens
<1>2. /\ sessions \in Seq(Sessions) /\ entry \in [Clients -> Nat]
      /\ entry' \in [Clients -> Nat] /\ entry'[c] = 0
      /\ \A k \in Clients \ {c} : entry'[k] = entry[k]
  BY <1>1 DEF ServerTyped
<1>3. /\ sessions' \in Seq(Sessions) /\ Len(sessions') = Len(sessions)
      /\ \A i \in 1 .. Len(sessions) :
           /\ sessions'[i].user = sessions[i].user
           /\ sessions'[i].active <=> sessions[i].active /\ i # entry[c]
  <2>1. CASE entry[c] = 0
    BY <1>2, <2>1
  <2>2. CASE entry[c] # 0
    <3>. DEFINE e == entry[c]
                s == [sessions[e] EXCEPT !.active = FALSE]
    <3>1. e \in 1 .. Len(sessions) /\ sessions[e] \in Sessions
      BY <1>1, <1>2, <2>2
    <3>2. s \in Sessions /\ s.user = sessions[e].user /\ s.active = FALSE
      BY <3>1 DEF Sessions
    <3>3. sessions' = [sessions EXCEPT ![e] = s]
      BY <2>2
    <3>. HIDE DEF e, s
    <3>4. sessions' \in Seq(Sessions) /\ Len(sessions') = Len(sessions)
      <4>1. s \in Sessions /\ sessions \in Seq(Sessions) /\ e \in 1 .. Len(sessions)
        BY <1>2, <3>1, <3>2
      <4>2. /\ [sessions EXCEPT ![e] = s] \in Seq(Sessions)
            /\ Len([sessions EXCEPT ![e] = s]) = Len(sessions)
        BY <4>1, ExceptSeq
      <4>3. QED
        BY <3>3, <4>2
    <3>5. \A i \in 1 .. Len(sessions) : sessions'[i] = IF i = e THEN s ELSE sessions[i]
      <4>1. sessions \in [1 .. Len(sessions) -> Sessions]
        BY <1>2
      <4>2. QED
        BY <3>3, <4>1
    <3>6. \A i \in 1 .. Len(sessions) :
            /\ sessions'[i].user = sessions[i].user
            /\ sessions'[i].active <=> sessions[i].active /\ i # e
      <4>1. ASSUME NEW i \in 1 .. Len(sessions), i = e
            PROVE  sessions'[i].user = sessions[i].user /\ sessions'[i].active = FALSE
        BY <3>2, <3>5, <4>1
      <4>2. ASSUME NEW i \in 1 .. Len(sessions), i # e
            PROVE  sessions'[i] = sessions[i]
        BY <3>5, <4>2
      <4>3. QED
        BY <4>1, <4>2
    <3>7. QED
      BY <3>4, <3>6 DEF e
  <2>3. QED
    BY <2>1, <2>2
<1>4. ASSUME NEW k \in Clients, NEW t \in Held(k)'
      PROVE  t \in 0 .. Len(sessions') /\ (t # 0 /\ sessions'[t].active => entry'[k] = t)
  <2>1. t \in Held(k) \cup {0}
    BY DEF Hands
  <2>2. t \in 0 .. Len(sessions') /\ (t # 0 /\ sessions[t].active => entry[k] = t)
    BY <1>1, <1>3, <2>1 DEF Tokens
  <2>3. QED
    BY <1>2, <1>3, <2>2
<1>5. Tokens'
  BY <1>1, <1>2, <1>3, <1>4 DEF Tokens
<1>6. \A k, l \in Clients : k # l /\ entry'[k] # 0 /\ entry'[l] # 0 =>
        sessions'[entry'[k]].user # sessions'[entry'[l]].user
  BY <1>1, <1>2, <1>3 DEF SessionsMatch
<1>7. ASSUME {i \in DOMAIN sessions : sessions[i].active} = {entry[k] : k \in Clients} \ {0}
      PROVE  {i \in DOMAIN sessions' : sessions'[i].active} = {entry'[k] : k \in Clients} \ {0}
  <2>1. \A k \in Clients \ {c} : entry[k] # 0 => entry[k] # entry[c]
    BY <1>1, <1>2 DEF SessionsMatch
  <2>2. DOMAIN sessions = 1 .. Len(sessions) /\ DOMAIN sessions' = 1 .. Len(sessions)
    BY <1>2, <1>3
  <2>3. QED
    BY <1>2, <1>3, <1>7, <2>1, <2>2
<1>8. SessionsMatch'
  BY <1>1, <1>6, <1>7 DEF SessionsMatch, Remembers
<1>9. QED
  BY <1>2, <1>3, <1>5, <1>8

\* clientDisconnected: the client leaves the list of the file it has open.
LEMMA SignOffKeeps ==
  ASSUME IInv, NEW c \in Clients, SignOff(c), Hands, Remembers, UNCHANGED <<rows, members, born, server>>
  PROVE  IInv'
<1>1. ServerTyped /\ Seated
  BY DEF IInv
<1>2. /\ inFile' = [f \in Files |-> IF open[c] = f THEN inFile[f] \ {c} ELSE inFile[f]]
      /\ open' = [open EXCEPT ![c] = NoFile] /\ entry' = [entry EXCEPT ![c] = 0]
  BY DEF SignOff
<1>3. /\ sessions' \in Seq(Sessions) /\ entry' \in [Clients -> Nat]
      /\ Tokens' /\ SessionsMatch'
  BY <1>2, EndOfSession DEF SignOff
<1>4. ServerTyped'
  BY <1>1, <1>2, <1>3 DEF ServerTyped, FileIds
<1>5. Seated'
  <2>1. \A f \in Files : inFile'[f] \subseteq inFile[f] /\ (c \in inFile'[f] => open[c] # f)
    BY <1>2
  <2>2. \A f \in Files : \A k \in inFile'[f] : k # c => entry'[k] = entry[k] /\ open'[k] = open[k]
    BY <1>1, <1>2, <2>1 DEF ServerTyped
  <2>3. QED
    BY <1>1, <2>1, <2>2 DEF Seated, Remembers
<1>6. ClientTyped' /\ FallsOnlyToGhosts'
  BY FallsKept DEF ClientTyped, Hands, Remembers, IInv
<1>7. QED
  BY <1>3, <1>4, <1>5, <1>6 DEF IInv

\* A logout closes the session and signs the client off together.
LEMMA LogoutKeeps ==
  ASSUME IInv, NEW c \in Clients, Logout(c)
  PROVE  IInv'
<1>. DEFINE g == Show(LogOut(gui[c]), "Login")
<1>1. ClientTyped /\ ServerTyped /\ Seated
  BY DEF IInv
<1>2. g \in Guis /\ g.token = gui[c].token
  <2>1. LogOut(gui[c]) \in Guis /\ LogOut(gui[c]).token = gui[c].token
    BY <1>1, GuiOps DEF ClientTyped
  <2>2. QED
    BY <2>1, GuiOps DEF Windows
<1>3. Remembers /\ UNCHANGED <<rows, members, born>>
  <2>1. "late" \in Causes
    BY DEF Causes
  <2>2. QED
    BY <1>1, <2>1, PastKept DEF Logout
<1>4. CASE Valid(Holds(c))
  <2>1. /\ Relays(c, "USER", "LOGOUT", g, "done", << >>, NotListing(UserOf(c), Left(c)), Stranger)
        /\ SignOff(c)
    BY <1>4 DEF Logout
  <2>. HIDE DEF g
  <2>2. /\ gui' = [gui EXCEPT ![c] = g] /\ server' = server
        /\ Delivers(c, << >>, NotListing(UserOf(c), Left(c)), Stranger)
    BY <2>1 DEF Relays
  <2>3. Stranger \in Letters /\ Stranger.session = 0
    BY Plainness DEF Stranger, Kinds, FileIds
  <2>4. Hands
    BY <1>1, <1>2, <2>2, <2>3, SentFew, HandsOver
  <2>5. QED
    BY <1>3, <2>1, <2>2, <2>4, SignOffKeeps
<1>5. CASE ~ Valid(Holds(c))
  <2>1. Asks(c, "USER", "LOGOUT", g, <<Fault>>) /\ UNCHANGED <<entry, open, inFile, sessions, server>>
    BY <1>5 DEF Logout
  <2>. HIDE DEF g
  <2>2. Hands /\ FallsOnlyToGhosts'
    BY <1>2, <1>3, <2>1, RefusedKeeps
  <2>3. ServerTyped' /\ Seated'
    BY <1>1, <1>3, <2>1, SeatedKept DEF ServerTyped
  <2>4. QED
    BY <1>3, <2>1, <2>2, <2>3, Gather
<1>6. QED
  BY <1>4, <1>5

\* The server hears of a lost connection: clientDisconnected signs the client off.
LEMMA GoneKeeps ==
  ASSUME IInv, NEW c \in Clients, Gone(c)
  PROVE  IInv'
<1>1. /\ SignOff(c) /\ UNCHANGED <<gui, rows, members, born, server, past>>
      /\ Delivers(c, << >>, NotListing(sessions[entry[c]].user, Left(c)), Stranger)
  BY DEF Gone, history
<1>2. Hands
  <2>1. Stranger \in Letters /\ Stranger.session = 0
    BY Plainness DEF Stranger, Kinds, FileIds
  <2>2. gui[c] \in Guis /\ gui' = [gui EXCEPT ![c] = gui[c]] /\ ClientTyped
    BY <1>1 DEF IInv, ClientTyped
  <2>3. QED
    BY <1>1, <2>1, <2>2, SentFew, HandsOver
<1>3. Remembers
  BY <1>1, PastKept DEF IInv
<1>4. QED
  BY <1>1, <1>2, <1>3, SignOffKeeps

\* deleteUser: the client stays in the list of its file, and past says so.
LEMMA DeleteAccountKeeps ==
  ASSUME IInv, NEW c \in Clients, DeleteAccount(c)
  PROVE  IInv'
<1>. DEFINE g == Freeze(gui[c])
<1>1. ClientTyped /\ ServerTyped /\ Seated
  BY DEF IInv
<1>2. g \in Guis /\ g.token = gui[c].token
  BY <1>1, GuiOps DEF ClientTyped
<1>3. Remembers /\ UNCHANGED <<inFile, rows, members, born, server>>
  <2>1. "haunting" \in Causes
    BY DEF Causes
  <2>2. QED
    BY <1>1, <2>1, PastKept DEF DeleteAccount
<1>4. CASE Valid(Holds(c)) /\ entry[c] # 0
  <2>1. /\ Asks(c, "USER", "DELETE", g, <<Bare("DELETE_USER")>>)
        /\ entry' = [entry EXCEPT ![c] = 0] /\ open' = [open EXCEPT ![c] = NoFile]
        /\ sessions' = [sessions EXCEPT ![Holds(c)].active = FALSE]
        /\ past' = IF open[c] = NoFile THEN past ELSE [past EXCEPT ![c] = @ \cup {"haunting"}]
    BY <1>4 DEF DeleteAccount
  <2>2. <<Bare("DELETE_USER")>> \in Seq(Letters) /\ Sent(<<Bare("DELETE_USER")>>) \subseteq {0}
    BY Plainness, SentFew DEF Kinds, FileIds
  <2>. HIDE DEF g
  <2>3. Hands
    BY <1>1, <1>2, <2>1, <2>2, AsksHands
  <2>4. entry[c] = Holds(c)
    BY <1>4, Validity
  <2>5. /\ sessions' \in Seq(Sessions) /\ entry' \in [Clients -> Nat]
        /\ Tokens' /\ SessionsMatch'
    BY <1>3, <1>4, <2>1, <2>3, <2>4, EndOfSession
  <2>6. ServerTyped'
    BY <1>1, <1>3, <2>1, <2>5 DEF ServerTyped, FileIds
  <2>7. Seated'
    <3>1. ASSUME ~ \E k \in Clients : "haunting" \in past'[k],
                 NEW f \in Files, NEW k \in inFile[f], rows[f] # {}
          PROVE  entry'[k] # 0 /\ open'[k] = f
      <4>1. entry[k] # 0 /\ open[k] = f /\ k \in Clients
        BY <1>1, <1>3, <3>1 DEF Seated, Remembers, ServerTyped
      <4>2. open[c] = NoFile
        BY <1>1, <2>1, <3>1 DEF ClientTyped
      <4>3. k # c
        BY <4>1, <4>2, ClientViewAssumption
      <4>4. QED
        BY <1>1, <2>1, <4>1, <4>3 DEF ServerTyped
    <3>2. QED
      BY <1>1, <1>3, <3>1 DEF Seated
  <2>8. ClientTyped' /\ FallsOnlyToGhosts'
    BY <1>3, <2>3, FallsKept DEF ClientTyped, Hands, Remembers, IInv
  <2>9. QED
    BY <2>5, <2>6, <2>7, <2>8 DEF IInv
<1>5. CASE ~ (Valid(Holds(c)) /\ entry[c] # 0)
  <2>1. Asks(c, "USER", "DELETE", g, <<Fault>>) /\ UNCHANGED <<entry, open, sessions>>
    BY <1>5 DEF DeleteAccount
  <2>. HIDE DEF g
  <2>2. Hands /\ FallsOnlyToGhosts'
    BY <1>2, <1>3, <2>1, RefusedKeeps
  <2>3. ServerTyped' /\ Seated'
    BY <1>1, <1>3, <2>1, SeatedKept DEF ServerTyped
  <2>4. QED
    BY <1>3, <2>1, <2>2, <2>3, Gather
<1>6. QED
  BY <1>4, <1>5
-----------------------------------------------------------------------------
\* The table with a session more.
LEMMA TableGrows ==
  ASSUME ServerTyped, NEW u \in Users, sessions' = NewSession(u)
  PROVE  /\ sessions' \in Seq(Sessions) /\ Len(sessions') = Len(sessions) + 1
         /\ \A i \in 1 .. Len(sessions) : sessions'[i] = sessions[i]
         /\ sessions'[Len(sessions) + 1] = [user |-> u, active |-> TRUE]
<1>1. sessions \in Seq(Sessions) /\ [user |-> u, active |-> TRUE] \in Sessions
  BY DEF ServerTyped, Sessions
<1>2. sessions' = Append(sessions, [user |-> u, active |-> TRUE])
  BY DEF NewSession
<1>3. QED
  BY <1>1, <1>2

\* Old tokens mean what they meant; a session that is new is nobody's.
LEMMA OldTokens ==
  ASSUME IInv, NEW c \in Clients, NEW u \in Users, sessions' = NewSession(u),
         entry' \in {entry, [entry EXCEPT ![c] = Len(sessions) + 1]}, entry' # entry => entry[c] = 0,
         NEW k \in Clients, NEW t \in Held(k) \cup {0}
  PROVE  t \in 0 .. Len(sessions') /\ (t # 0 /\ sessions'[t].active => entry'[k] = t)
<1>1. /\ t \in 0 .. Len(sessions) /\ (t # 0 /\ sessions[t].active => entry[k] = t)
      /\ Len(sessions) \in Nat /\ entry \in [Clients -> Nat]
  BY DEF IInv, Tokens, ServerTyped
<1>2. Len(sessions') = Len(sessions) + 1 /\ \A i \in 1 .. Len(sessions) : sessions'[i] = sessions[i]
  BY TableGrows DEF IInv
<1>3. t # 0 => t \in 1 .. Len(sessions)
  BY <1>1
<1>4. ASSUME t # 0, sessions'[t].active
      PROVE  entry'[k] = t
  <2>1. entry[k] = t
    BY <1>1, <1>2, <1>3, <1>4
  <2>2. QED
    BY <1>1, <1>4, <2>1
<1>5. QED
  BY <1>1, <1>2, <1>4

\* A client without an entry gets a session, for a user who is not signed in.
LEMMA SignInKeeps ==
  ASSUME IInv, NEW c \in Clients, NEW u \in Users, entry[c] = 0, ~ SignedIn(u),
         NEW g \in Guis, g.token = gui[c].token, NEW type, NEW action,
         Asks(c, type, action, g, <<Answer("LOGIN")>>),
         entry' = [entry EXCEPT ![c] = Len(sessions) + 1], sessions' = NewSession(u),
         Remembers, UNCHANGED <<open, inFile, rows, members, born, server>>
  PROVE  IInv'
<1>. DEFINE n == Len(sessions) + 1
<1>1. /\ ClientTyped /\ ServerTyped /\ Tokens /\ SessionsMatch /\ Seated
      /\ sessions \in Seq(Sessions) /\ entry \in [Clients -> Nat] /\ Len(sessions) \in Nat
  BY DEF IInv, ServerTyped
<1>2. /\ sessions' \in Seq(Sessions) /\ Len(sessions') = n
      /\ \A i \in 1 .. Len(sessions) : sessions'[i] = sessions[i]
      /\ sessions'[n] = [user |-> u, active |-> TRUE]
  BY <1>1, TableGrows
<1>3. /\ entry' \in [Clients -> Nat] /\ entry'[c] = n
      /\ \A k \in Clients \ {c} : entry'[k] = entry[k] /\ entry[k] \in 0 .. Len(sessions)
  BY <1>1 DEF Tokens
<1>4. Answer("LOGIN") \in Letters /\ Answer("LOGIN").session = n
  <2>1. Bare("LOGIN") \in Letters
    BY Plainness DEF Kinds, FileIds
  <2>2. \A m \in Letters, t \in Nat :
          [m EXCEPT !.session = t] \in Letters /\ [m EXCEPT !.session = t].session = t
    BY DEF Letters
  <2>3. n \in Nat /\ Answer("LOGIN") = [Bare("LOGIN") EXCEPT !.session = n]
    BY <1>1 DEF Answer
  <2>. HIDE DEF n
  <2>4. QED
    BY <2>1, <2>2, <2>3, Zenon
<1>5. /\ gui' \in [Clients -> Guis] /\ down' \in [Clients -> Seq(Letters)]
      /\ Held(c)' \subseteq Held(c) \cup {n}
      /\ \A k \in Clients \ {c} : Held(k)' \subseteq Held(k) \cup {0}
  <2>. DEFINE s == <<Answer("LOGIN")>>
  <2>1. Fault \in Letters /\ Fault.session = 0 /\ s \in Seq(Letters) /\ Sent(s) = {n}
    BY <1>4, Plainness, SentFew DEF Kinds, FileIds
  <2>2. gui' = [gui EXCEPT ![c] = g] /\ Delivers(c, s, {}, Fault)
    BY DEF Asks
  <2>. HIDE DEF s
  <2>3. /\ down' \in [Clients -> Seq(Letters)] /\ Sent(down'[c]) \subseteq Sent(down[c]) \cup {n}
        /\ \A k \in Clients \ {c} : Sent(down'[k]) \subseteq Sent(down[k]) \cup {0}
    <3>1. /\ down' \in [Clients -> Seq(Letters)]
          /\ Sent(down'[c]) \subseteq Sent(down[c]) \cup Sent(s)
          /\ \A k \in Clients \ {c} : Sent(down'[k]) \subseteq Sent(down[k]) \cup {Fault.session}
      BY <1>1, <2>1, <2>2, DeliversWhat
    <3>2. QED
      BY <2>1, <3>1
  <2>4. gui' \in [Clients -> Guis] /\ \A k \in Clients : gui'[k].token = gui[k].token
    BY <1>1, <2>2 DEF ClientTyped
  <2>5. \A k \in Clients : Held(k)' = {gui'[k].token} \cup Sent(down'[k])
    BY DEF Held, Sent
  <2>6. QED
    BY <2>3, <2>4, <2>5 DEF Held
<1>6. Tokens'
  <2>1. ASSUME NEW k \in Clients, NEW t \in Held(k)'
        PROVE  t \in 0 .. Len(sessions') /\ (t # 0 /\ sessions'[t].active => entry'[k] = t)
    <3>1. t \in Held(k) \cup {0} \/ (k = c /\ t = n)
      BY <1>5
    <3>2. CASE t \in Held(k) \cup {0}
      BY <3>2, OldTokens
    <3>3. CASE k = c /\ t = n
      BY <1>1, <1>2, <1>3, <3>3
    <3>4. QED
      BY <3>1, <3>2, <3>3
  <2>2. \A k \in Clients : entry'[k] \in 0 .. Len(sessions')
    BY <1>1, <1>2, <1>3
  <2>3. QED
    BY <2>1, <2>2 DEF Tokens
<1>7. SessionsMatch'
  <2>1. \A k \in Clients \ {c} : entry'[k] # 0 =>
          /\ entry'[k] \in 1 .. Len(sessions) /\ entry'[k] # n
          /\ sessions'[entry'[k]] = sessions[entry[k]] /\ sessions[entry[k]].user # u
    BY <1>1, <1>2, <1>3 DEF SignedIn
  <2>2. sessions'[entry'[c]].user = u
    BY <1>2, <1>3
  <2>3. \A k, l \in Clients : k # l /\ entry'[k] # 0 /\ entry'[l] # 0 =>
          sessions'[entry'[k]].user # sessions'[entry'[l]].user
    BY <1>1, <1>3, <2>1, <2>2 DEF SessionsMatch
  <2>4. ASSUME {i \in DOMAIN sessions : sessions[i].active} = {entry[k] : k \in Clients} \ {0}
        PROVE  {i \in DOMAIN sessions' : sessions'[i].active} = {entry'[k] : k \in Clients} \ {0}
    <3>1. DOMAIN sessions = 1 .. Len(sessions) /\ DOMAIN sessions' = 1 .. n
      BY <1>1, <1>2
    <3>2. {i \in DOMAIN sessions' : sessions'[i].active}
            = {i \in DOMAIN sessions : sessions[i].active} \cup {n}
      BY <1>1, <1>2, <3>1
    <3>3. {entry'[k] : k \in Clients} \ {0} = ({entry[k] : k \in Clients} \ {0}) \cup {n}
      BY <1>1, <1>3
    <3>4. QED
      BY <2>4, <3>2, <3>3
  <2>5. QED
    BY <1>1, <2>3, <2>4 DEF SessionsMatch, Remembers
<1>8. ServerTyped'
  BY <1>1, <1>2, <1>3 DEF ServerTyped
<1>9. Seated'
  <2>1. \A f \in Files : \A k \in inFile[f] : k \in Clients /\ (entry[k] # 0 => entry'[k] # 0)
    BY <1>1, <1>3 DEF ServerTyped
  <2>2. QED
    BY <1>1, <2>1 DEF Seated, Remembers
<1>10. ClientTyped' /\ FallsOnlyToGhosts'
  BY <1>5, FallsKept DEF ClientTyped, Remembers, IInv
<1>11. QED
  BY <1>6, <1>7, <1>8, <1>9, <1>10 DEF IInv

\* A login starts a session and makes the entry that has it.
LEMMA LoginKeeps ==
  ASSUME IInv, NEW c \in Clients, NEW u \in SignsAs[c], Login(c, u)
  PROVE  IInv'
<1>. DEFINE g == Freeze(gui[c])
<1>1. ClientTyped /\ ServerTyped /\ Seated /\ u \in Users
  BY ClientViewAssumption DEF IInv
<1>2. g \in Guis /\ g.token = gui[c].token
  BY <1>1, GuiOps DEF ClientTyped
<1>3. Remembers /\ UNCHANGED <<open, inFile, rows, members, born, server>>
  BY <1>1, PastKept DEF Login, history
<1>4. CASE u \notin accounts \/ entry[c] # 0 \/ SignedIn(u)
  <2>1. Asks(c, "USER", "LOGIN", g, <<Fault>>) /\ UNCHANGED <<entry, sessions>>
    BY <1>4 DEF Login
  <2>. HIDE DEF g
  <2>2. Hands /\ FallsOnlyToGhosts'
    BY <1>2, <1>3, <2>1, RefusedKeeps
  <2>3. ServerTyped' /\ Seated'
    BY <1>1, <1>3, <2>1, SeatedKept DEF ServerTyped
  <2>4. QED
    BY <1>3, <2>1, <2>2, <2>3, Gather
<1>5. CASE ~ (u \notin accounts \/ entry[c] # 0 \/ SignedIn(u))
  <2>1. /\ Asks(c, "USER", "LOGIN", g, <<Answer("LOGIN")>>)
        /\ entry' = [entry EXCEPT ![c] = Len(sessions) + 1] /\ sessions' = NewSession(u)
    BY <1>5 DEF Login
  <2>. HIDE DEF g
  <2>2. QED
    BY <1>1, <1>2, <1>3, <1>5, <2>1, SignInKeeps
<1>6. QED
  BY <1>4, <1>5

\* newUser: as a login for a client without an entry; otherwise a session is left
\* that is nobody's, and past says so.
LEMMA SignupKeeps ==
  ASSUME IInv, NEW c \in Clients, NEW u \in SignsAs[c], Signup(c, u)
  PROVE  IInv'
<1>. DEFINE g == Freeze(gui[c])
<1>1. /\ ClientTyped /\ ServerTyped /\ Tokens /\ SessionsMatch /\ Seated /\ u \in Users
      /\ sessions \in Seq(Sessions) /\ entry \in [Clients -> Nat]
  BY ClientViewAssumption DEF IInv, ServerTyped
<1>2. g \in Guis /\ g.token = gui[c].token
  BY <1>1, GuiOps DEF ClientTyped
<1>3. UNCHANGED <<open, inFile, rows, members, born, server>>
  BY DEF Signup
<1>4. CASE u \in accounts
  <2>1. Asks(c, "USER", "NEW_USER", g, <<Fault>>) /\ UNCHANGED <<entry, sessions, past>>
    BY <1>4 DEF Signup
  <2>. HIDE DEF g
  <2>2. Remembers
    BY <1>1, <2>1, PastKept
  <2>3. Hands /\ FallsOnlyToGhosts'
    BY <1>2, <1>3, <2>1, <2>2, RefusedKeeps
  <2>4. ServerTyped' /\ Seated'
    BY <1>1, <1>3, <2>1, <2>2, SeatedKept DEF ServerTyped
  <2>5. QED
    BY <2>1, <2>2, <2>3, <2>4, Gather
<1>5. CASE u \notin accounts
  <2>1. (\A i \in DOMAIN sessions : sessions[i].user # u) /\ sessions' = NewSession(u)
    BY <1>5 DEF Signup
  <2>2. CASE entry[c] = 0
    <3>1. /\ Asks(c, "USER", "NEW_USER", g, <<Answer("LOGIN")>>)
          /\ entry' = [entry EXCEPT ![c] = Len(sessions) + 1] /\ past' = past
      BY <1>5, <2>2 DEF Signup
    <3>2. ~ SignedIn(u)
      <4>1. \A k \in Clients : entry[k] # 0 => entry[k] \in DOMAIN sessions
        BY <1>1 DEF Tokens
      <4>2. QED
        BY <2>1, <4>1 DEF SignedIn
    <3>. HIDE DEF g
    <3>3. Remembers
      BY <1>1, <3>1, PastKept
    <3>4. QED
      BY <1>1, <1>2, <1>3, <2>1, <2>2, <3>1, <3>2, <3>3, SignInKeeps
  <2>3. CASE entry[c] # 0
    <3>1. /\ Asks(c, "USER", "NEW_USER", g, <<Fault>>) /\ entry' = entry
          /\ past' = [past EXCEPT ![c] = @ \cup {"doubled"}]
      BY <1>5, <2>3 DEF Signup
    <3>. HIDE DEF g
    <3>2. Remembers /\ "doubled" \in past'[c]
      <4>1. "doubled" \in Causes
        BY DEF Causes
      <4>2. QED
        BY <1>1, <3>1, <4>1, PastKept DEF ClientTyped
    <3>3. Hands /\ FallsOnlyToGhosts'
      BY <1>2, <1>3, <3>1, <3>2, RefusedKeeps
    <3>4. /\ sessions' \in Seq(Sessions) /\ Len(sessions') = Len(sessions) + 1
          /\ \A i \in 1 .. Len(sessions) : sessions'[i] = sessions[i]
      BY <1>1, <2>1, TableGrows
    <3>5. \A k \in Clients : entry[k] \in 0 .. Len(sessions)
      BY <1>1 DEF Tokens
    <3>6. Tokens'
      <4>1. ASSUME NEW k \in Clients, NEW t \in Held(k)'
            PROVE  t \in 0 .. Len(sessions') /\ (t # 0 /\ sessions'[t].active => entry'[k] = t)
        <5>1. t \in Held(k) \cup {0}
          BY <3>3 DEF Hands
        <5>2. QED
          BY <1>1, <2>1, <3>1, <5>1, OldTokens
      <4>2. \A k \in Clients : entry'[k] \in 0 .. Len(sessions')
        BY <1>1, <3>1, <3>4, <3>5
      <4>3. QED
        BY <4>1, <4>2 DEF Tokens
    <3>7. SessionsMatch'
      <4>1. \A k \in Clients : entry[k] # 0 => sessions'[entry[k]] = sessions[entry[k]]
        BY <1>1, <3>4, <3>5
      <4>2. QED
        BY <1>1, <3>1, <3>2, <4>1 DEF SessionsMatch
    <3>8. ServerTyped' /\ Seated'
      BY <1>1, <1>3, <3>1, <3>2, <3>4, SeatedKept DEF ServerTyped
    <3>9. ClientTyped'
      BY <3>2, <3>3 DEF ClientTyped, Hands, Remembers
    <3>10. QED
      BY <3>3, <3>6, <3>7, <3>8, <3>9 DEF IInv
  <2>4. QED
    BY <2>2, <2>3
<1>6. QED
  BY <1>4, <1>5
-----------------------------------------------------------------------------
\* At the start nobody has a session or is in a file.
LEMMA InitHolds ==
  ASSUME Init
  PROVE  IInv
<1>1. ClientTyped
  <2>1. [Started EXCEPT !.conn = "made", !.win = "Login"] \in Guis
    BY Beginnings DEF Guis, Links, Windows
  <2>2. QED
    BY <2>1, Beginnings, SentFew DEF Init, ClientTyped
<1>2. ServerTyped
  BY ClientViewAssumption DEF Init, ServerTyped, FileIds
<1>3. ASSUME NEW k \in Clients
      PROVE  Held(k) = {0} /\ entry[k] = 0
  <2>1. gui[k].token = 0
    BY DEF Init, Started
  <2>2. down[k] = << >> /\ entry[k] = 0
    BY DEF Init
  <2>3. QED
    BY <2>1, <2>2, SentFew DEF Held
<1>4. Tokens
  BY <1>2, <1>3 DEF Tokens, ServerTyped
<1>5. SessionsMatch
  <2>1. DOMAIN sessions = {}
    BY DEF Init
  <2>2. QED
    BY <1>3, <2>1 DEF SessionsMatch
<1>6. Seated
  BY ClientViewAssumption DEF Init, Seated
<1>7. FallsOnlyToGhosts
  BY DEF Init, FallsOnlyToGhosts
<1>8. QED
  BY <1>1, <1>2, <1>4, <1>5, <1>6, <1>7 DEF IInv

\* Every step keeps IInv.
LEMMA NextKeeps ==
  ASSUME IInv, [Next]_vars
  PROVE  IInv'
<1>1. CASE UNCHANGED vars
  <2>1. UNCHANGED <<gui, down, entry, open, inFile, sessions, rows, members, born, server, past>>
    BY <1>1 DEF vars, manager, store, history
  <2>2. Hands
    <3>1. \A k \in Clients : Held(k)' = Held(k)
      BY <2>1 DEF Held, Sent
    <3>2. QED
      BY <2>1, <3>1 DEF Hands, IInv, ClientTyped
  <2>3. Remembers /\ FallsOnlyToGhosts'
    BY <2>1, PastKept DEF IInv, FallsOnlyToGhosts
  <2>4. ServerTyped' /\ Seated'
    BY <2>1, <2>3, SeatedKept DEF IInv, ServerTyped
  <2>5. QED
    BY <2>1, <2>2, <2>3, <2>4, Gather
<1>2. CASE Next
  <2>1. PICK c \in Clients :
          \/ Sitting(c) \/ Receiving(c) \/ Gone(c)
          \/ SocketConnected(c) \/ Connected(c) \/ CheckConnection(c) \/ ConnectionLost(c)
    BY <1>2 DEF Next
  <2>2. CASE Sitting(c)
    <3>1. /\ gui[c].fileId \in FileIds
          /\ Freeze(gui[c]) \in Guis /\ Freeze(gui[c]).token = gui[c].token /\ gui[c] \in Guis
      <4>1. gui[c] \in Guis
        BY DEF IInv, ClientTyped
      <4>2. QED
        BY <4>1, GuiOps DEF Guis
    <3>2. ASSUME NEW f \in Files, DeleteFile(c, f)
          PROVE  IInv'
      BY <3>1, <3>2, RemoveKeeps DEF DeleteFile, FileIds
    <3>3. CASE EditorRemove(c)
      BY <3>1, <3>3, RemoveKeeps DEF EditorRemove
    <3>4. CASE EditorEdit(c)
      BY <3>1, <3>4, TypesKeeps DEF EditorEdit
    <3>5. CASE EditorMove(c)
      BY <3>1, <3>5, TypesKeeps DEF EditorMove
    <3>6. QED
      BY <2>2, <3>2, <3>3, <3>4, <3>5, ConnectionKeeps, ActsKeep, LoginKeeps, SignupKeeps,
         LogoutKeeps, DeleteAccountKeeps, NewFileKeeps, OpenKeeps, ActivateLinkKeeps,
         EditorCloseKeeps, DeleteDirKeeps
      DEF Sitting
  <2>3. CASE Receiving(c)
    BY <2>3, ReceivingKeeps
  <2>4. CASE Gone(c)
    BY <2>4, GoneKeeps
  <2>5. CASE SocketConnected(c) \/ Connected(c) \/ CheckConnection(c)
    BY <2>5, ConnectionKeeps
  <2>6. CASE ConnectionLost(c)
    BY <2>6, ActsKeep
  <2>7. QED
    BY <2>1, <2>2, <2>3, <2>4, <2>5, <2>6
<1>3. QED
  BY <1>1, <1>2

\* In every state every token that is valid, held by a client or under way to it,
\* is that of its own entry, and nobody is left in a list but as IInv allows.
THEOREM Inductive == Spec => []IInv
<1>1. Init => IInv
  BY InitHolds
<1>2. IInv /\ [Next]_vars => IInv'
  BY NextKeeps
<1>3. QED
  BY <1>1, <1>2, PTL DEF Spec

\* The active sessions are those of the entries, of different users, for any
\* number of clients, users and files (User::login, addClient, closeSession).
THEOREM SessionsAgree == Spec => []SessionsMatch
<1>1. IInv => SessionsMatch
  BY DEF IInv
<1>2. QED
  BY <1>1, Inductive, PTL

\* Only a removed account with a file open brings the server down over a null
\* session (MessageManager::getClientsInFile and getUserId).
THEOREM FallsToGhosts == Spec => []FallsOnlyToGhosts
<1>1. IInv => FallsOnlyToGhosts
  BY DEF IInv
<1>2. QED
  BY <1>1, Inductive, PTL
-----------------------------------------------------------------------------
\* A client was left in the list of a file, without its entry or without its row.
Haunted == \E k \in Clients : past[k] \cap {"haunting", "strayed"} # {}

\* Answers that show another window over an editor.
Covering == Opening \cup {"LOGIN", "EDIT_USER", "DELETE_USER"}

\* What no request is answered with, and what a client takes without a token.
Unasked   == {"STRANGER", "JOINED", "ICON"}
Tokenless == {"ERROR"} \cup Unasked

At1(k) == 1 .. Len(down[k])

WindowsTyped ==
  /\ swept \in [Clients -> SUBSET Windows] /\ knows \in [Clients -> SUBSET Users]
  /\ members \in [Files -> SUBSET Users]
  /\ server \in {"up", "fallen"}

\* A client that is not connected is sent nothing.
Linked(k) ==
  /\ ~ Running(k) => down[k] = << >>
  /\ Running(k) /\ gui[k].conn # "made" =>
       down[k] = << >> /\ entry[k] = 0 /\ \A f \in Files : k \notin inFile[f]
  /\ gui[k].conn = "aborted" => "raced" \in past[k]
  /\ gui[k].timer => gui[k].conn \in {"opening", "open"}
  /\ gui[k].ended = "lost" => server = "fallen" \/ "raced" \in past[k]

Entered(k) ==
  /\ entry[k] # 0 => sessions[entry[k]].active
  /\ \A i \in At1(k) : down[k][i].kind = "LOGIN" =>
       /\ entry[k] # 0 /\ down[k][i].session = entry[k] /\ gui[k].token # entry[k]
       /\ \A j \in At1(k) : j # i => down[k][j].kind # "LOGIN"
       /\ \A j \in At1(k) : j > i => down[k][j].kind \notin Opening
  /\ Running(k) /\ entry[k] # 0 =>
       gui[k].token = entry[k] \/ \E i \in At1(k) : down[k][i].kind = "LOGIN"

Unlogged(k) ==
  /\ gui[k].ended = "notLogged" => "late" \in past[k]
  /\ Running(k) /\ ~ gui[k].logged /\ "late" \notin past[k] =>
       /\ gui[k].win \in {"Connect", "Login", "Registration"}
       /\ \A i \in At1(k) : down[k][i].kind \in Tokenless \/ \E j \in 1 .. i : down[k][j].kind = "LOGIN"
       /\ entry[k] # 0 => \E i \in At1(k) : down[k][i].kind = "LOGIN"

Frozen(k) ==
  server = "up" /\ Running(k) => \A w \in gui[k].frozen \ swept[k] :
      /\ w = gui[k].win
      /\ IF w = "Connect" THEN gui[k].timer \/ gui[k].conn # "none"
         ELSE \E i \in At1(k) : down[k][i].kind \in Releasing

Named(k) ==
  /\ Running(k) /\ gui[k].win = "Editor" => gui[k].fileOpen
  /\ \/ "crossed" \in past[k]
     \/ /\ Running(k) /\ gui[k].win = "Editor" => gui[k].fileId = gui[k].shown
        /\ \A i \in At1(k) : down[k][i].kind = "GET" =>
             /\ down[k][i].file = gui[k].fileId
             /\ \A j \in At1(k) : j < i => down[k][j].kind \notin Opening

Covered(k) ==
  Haunted \/ (Running(k) /\ open[k] # NoFile /\ past[k] \cap {"returned", "covered", "crossed"} = {} =>
    \/ /\ gui[k].win = "Editor" /\ gui[k].shown = open[k]
       /\ \A i \in At1(k) : down[k][i].kind \notin Covering
    \/ \E i \in At1(k) :
         /\ down[k][i].kind \in Opening /\ down[k][i].file = open[k]
         /\ \A j \in At1(k) : j > i => down[k][j].kind \notin Covering)

\* The icons that are asked for, or will be, are of users the editor lists, unless
\* another file was entered meanwhile. Who is told that a user has come shows a file,
\* or will before it is told.
Joining(k) ==
  /\ gui[k].ended = "icon" => "switched" \in past[k]
  /\ \A i \in At1(k) :
       /\ down[k][i].kind = "ICON" => "switched" \in past[k]
       /\ down[k][i].kind \in Opening \cup {"JOINED"} =>
            down[k][i].users \subseteq knows[k] \/ "switched" \in past[k]
       /\ down[k][i].kind \in Opening => down[k][i].file \in Files
       /\ down[k][i].kind = "JOINED" =>
            Haunted \/ gui[k].shown # NoFile \/ \E j \in 1 .. i : down[k][j].kind \in Opening
  /\ \/ Haunted
     \/ Running(k) /\ open[k] # NoFile =>
          gui[k].shown # NoFile \/ \E i \in At1(k) : down[k][i].kind \in Opening

ClientParts(k) ==
  Linked(k) /\ Entered(k) /\ Unlogged(k) /\ Frozen(k) /\ Named(k) /\ Covered(k) /\ Joining(k)

SeatInv ==
  Haunted \/ \A k \in Clients : \A f \in Files : open[k] = f =>
    /\ k \in inFile[f] /\ entry[k] # 0 /\ sessions[entry[k]].user \in rows[f] \cap members[f]
    /\ members[f] \subseteq knows[k]

\* The files a client shows or is about to show.
Viewed(k) == {f \in Files :
  \/ gui[k].win = "Editor" /\ f = gui[k].shown
  \/ \E i \in At1(k) : down[k][i].kind \in Opening /\ down[k][i].file = f}

MemberInv == \A k \in Clients : Running(k) => \A f \in Viewed(k) :
  /\ f \in born
  /\ Valid(Holds(k)) /\ UserOf(k) \in rows[f] =>
       UserOf(k) \in members[f] \/ Haunted \/ "linked" \in past[k]

Excuse == \E k \in Clients : past[k] \cap {"crossed", "haunting", "linked", "strayed"} # {}

StrangerInv == \A k \in Clients :
  gui[k].ended = "stranger" \/ (\E i \in At1(k) : down[k][i].kind = "STRANGER") => Excuse

WInv == WindowsTyped /\ (\A k \in Clients : ClientParts(k)) /\ SeatInv /\ MemberInv /\ StrangerInv
-----------------------------------------------------------------------------
\* t is what s becomes when n messages are taken from its front, and messages of
\* new are added at its end.
Onward(s, t, n, new) ==
  /\ n \in {0, 1} /\ n <= Len(s) /\ Len(t) >= Len(s) - n
  /\ \A i \in 1 .. (Len(s) - n) : t[i] = s[i + n]
  /\ \A i \in 1 .. Len(t) : i > Len(s) - n => t[i] \in new

\* Nothing, one message or two at the end; one taken from the front.
LEMMA Onwards ==
  ASSUME NEW s \in Seq(Letters), NEW m \in Letters
  PROVE  /\ Onward(s, s, 0, {}) /\ Onward(s, s \o << >>, 0, {})
         /\ Onward(s, Append(s, m), 0, {m}) /\ Onward(s, s \o <<m>>, 0, {m})
         /\ Append(s, m)[Len(Append(s, m))] = m /\ (s \o <<m>>)[Len(s \o <<m>>)] = m
         /\ Append(s, m) \in Seq(Letters) /\ s \o <<m>> \in Seq(Letters)
  <1>1. s \o <<m>> = Append(s, m) /\ s \o << >> = s
    OBVIOUS
  <1>2. Onward(s, s, 0, {})
    BY DEF Onward
  <1>3. /\ Append(s, m) \in Seq(Letters) /\ Len(Append(s, m)) = Len(s) + 1
        /\ \A i \in 1 .. Len(s) : Append(s, m)[i] = s[i]
        /\ Append(s, m)[Len(s) + 1] = m
    OBVIOUS
  <1>4. Onward(s, Append(s, m), 0, {m})
    BY <1>3 DEF Onward
  <1>5. QED
    BY <1>1, <1>2, <1>3, <1>4

\* The first message is taken, and nothing, one message or two of a kind are added.
LEMMA OnwardTail ==
  ASSUME NEW s \in Seq(Letters), s # << >>, NEW m \in Letters
  PROVE  /\ Onward(s, Tail(s) \o << >>, 1, {}) /\ Tail(s) \o << >> \in Seq(Letters)
         /\ Onward(s, Tail(s) \o <<m, m>>, 1, {m}) /\ Tail(s) \o <<m, m>> \in Seq(Letters)
         /\ Onward(s, Append(Tail(s), m), 1, {m}) /\ Append(Tail(s), m) \in Seq(Letters)
         /\ Head(s) = s[1] /\ s[1] \in Letters /\ Len(s) \in Nat /\ Len(s) >= 1
  <1>1. /\ Tail(s) \in Seq(Letters) /\ Len(Tail(s)) = Len(s) - 1 /\ Len(s) \in Nat /\ Len(s) >= 1
        /\ \A i \in 1 .. (Len(s) - 1) : Tail(s)[i] = s[i + 1]
        /\ Head(s) = s[1] /\ s[1] \in Letters
    OBVIOUS
  <1>2. Tail(s) \o << >> = Tail(s) /\ Onward(s, Tail(s), 1, {})
    BY <1>1 DEF Onward
  <1> DEFINE r == Tail(s)
  <1> HIDE DEF r
  <1>3. r \in Seq(Letters) /\ Len(r) = Len(s) - 1 /\ r = Tail(s)
        /\ \A i \in 1 .. (Len(s) - 1) : r[i] = s[i + 1]
    BY <1>1 DEF r
  <1>4. /\ Append(r, m) \in Seq(Letters) /\ Len(Append(r, m)) = Len(r) + 1
        /\ \A i \in 1 .. Len(r) : Append(r, m)[i] = r[i]
        /\ Append(r, m)[Len(r) + 1] = m
    BY <1>3
  <1>5. Onward(s, Append(r, m), 1, {m})
    <2> DEFINE q == Append(r, m)
    <2>1. /\ Len(q) = Len(s) /\ \A i \in 1 .. (Len(s) - 1) : q[i] = s[i + 1]
          /\ q[Len(s)] = m
      BY <1>1, <1>3, <1>4
    <2> HIDE DEF q
    <2>2. Onward(s, q, 1, {m})
      BY <1>1, <2>1 DEF Onward
    <2>3. QED
      BY <2>2 DEF q
  <1>6. <<m, m>> \in Seq(Letters) /\ Len(<<m, m>>) = 2 /\ \A i \in 1 .. 2 : <<m, m>>[i] = m
    OBVIOUS
  <1>7. /\ r \o <<m, m>> \in Seq(Letters) /\ Len(r \o <<m, m>>) = Len(r) + 2
        /\ \A i \in 1 .. Len(r) : (r \o <<m, m>>)[i] = r[i]
        /\ \A i \in (Len(r) + 1) .. (Len(r) + 2) : (r \o <<m, m>>)[i] = m
    BY <1>3, <1>6
  <1>8. Onward(s, r \o <<m, m>>, 1, {m})
    BY <1>1, <1>3, <1>7 DEF Onward
  <1>9. QED
    BY <1>1, <1>2, <1>3, <1>4, <1>5, <1>7, <1>8
-----------------------------------------------------------------------------
\* The parts about a client that no step of it disturbs which takes nothing but
\* what is harmless from its messages and adds nothing else.
LEMMA LinkedStays ==
  ASSUME NEW k \in Clients, Linked(k), past[k] \subseteq past'[k],
         server' \in {server, "fallen"},
         gui'[k].ended = gui[k].ended, gui'[k].conn = gui[k].conn, gui'[k].timer = gui[k].timer,
         entry'[k] = entry[k], down'[k] = down[k] \/ (Running(k) /\ gui[k].conn = "made"),
         gui[k].conn = "made" \/ \A f \in Files : k \in inFile'[f] => k \in inFile[f]
  PROVE  Linked(k)'
  BY DEF Linked, Running

\* The session of the entry and the answer that carries it are as they were.
LEMMA EnteredStays ==
  ASSUME NEW k \in Clients, Entered(k), down \in [Clients -> Seq(Letters)],
         down'[k] \in Seq(Letters), NEW n, NEW new, Onward(down[k], down'[k], n, new),
         entry'[k] = entry[k], gui'[k].token = gui[k].token, Running(k)' => Running(k),
         entry[k] # 0 => sessions'[entry[k]].active = sessions[entry[k]].active,
         n = 1 => down[k][1].kind # "LOGIN",
         \A m \in new : m.kind # "LOGIN" /\ (m.kind \in Opening => gui[k].token = entry[k])
  PROVE  Entered(k)'
  <1> DEFINE s == down[k]
             t == down'[k]
  <1>0. s \in Seq(Letters) /\ t \in Seq(Letters) /\ Len(s) \in Nat /\ Len(t) \in Nat
    OBVIOUS
  <1>1. /\ n \in {0, 1} /\ n <= Len(s) /\ Len(t) >= Len(s) - n
        /\ \A i \in 1 .. (Len(s) - n) : t[i] = s[i + n] /\ i + n \in 1 .. Len(s)
        /\ \A i \in 1 .. Len(t) : i \in 1 .. (Len(s) - n) \/ t[i] \in new
    BY <1>0 DEF Onward
  <1>2. \A i \in 1 .. Len(s) : i - n \in 1 .. (Len(s) - n) \/ (n = 1 /\ i = 1)
    BY <1>0, <1>1
  <1> HIDE DEF s, t
  <1>3. ASSUME NEW i \in 1 .. Len(t), t[i].kind = "LOGIN"
        PROVE  /\ i \in 1 .. (Len(s) - n) /\ i + n \in 1 .. Len(s) /\ t[i] = s[i + n]
    BY <1>1, <1>3
  <1>4. ASSUME NEW i \in 1 .. Len(t), t[i].kind = "LOGIN"
        PROVE  /\ entry[k] # 0 /\ t[i].session = entry[k] /\ gui[k].token # entry[k]
               /\ \A j \in 1 .. Len(t) : j # i => t[j].kind # "LOGIN"
               /\ \A j \in 1 .. Len(t) : j > i => t[j].kind \notin Opening
    <2>1. i + n \in 1 .. Len(s) /\ t[i] = s[i + n] /\ i \in Nat
      BY <1>3, <1>4
    <2>2. /\ entry[k] # 0 /\ t[i].session = entry[k] /\ gui[k].token # entry[k]
          /\ \A j \in 1 .. Len(s) : j # i + n => s[j].kind # "LOGIN"
          /\ \A j \in 1 .. Len(s) : j > i + n => s[j].kind \notin Opening
      BY <1>4, <2>1 DEF Entered, At1, s
    <2>3. ASSUME NEW j \in 1 .. Len(t), j # i PROVE t[j].kind # "LOGIN"
      <3>1. SUFFICES ASSUME t[j].kind = "LOGIN" PROVE FALSE
        OBVIOUS
      <3>2. j + n \in 1 .. Len(s) /\ t[j] = s[j + n]
        BY <1>3, <3>1
      <3>3. j + n # i + n
        BY <1>1, <2>1, <2>3
      <3>4. QED
        BY <2>2, <3>1, <3>2, <3>3
    <2>4. ASSUME NEW j \in 1 .. Len(t), j > i PROVE t[j].kind \notin Opening
      <3>1. CASE t[j] \in new
        BY <2>2, <3>1
      <3>2. CASE j \in 1 .. (Len(s) - n)
        <4>1. t[j] = s[j + n] /\ j + n \in 1 .. Len(s)
          BY <1>1, <3>2
        <4>2. j + n > i + n
          BY <1>1, <2>1, <2>4
        <4>3. QED
          BY <2>2, <4>1, <4>2
      <3>3. QED
        BY <1>1, <3>1, <3>2
    <2>5. QED
      BY <2>2, <2>3, <2>4
  <1>5. ASSUME NEW i \in 1 .. Len(s), s[i].kind = "LOGIN"
        PROVE  \E j \in 1 .. Len(t) : t[j].kind = "LOGIN"
    <2>1. i - n \in 1 .. (Len(s) - n) /\ i - n + n = i
      <3>1. ~ (n = 1 /\ i = 1)
        BY <1>5 DEF s
      <3>2. QED
        BY <1>1, <1>2, <3>1
    <2>2. i - n \in 1 .. Len(t) /\ t[i - n] = s[i]
      BY <1>0, <1>1, <2>1
    <2>3. QED
      BY <1>5, <2>2
  <1>6. QED
    BY <1>4, <1>5 DEF Entered, At1, s, t

\* What is in t comes from s, in its order, or is new.
LEMMA OnwardFacts ==
  ASSUME NEW s \in Seq(Letters), NEW t \in Seq(Letters), NEW n, NEW new, Onward(s, t, n, new)
  PROVE  /\ n \in {0, 1} /\ Len(s) \in Nat /\ Len(t) \in Nat
         /\ \A i \in 1 .. Len(t) : i > Len(s) - n => t[i] \in new
         /\ \A i \in 1 .. Len(t) : i <= Len(s) - n => i + n \in 1 .. Len(s) /\ t[i] = s[i + n]
         /\ \A i \in 1 .. Len(s) : \/ n = 1 /\ i = 1
                                   \/ i - n \in 1 .. Len(t) /\ i - n <= Len(s) - n /\ t[i - n] = s[i]
  <1>1. Len(s) \in Nat /\ Len(t) \in Nat
    OBVIOUS
  <1>2. /\ n \in {0, 1} /\ n <= Len(s) /\ Len(t) >= Len(s) - n
        /\ \A i \in 1 .. (Len(s) - n) : t[i] = s[i + n]
        /\ \A i \in 1 .. Len(t) : i > Len(s) - n => t[i] \in new
    BY DEF Onward
  <1>3. \A i \in 1 .. Len(t) : i <= Len(s) - n => i + n \in 1 .. Len(s) /\ i \in 1 .. (Len(s) - n)
    BY <1>1, <1>2
  <1>4. \A i \in 1 .. Len(s) : \/ n = 1 /\ i = 1
                               \/ /\ i - n \in 1 .. Len(t) /\ i - n <= Len(s) - n
                                  /\ i - n \in 1 .. (Len(s) - n) /\ i - n + n = i
    BY <1>1, <1>2
  <1>5. QED
    BY <1>1, <1>2, <1>3, <1>4

\* When one is taken from the front.
LEMMA OnwardOne ==
  ASSUME NEW s \in Seq(Letters), NEW t \in Seq(Letters), NEW new, Onward(s, t, 1, new)
  PROVE  /\ Len(s) \in Nat /\ Len(t) \in Nat
         /\ \A i \in 1 .. Len(t) : i > Len(s) - 1 => t[i] \in new
         /\ \A i \in 1 .. Len(t) : i <= Len(s) - 1 => i + 1 \in 1 .. Len(s) /\ t[i] = s[i + 1]
         /\ \A i \in 1 .. Len(s) : i = 1 \/ (i - 1 \in 1 .. Len(t) /\ i - 1 <= Len(s) - 1 /\ t[i - 1] = s[i])
  <1>1. PICK n : n = 1
    OBVIOUS
  <1>2. Onward(s, t, n, new)
    BY <1>1
  <1>3. /\ n \in {0, 1} /\ Len(s) \in Nat /\ Len(t) \in Nat
        /\ \A i \in 1 .. Len(t) : i > Len(s) - n => t[i] \in new
        /\ \A i \in 1 .. Len(t) : i <= Len(s) - n => i + n \in 1 .. Len(s) /\ t[i] = s[i + n]
        /\ \A i \in 1 .. Len(s) : \/ n = 1 /\ i = 1
                                  \/ i - n \in 1 .. Len(t) /\ i - n <= Len(s) - n /\ t[i - n] = s[i]
    BY <1>2, OnwardFacts
  <1>4. QED
    BY <1>1, <1>3

\* A client that is not logged in is still sent only what needs no token before its login.
LEMMA UnloggedStays ==
  ASSUME NEW k \in Clients, Unlogged(k), down \in [Clients -> Seq(Letters)],
         down'[k] \in Seq(Letters), NEW n, NEW new, Onward(down[k], down'[k], n, new),
         past[k] \subseteq past'[k], gui'[k].ended = gui[k].ended,
         gui'[k].logged = gui[k].logged, entry'[k] = entry[k],
         \/ gui[k].logged
         \/ /\ gui'[k].win = gui[k].win \/ gui'[k].win \in {"Connect", "Login", "Registration"}
            /\ n = 1 => down[k][1].kind # "LOGIN"
            /\ \A m \in new : m.kind \in Tokenless \/ entry[k] # 0
  PROVE  Unlogged(k)'
  <1> DEFINE s == down[k]
             t == down'[k]
  <1>1. gui[k].ended = "notLogged" => "late" \in past'[k]
    BY DEF Unlogged
  <1>2. SUFFICES ASSUME Running(k), ~ gui[k].logged, "late" \notin past[k]
                 PROVE  /\ gui'[k].win \in {"Connect", "Login", "Registration"}
                        /\ \A i \in At1(k)' : t[i].kind \in Tokenless
                                            \/ \E j \in 1 .. i : t[j].kind = "LOGIN"
                        /\ entry[k] # 0 => \E i \in At1(k)' : t[i].kind = "LOGIN"
    BY <1>1 DEF Unlogged, Running
  <1>3. /\ gui[k].win \in {"Connect", "Login", "Registration"}
        /\ \A i \in 1 .. Len(s) : s[i].kind \in Tokenless \/ \E j \in 1 .. i : s[j].kind = "LOGIN"
        /\ entry[k] # 0 => \E i \in 1 .. Len(s) : s[i].kind = "LOGIN"
    BY <1>2 DEF Unlogged, At1
  <1>4. /\ n \in {0, 1} /\ Len(s) \in Nat /\ Len(t) \in Nat
        /\ \A i \in 1 .. Len(t) : i > Len(s) - n => t[i] \in new
        /\ \A i \in 1 .. Len(t) : i <= Len(s) - n => i + n \in 1 .. Len(s) /\ t[i] = s[i + n]
        /\ \A i \in 1 .. Len(s) : \/ n = 1 /\ i = 1
                                  \/ i - n \in 1 .. Len(t) /\ i - n <= Len(s) - n /\ t[i - n] = s[i]
    BY OnwardFacts
  <1>5. n = 1 => s[1].kind # "LOGIN"
    BY <1>2
  <1> HIDE DEF s, t
  <1>6. ASSUME NEW i \in 1 .. Len(s), s[i].kind = "LOGIN"
        PROVE  i - n \in 1 .. Len(t) /\ i - n <= Len(s) - n /\ t[i - n].kind = "LOGIN"
    BY <1>4, <1>5, <1>6
  <1>7. entry[k] # 0 => \E i \in 1 .. Len(t) : t[i].kind = "LOGIN" /\ i <= Len(s) - n
    BY <1>3, <1>6
  <1>8. ASSUME NEW i \in 1 .. Len(t)
        PROVE  t[i].kind \in Tokenless \/ \E j \in 1 .. i : t[j].kind = "LOGIN"
    <2>1. CASE i > Len(s) - n
      <3>1. t[i].kind \in Tokenless \/ entry[k] # 0
        BY <1>2, <1>4, <2>1
      <3>2. ASSUME entry[k] # 0 PROVE \E j \in 1 .. i : t[j].kind = "LOGIN"
        <4>1. PICK j \in 1 .. Len(t) : t[j].kind = "LOGIN" /\ j <= Len(s) - n
          BY <1>7, <3>2
        <4>2. j \in 1 .. i
          BY <1>4, <2>1, <4>1
        <4>3. QED
          BY <4>1, <4>2
      <3>3. QED
        BY <3>1, <3>2
    <2>2. CASE i <= Len(s) - n
      <3>1. i + n \in 1 .. Len(s) /\ t[i] = s[i + n]
        BY <1>4, <2>2
      <3>2. CASE \E j \in 1 .. (i + n) : s[j].kind = "LOGIN"
        <4>1. PICK j \in 1 .. (i + n) : s[j].kind = "LOGIN"
          BY <3>2
        <4>2. j \in 1 .. Len(s)
          BY <3>1, <1>4
        <4>3. j - n \in 1 .. Len(t) /\ t[j - n].kind = "LOGIN"
          BY <1>6, <4>1, <4>2
        <4>4. j - n \in 1 .. i
          BY <1>4, <4>1, <4>3
        <4>5. QED
          BY <4>3, <4>4
      <3>3. QED
        BY <1>3, <3>1, <3>2
    <2>3. QED
      BY <1>4, <2>1, <2>2
  <1>9. QED
    BY <1>2, <1>3, <1>7, <1>8 DEF At1, t

\* What releases a frozen window is still on its way.
LEMMA FrozenStays ==
  ASSUME NEW k \in Clients, Frozen(k), down \in [Clients -> Seq(Letters)],
         down'[k] \in Seq(Letters), NEW n, NEW new, Onward(down[k], down'[k], n, new),
         n = 1 => down[k][1].kind \notin Releasing,
         server' \in {server, "fallen"}, Running(k)' => Running(k),
         gui'[k].frozen = gui[k].frozen, gui'[k].win = gui[k].win, swept[k] \subseteq swept'[k],
         gui'[k].timer = gui[k].timer, gui'[k].conn = gui[k].conn
  PROVE  Frozen(k)'
  <1> DEFINE s == down[k]
             t == down'[k]
  <1>1. \A i \in 1 .. Len(s) : \/ n = 1 /\ i = 1
                               \/ i - n \in 1 .. Len(t) /\ i - n <= Len(s) - n /\ t[i - n] = s[i]
    BY OnwardFacts
  <1>2. n = 1 => s[1].kind \notin Releasing
    OBVIOUS
  <1>3. server' = "up" => server = "up"
    OBVIOUS
  <1> HIDE DEF s, t
  <1>4. (\E i \in 1 .. Len(s) : s[i].kind \in Releasing) => \E i \in 1 .. Len(t) : t[i].kind \in Releasing
    BY <1>1, <1>2
  <1>5. QED
    BY <1>3, <1>4 DEF Frozen, At1, s, t

\* A request is made at a window that is not frozen, so that no other is.
LEMMA FrozenAsked ==
  ASSUME NEW k \in Clients, Frozen(k), server = "up", Running(k), gui[k].win \notin gui[k].frozen,
         swept[k] \subseteq swept'[k],
         \/ gui'[k].frozen \subseteq gui[k].frozen
         \/ /\ gui'[k].frozen \subseteq gui[k].frozen \cup {gui[k].win}
            /\ gui'[k].win = gui[k].win /\ gui[k].win # "Connect"
            /\ server' # "up" \/ \E i \in At1(k)' : down'[k][i].kind \in Releasing
  PROVE  Frozen(k)'
  <1>1. gui[k].frozen \ swept[k] = {}
    BY DEF Frozen
  <1>2. QED
    BY <1>1 DEF Frozen

\* The window that is shown is released.
LEMMA FrozenFreed ==
  ASSUME NEW k \in Clients, Frozen(k), server' \in {server, "fallen"}, Running(k)' => Running(k),
         gui'[k].frozen \ swept'[k] \subseteq (gui[k].frozen \ swept[k]) \ {gui[k].win}
  PROVE  Frozen(k)'
  <1>1. server' = "up" /\ Running(k)' => gui'[k].frozen \ swept'[k] = {}
    BY DEF Frozen
  <1>2. QED
    BY <1>1 DEF Frozen

\* The editor still names its file, and so will the one that is on its way.
LEMMA NamedStays ==
  ASSUME NEW k \in Clients, Named(k), down \in [Clients -> Seq(Letters)],
         down'[k] \in Seq(Letters), NEW n, NEW new, Onward(down[k], down'[k], n, new),
         \A m \in new : m.kind # "GET",
         past[k] \subseteq past'[k], Running(k)' => Running(k),
         gui'[k].fileId = gui[k].fileId,
         \/ gui'[k].win # "Editor"
         \/ gui'[k].win = gui[k].win /\ gui'[k].fileOpen = gui[k].fileOpen /\ gui'[k].shown = gui[k].shown
  PROVE  Named(k)'
  <1> DEFINE s == down[k]
             t == down'[k]
  <1>1. /\ n \in {0, 1} /\ Len(s) \in Nat /\ Len(t) \in Nat
        /\ \A i \in 1 .. Len(t) : i > Len(s) - n => t[i] \in new
        /\ \A i \in 1 .. Len(t) : i <= Len(s) - n => i + n \in 1 .. Len(s) /\ t[i] = s[i + n]
    BY OnwardFacts
  <1>2. /\ Running(k)' /\ gui'[k].win = "Editor" => gui'[k].fileOpen
        /\ "crossed" \notin past[k] => (Running(k)' /\ gui'[k].win = "Editor" => gui'[k].fileId = gui'[k].shown)
    BY DEF Named
  <1>3. ASSUME "crossed" \notin past[k], NEW i \in 1 .. Len(t), t[i].kind = "GET"
        PROVE  /\ t[i].file = gui[k].fileId
               /\ \A j \in 1 .. Len(t) : j < i => t[j].kind \notin Opening
    <2>1. \A j \in 1 .. Len(s) : s[j].kind = "GET" =>
             /\ s[j].file = gui[k].fileId
             /\ \A l \in 1 .. Len(s) : l < j => s[l].kind \notin Opening
      BY <1>3 DEF Named, At1
    <2> HIDE DEF s, t
    <2>2. i <= Len(s) - n
      BY <1>1, <1>3
    <2>3. i + n \in 1 .. Len(s) /\ t[i] = s[i + n]
      BY <1>1, <2>2
    <2>4. ASSUME NEW j \in 1 .. Len(t), j < i PROVE t[j].kind \notin Opening
      <3>1. j + n \in 1 .. Len(s) /\ t[j] = s[j + n] /\ j + n < i + n
        BY <1>1, <2>2, <2>4
      <3>2. QED
        BY <1>3, <2>1, <2>3, <3>1
    <2>5. QED
      BY <1>3, <2>1, <2>3, <2>4
  <1>4. QED
    BY <1>2, <1>3 DEF Named, At1

\* The file the server keeps open is still shown, or still on its way.
LEMMA CoveredStays ==
  ASSUME NEW k \in Clients, Covered(k), down \in [Clients -> Seq(Letters)],
         down'[k] \in Seq(Letters), NEW n, NEW new, Onward(down[k], down'[k], n, new),
         \A m \in new : m.kind \notin Covering,
         n = 1 => down[k][1].kind \notin Opening,
         Haunted => Haunted', past[k] \subseteq past'[k], Running(k)' => Running(k),
         open'[k] \in {open[k], NoFile},
         \/ gui'[k].win = gui[k].win /\ gui'[k].shown = gui[k].shown
         \/ gui[k].win # "Editor"
         \/ \E i \in At1(k) : down[k][i].kind \in Covering
  PROVE  Covered(k)'
  <1> DEFINE s == down[k]
             t == down'[k]
  <1>1. /\ n \in {0, 1} /\ Len(s) \in Nat /\ Len(t) \in Nat
        /\ \A i \in 1 .. Len(t) : i > Len(s) - n => t[i] \in new
        /\ \A i \in 1 .. Len(t) : i <= Len(s) - n => i + n \in 1 .. Len(s) /\ t[i] = s[i + n]
        /\ \A i \in 1 .. Len(s) : \/ n = 1 /\ i = 1
                                  \/ i - n \in 1 .. Len(t) /\ i - n <= Len(s) - n /\ t[i - n] = s[i]
    BY OnwardFacts
  <1>2. SUFFICES ASSUME ~ Haunted, Running(k), open[k] # NoFile, open'[k] = open[k],
                        past[k] \cap {"returned", "covered", "crossed"} = {}
                 PROVE  \/ /\ gui'[k].win = "Editor" /\ gui'[k].shown = open[k]
                           /\ \A i \in At1(k)' : t[i].kind \notin Covering
                        \/ \E i \in At1(k)' :
                             /\ t[i].kind \in Opening /\ t[i].file = open[k]
                             /\ \A j \in At1(k)' : j > i => t[j].kind \notin Covering
    BY DEF Covered
  <1>3. CASE /\ gui[k].win = "Editor" /\ gui[k].shown = open[k]
             /\ \A i \in 1 .. Len(s) : s[i].kind \notin Covering
    <2>1. gui'[k].win = "Editor" /\ gui'[k].shown = open[k]
      BY <1>3 DEF At1
    <2> HIDE DEF s, t
    <2>2. ASSUME NEW i \in 1 .. Len(t) PROVE t[i].kind \notin Covering
      <3>1. t[i] \in new \/ (i + n \in 1 .. Len(s) /\ t[i] = s[i + n])
        BY <1>1
      <3>2. QED
        BY <1>3, <3>1
    <2>3. QED
      BY <2>1, <2>2 DEF At1, t
  <1>4. CASE \E i \in 1 .. Len(s) :
               /\ s[i].kind \in Opening /\ s[i].file = open[k]
               /\ \A j \in 1 .. Len(s) : j > i => s[j].kind \notin Covering
    <2>1. PICK i \in 1 .. Len(s) :
            /\ s[i].kind \in Opening /\ s[i].file = open[k]
            /\ \A j \in 1 .. Len(s) : j > i => s[j].kind \notin Covering
      BY <1>4
    <2>2. ~ (n = 1 /\ i = 1)
      BY <2>1
    <2> HIDE DEF s, t
    <2>3. i - n \in 1 .. Len(t) /\ t[i - n] = s[i] /\ i - n <= Len(s) - n
      BY <1>1, <2>2
    <2>4. ASSUME NEW j \in 1 .. Len(t), j > i - n PROVE t[j].kind \notin Covering
      <3>1. CASE j > Len(s) - n
        BY <1>1, <3>1
      <3>2. CASE j <= Len(s) - n
        <4>1. j + n \in 1 .. Len(s) /\ t[j] = s[j + n] /\ j + n > i
          BY <1>1, <2>4, <3>2
        <4>2. QED
          BY <2>1, <4>1
      <3>3. QED
        BY <1>1, <3>1, <3>2
    <2>5. QED
      BY <2>1, <2>3, <2>4 DEF At1, t
  <1>5. QED
    BY <1>2, <1>3, <1>4 DEF Covered, At1

\* The icons asked for are still of users that are listed, but for those named
\* before another file was entered.
LEMMA JoiningStays ==
  ASSUME NEW k \in Clients, Joining(k), down \in [Clients -> Seq(Letters)],
         down'[k] \in Seq(Letters), NEW n, NEW new, Onward(down[k], down'[k], n, new),
         gui'[k].ended = gui[k].ended \/ gui'[k].ended # "icon",
         past[k] \subseteq past'[k], Haunted => Haunted', Running(k)' => Running(k),
         knows[k] \subseteq knows'[k] \/ "switched" \in past'[k], open'[k] \in {open[k], NoFile},
         \/ gui'[k].shown # NoFile
         \/ gui'[k].shown = gui[k].shown /\ (n = 1 => down[k][1].kind \notin Opening),
         \A m \in new : m.kind \notin Opening,
         \A m \in new : m.kind = "ICON" => "switched" \in past'[k],
         \A m \in new : m.kind = "JOINED" =>
           m.users \subseteq knows'[k] /\ (Haunted \/ (Running(k) /\ open[k] # NoFile))
  PROVE  Joining(k)'
  <1> DEFINE s == down[k]
             t == down'[k]
  <1>1. /\ n \in {0, 1} /\ Len(s) \in Nat /\ Len(t) \in Nat
        /\ \A i \in 1 .. Len(t) : i > Len(s) - n => t[i] \in new
        /\ \A i \in 1 .. Len(t) : i <= Len(s) - n => i + n \in 1 .. Len(s) /\ t[i] = s[i + n]
        /\ \A i \in 1 .. Len(s) : \/ n = 1 /\ i = 1
                                  \/ i - n \in 1 .. Len(t) /\ i - n <= Len(s) - n /\ t[i - n] = s[i]
    BY OnwardFacts
  <1>2. /\ gui[k].ended = "icon" => "switched" \in past[k]
        /\ \A i \in 1 .. Len(s) :
             /\ s[i].kind = "ICON" => "switched" \in past[k]
             /\ s[i].kind \in Opening \cup {"JOINED"} =>
                  s[i].users \subseteq knows[k] \/ "switched" \in past[k]
             /\ s[i].kind \in Opening => s[i].file \in Files
             /\ s[i].kind = "JOINED" =>
                  Haunted \/ gui[k].shown # NoFile \/ \E j \in 1 .. i : s[j].kind \in Opening
        /\ Haunted \/ (Running(k) /\ open[k] # NoFile =>
                         gui[k].shown # NoFile \/ \E i \in 1 .. Len(s) : s[i].kind \in Opening)
    BY DEF Joining, At1
  <1>3. gui'[k].ended = "icon" => "switched" \in past'[k]
    BY <1>2
  <1> HIDE DEF s, t
  <1>4. ASSUME gui'[k].shown = NoFile, NEW j \in 1 .. Len(s), s[j].kind \in Opening
        PROVE  j - n \in 1 .. Len(t) /\ j - n <= Len(s) - n /\ t[j - n].kind \in Opening
    <2>1. ~ (n = 1 /\ j = 1)
      BY <1>4 DEF s
    <2>2. QED
      BY <1>1, <1>4, <2>1
  <1>5. \/ Haunted'
        \/ Running(k)' /\ open'[k] # NoFile =>
             gui'[k].shown # NoFile \/ \E i \in 1 .. Len(t) : t[i].kind \in Opening
    BY <1>2, <1>4
  <1>6. ASSUME NEW i \in 1 .. Len(t)
        PROVE  /\ t[i].kind = "ICON" => "switched" \in past'[k]
               /\ t[i].kind \in Opening \cup {"JOINED"} =>
                    t[i].users \subseteq knows'[k] \/ "switched" \in past'[k]
               /\ t[i].kind \in Opening => t[i].file \in Files
               /\ t[i].kind = "JOINED" =>
                    Haunted' \/ gui'[k].shown # NoFile \/ \E j \in 1 .. i : t[j].kind \in Opening
    <2>1. CASE i > Len(s) - n
      <3>1. t[i] \in new
        BY <1>1, <2>1
      <3>2. ASSUME t[i].kind = "JOINED", ~ Haunted, gui'[k].shown = NoFile
            PROVE  \E j \in 1 .. i : t[j].kind \in Opening
        <4>1. PICK j \in 1 .. Len(s) : s[j].kind \in Opening
          BY <1>2, <3>1, <3>2
        <4>2. j - n \in 1 .. i /\ t[j - n].kind \in Opening
          BY <1>1, <1>4, <2>1, <3>2, <4>1
        <4>3. QED
          BY <4>2
      <3>3. QED
        BY <3>1, <3>2
    <2>2. CASE i <= Len(s) - n
      <3>1. i + n \in 1 .. Len(s) /\ t[i] = s[i + n]
        BY <1>1, <2>2
      <3>2. ASSUME t[i].kind = "JOINED", ~ Haunted, gui'[k].shown = NoFile
            PROVE  \E j \in 1 .. i : t[j].kind \in Opening
        <4>1. PICK j \in 1 .. (i + n) : s[j].kind \in Opening
          BY <1>2, <3>1, <3>2
        <4>2. j \in 1 .. Len(s)
          BY <1>1, <3>1, <4>1
        <4>3. j - n \in 1 .. Len(t) /\ t[j - n].kind \in Opening
          BY <1>4, <3>2, <4>1, <4>2
        <4>4. j - n \in 1 .. i
          BY <1>1, <4>1, <4>3
        <4>5. QED
          BY <4>3, <4>4
      <3>3. QED
        BY <1>2, <3>1, <3>2
    <2>3. QED
      BY <1>1, <2>1, <2>2
  <1>7. QED
    BY <1>3, <1>5, <1>6 DEF Joining, At1, t
-----------------------------------------------------------------------------
\* What a step of c does to the others: messages of three kinds at most. The notice
\* that a user has come goes to a client that has the file open and lists the user;
\* no file of a client without an entry is announced deleted.
Notices(k) == {m \in Letters :
  \/ m.kind \in {"FILE_DELETED", "STRANGER"}
  \/ /\ m.kind = "JOINED" /\ m.users \subseteq knows'[k]
     /\ Haunted \/ (Running(k) /\ open[k] # NoFile)}

Tidings(k) == {m \in Notices(k) : m.kind # "STRANGER"}
Greetings(k) == {m \in Notices(k) : m.kind # "FILE_DELETED"}

Aside(c) == \A k \in Clients \ {c} :
  /\ gui'[k] = gui[k] /\ entry'[k] = entry[k] /\ past'[k] = past[k] /\ swept'[k] = swept[k]
  /\ knows[k] \subseteq knows'[k] /\ open'[k] \in {open[k], NoFile}
  /\ \A f \in Files : k \in inFile'[f] => k \in inFile[f]
  /\ down'[k] = down[k] \/ (Running(k) /\ gui[k].conn = "made")
  /\ down'[k] = down[k] \/ entry[k] # 0 \/ Onward(down[k], down'[k], 0, Greetings(k))
  /\ down'[k] \in Seq(Letters) /\ Onward(down[k], down'[k], 0, Notices(k))
  /\ entry[k] # 0 => sessions'[entry[k]].active = sessions[entry[k]].active

\* A client that only notices of a step of another keeps its parts.
LEMMA AsideKeeps ==
  ASSUME NEW c \in Clients, NEW k \in Clients \ {c}, ClientParts(k), Aside(c),
         down \in [Clients -> Seq(Letters)], server' \in {server, "fallen"}, Haunted => Haunted'
  PROVE  ClientParts(k)'
  <1>1. \A m \in Notices(k) : m.kind \in {"FILE_DELETED", "STRANGER", "JOINED"}
    BY DEF Notices
  <1>2. \A m \in Notices(k) : m.kind \notin Covering \cup Opening \cup {"LOGIN", "GET", "ICON"}
    BY <1>1 DEF Covering, Opening
  <1>3. /\ gui'[k] = gui[k] /\ entry'[k] = entry[k] /\ past'[k] = past[k] /\ swept'[k] = swept[k]
        /\ open'[k] \in {open[k], NoFile} /\ (Running(k)' <=> Running(k))
        /\ knows[k] \subseteq knows'[k] /\ \A f \in Files : k \in inFile'[f] => k \in inFile[f]
        /\ down'[k] = down[k] \/ (Running(k) /\ gui[k].conn = "made")
        /\ down'[k] = down[k] \/ entry[k] # 0 \/ Onward(down[k], down'[k], 0, Greetings(k))
        /\ down'[k] \in Seq(Letters) /\ Onward(down[k], down'[k], 0, Notices(k))
        /\ entry[k] # 0 => sessions'[entry[k]].active = sessions[entry[k]].active
    BY DEF Aside, Running
  <1>4. Linked(k)'
    BY <1>3, LinkedStays DEF ClientParts
  <1>5. Entered(k)'
    <2>1. \A m \in Notices(k) : m.kind # "LOGIN" /\ (m.kind \in Opening => gui[k].token = entry[k])
      BY <1>2
    <2>2. 0 = 1 => down[k][1].kind # "LOGIN"
      OBVIOUS
    <2>3. QED
      BY <1>3, <2>1, <2>2, EnteredStays DEF ClientParts
  <1>6. Unlogged(k)'
    <2>1. CASE down'[k] = down[k]
      BY <1>3, <2>1 DEF ClientParts, Unlogged, At1
    <2>2. CASE entry[k] # 0
      <3>1. /\ 0 = 1 => down[k][1].kind # "LOGIN"
            /\ \A m \in Notices(k) : m.kind \in Tokenless \/ entry[k] # 0
        BY <2>2
      <3>2. QED
        BY <1>3, <3>1, UnloggedStays DEF ClientParts
    <2>3. CASE Onward(down[k], down'[k], 0, Greetings(k))
      <3>1. /\ 0 = 1 => down[k][1].kind # "LOGIN"
            /\ \A m \in Greetings(k) : m.kind \in Tokenless \/ entry[k] # 0
        BY <1>1 DEF Greetings, Tokenless, Unasked
      <3>2. QED
        BY <1>3, <2>3, <3>1, UnloggedStays DEF ClientParts
    <2>4. QED
      BY <1>3, <2>1, <2>2, <2>3
  <1>7. Frozen(k)'
    <2>1. 0 = 1 => down[k][1].kind \notin Releasing
      OBVIOUS
    <2>2. QED
      BY <1>3, <2>1, FrozenStays DEF ClientParts
  <1>8. Named(k)'
    <2>1. \A m \in Notices(k) : m.kind # "GET"
      BY <1>2
    <2>2. QED
      BY <1>3, <2>1, NamedStays DEF ClientParts
  <1>9. Covered(k)'
    <2>1. /\ \A m \in Notices(k) : m.kind \notin Covering
          /\ 0 = 1 => down[k][1].kind \notin Opening
      BY <1>2
    <2>2. QED
      BY <1>3, <2>1, CoveredStays DEF ClientParts
  <1>10. Joining(k)'
    <2>1. /\ \A m \in Notices(k) : m.kind \notin Opening
          /\ \A m \in Notices(k) : m.kind = "ICON" => "switched" \in past'[k]
          /\ \A m \in Notices(k) : m.kind = "JOINED" =>
               m.users \subseteq knows'[k] /\ (Haunted \/ (Running(k) /\ open[k] # NoFile))
          /\ 0 = 1 => down[k][1].kind \notin Opening
      BY <1>2 DEF Notices
    <2>2. QED
      BY <1>3, <2>1, JoiningStays DEF ClientParts
  <1>11. QED
    BY <1>4, <1>5, <1>6, <1>7, <1>8, <1>9, <1>10 DEF ClientParts
-----------------------------------------------------------------------------
\* A message of a kind that is not added was there before.
LEMMA OnwardOld ==
  ASSUME NEW s \in Seq(Letters), NEW t \in Seq(Letters), NEW n, NEW new, Onward(s, t, n, new)
  PROVE  \A i \in 1 .. Len(t) : t[i] \in new \/ \E j \in 1 .. Len(s) : s[j] = t[i]
  <1>1. /\ Len(s) \in Nat /\ Len(t) \in Nat /\ n \in {0, 1}
        /\ \A i \in 1 .. Len(t) : i > Len(s) - n => t[i] \in new
        /\ \A i \in 1 .. Len(t) : i <= Len(s) - n => i + n \in 1 .. Len(s) /\ t[i] = s[i + n]
    BY OnwardFacts
  <1>2. QED
    BY <1>1

\* A client comes to view only the files of answers it is sent.
LEMMA ViewedStays ==
  ASSUME NEW k \in Clients, down \in [Clients -> Seq(Letters)], down'[k] \in Seq(Letters),
         NEW n, NEW new, Onward(down[k], down'[k], n, new), \A m \in new : m.kind \notin Opening,
         \/ gui'[k].win # "Editor"
         \/ gui'[k].win = gui[k].win /\ gui'[k].shown = gui[k].shown
  PROVE  Viewed(k)' \subseteq Viewed(k)
  <1>1. \A i \in 1 .. Len(down'[k]) : down'[k][i] \in new \/ \E j \in 1 .. Len(down[k]) : down[k][j] = down'[k][i]
    BY OnwardOld
  <1>2. QED
    BY <1>1 DEF Viewed, At1

\* Nothing at the server, and of the clients only c, changes: who is a member of
\* what it views still is.
LEMMA MembersStay ==
  ASSUME MemberInv, Remembers, UNCHANGED <<born, rows, members, sessions>>,
         \A k \in Clients : Running(k)' =>
           /\ Running(k) /\ Viewed(k)' \subseteq Viewed(k)
           /\ gui'[k].token = gui[k].token \/ Viewed(k)' = {}
  PROVE  MemberInv'
  <1> SUFFICES ASSUME NEW k \in Clients, Running(k)', NEW f \in Viewed(k)'
               PROVE  /\ f \in born
                      /\ Valid(Holds(k))' /\ UserOf(k)' \in rows[f] =>
                           UserOf(k)' \in members[f] \/ Haunted' \/ "linked" \in past'[k]
    BY DEF MemberInv
  <1>1. Running(k) /\ f \in Viewed(k) /\ gui'[k].token = gui[k].token
    OBVIOUS
  <1>2. (Valid(Holds(k))' <=> Valid(Holds(k))) /\ UserOf(k)' = UserOf(k)
    BY <1>1 DEF Valid, Holds, UserOf
  <1>3. (Haunted => Haunted') /\ past[k] \subseteq past'[k]
    BY DEF Haunted, Remembers
  <1>4. QED
    BY <1>1, <1>2, <1>3 DEF MemberInv

\* Those who have a file open keep their places in it.
LEMMA SeatsStay ==
  ASSUME SeatInv, Haunted => Haunted', UNCHANGED <<entry, open, inFile, rows, members, knows, sessions>>
  PROVE  SeatInv'
  BY DEF SeatInv

\* No client ends, or will end, over a stranger that would not have before.
LEMMA StrangersStay ==
  ASSUME StrangerInv, Remembers,
         \A k \in Clients :
           gui'[k].ended = "stranger" \/ (\E i \in At1(k)' : down'[k][i].kind = "STRANGER") =>
             Excuse \/ gui[k].ended = "stranger" \/ \E i \in At1(k) : down[k][i].kind = "STRANGER"
  PROVE  StrangerInv'
  <1>1. Excuse => Excuse'
    BY DEF Excuse, Remembers
  <1>2. QED
    BY <1>1 DEF StrangerInv

\* The same for the others of a step of c that are sent no STRANGER.
Still(c) ==
  /\ Aside(c)
  /\ \A k \in Clients \ {c} : Onward(down[k], down'[k], 0, Tidings(k))

\* A client that only notices of a step of another shows no other file.
LEMMA AsideViews ==
  ASSUME ClientTyped, NEW c \in Clients, NEW k \in Clients \ {c}, Aside(c)
  PROVE  /\ Viewed(k)' \subseteq Viewed(k) /\ gui'[k].token = gui[k].token
         /\ (Running(k)' <=> Running(k)) /\ gui'[k].ended = gui[k].ended
         /\ Still(c) => ((\E i \in At1(k)' : down'[k][i].kind = "STRANGER") =>
                           \E i \in At1(k) : down[k][i].kind = "STRANGER")
  <1>1. \A m \in Notices(k) : m.kind \notin Opening
    BY DEF Notices, Opening
  <1>2. /\ gui'[k] = gui[k] /\ down'[k] \in Seq(Letters) /\ down[k] \in Seq(Letters)
        /\ Onward(down[k], down'[k], 0, Notices(k))
    BY DEF Aside, ClientTyped
  <1>3. Viewed(k)' \subseteq Viewed(k)
    BY <1>1, <1>2, ViewedStays DEF ClientTyped
  <1>4. ASSUME Still(c), NEW i \in 1 .. Len(down'[k]), down'[k][i].kind = "STRANGER"
        PROVE  \E j \in 1 .. Len(down[k]) : down[k][j].kind = "STRANGER"
    <2>1. Onward(down[k], down'[k], 0, Tidings(k))
      BY <1>4 DEF Still
    <2>2. down'[k][i] \notin Tidings(k)
      BY <1>4 DEF Tidings
    <2>3. \A l \in 1 .. Len(down'[k]) : down'[k][l] \in Tidings(k)
                                     \/ \E j \in 1 .. Len(down[k]) : down[k][j] = down'[k][l]
      BY <1>2, <2>1, OnwardOld
    <2>4. QED
      BY <1>4, <2>2, <2>3
  <1>5. QED
    BY <1>2, <1>3, <1>4 DEF Running, At1

\* A step of c that leaves the server's lists and tables alone.
LEMMA ServerStays ==
  ASSUME IInv, WInv, NEW c \in Clients, Still(c), Remembers, server' \in {server, "fallen"},
         UNCHANGED <<entry, open, inFile, rows, members, knows, sessions, born>>,
         swept' \in [Clients -> SUBSET Windows],
         ClientParts(c)',
         Running(c)' => /\ Running(c) /\ Viewed(c)' \subseteq Viewed(c)
                        /\ gui'[c].token = gui[c].token \/ Viewed(c)' = {},
         gui'[c].ended = "stranger" \/ (\E i \in At1(c)' : down'[c][i].kind = "STRANGER") =>
           Excuse \/ gui[c].ended = "stranger" \/ \E i \in At1(c) : down[c][i].kind = "STRANGER"
  PROVE  WInv'
  <1>1. /\ ClientTyped /\ Aside(c) /\ WindowsTyped /\ SeatInv /\ MemberInv /\ StrangerInv
        /\ \A k \in Clients : ClientParts(k)
    BY DEF IInv, WInv, Still
  <1>2. Haunted => Haunted'
    BY DEF Haunted, Remembers
  <1>3. \A k \in Clients \ {c} : ClientParts(k)'
    BY <1>1, <1>2, AsideKeeps DEF ClientTyped
  <1>4. WindowsTyped'
    BY <1>1 DEF WindowsTyped
  <1>5. SeatInv'
    BY <1>1, <1>2, SeatsStay
  <1>6. \A k \in Clients \ {c} :
          /\ Viewed(k)' \subseteq Viewed(k) /\ gui'[k].token = gui[k].token
          /\ (Running(k)' <=> Running(k)) /\ gui'[k].ended = gui[k].ended
          /\ (\E i \in At1(k)' : down'[k][i].kind = "STRANGER") => \E i \in At1(k) : down[k][i].kind = "STRANGER"
    BY <1>1, AsideViews
  <1>7. MemberInv'
    <2>1. \A k \in Clients : Running(k)' =>
            /\ Running(k) /\ Viewed(k)' \subseteq Viewed(k)
            /\ gui'[k].token = gui[k].token \/ Viewed(k)' = {}
      BY <1>6
    <2>2. QED
      BY <1>1, <2>1, MembersStay
  <1>8. StrangerInv'
    BY <1>1, <1>6, StrangersStay
  <1>9. QED
    BY <1>3, <1>4, <1>5, <1>7, <1>8 DEF WInv
-----------------------------------------------------------------------------
\* The client c becomes g and is sent messages of new; nothing happens to the others.
Asked(c, g, new) ==
  /\ gui'[c] = g /\ down'[c] \in Seq(Letters) /\ Onward(down[c], down'[c], 0, new)
  /\ \A k \in Clients \ {c} : gui'[k] = gui[k] /\ down'[k] = down[k]

Rest(c) == \A k \in Clients \ {c} :
  /\ entry'[k] = entry[k] /\ past'[k] = past[k] /\ swept'[k] = swept[k] /\ open'[k] = open[k]
  /\ knows[k] \subseteq knows'[k] /\ \A f \in Files : k \in inFile'[f] => k \in inFile[f]

\* A request that is answered at once with one message, or not at all.
LEMMA AskedOne ==
  ASSUME ClientTyped, NEW c \in Clients, NEW g, NEW m \in Letters,
         gui' = [gui EXCEPT ![c] = g], Delivers(c, <<m>>, {}, Fault)
  PROVE  Asked(c, g, {m}) /\ down'[c] = Append(down[c], m)
         /\ \E i \in 1 .. Len(down'[c]) : down'[c][i] = m /\ i = Len(down'[c])
  <1>1. gui'[c] = g /\ \A k \in Clients \ {c} : gui'[k] = gui[k]
    BY DEF ClientTyped
  <1>2. down'[c] = down[c] \o <<m>> /\ \A k \in Clients \ {c} : down'[k] = down[k]
    BY DEF Delivers
  <1>3. down[c] \in Seq(Letters)
    BY DEF ClientTyped
  <1>4. /\ down[c] \o <<m>> = Append(down[c], m)
        /\ Append(down[c], m) \in Seq(Letters) /\ Len(Append(down[c], m)) \in 1 .. Len(Append(down[c], m))
    BY <1>3
  <1>5. Onward(down[c], Append(down[c], m), 0, {m}) /\ Append(down[c], m)[Len(Append(down[c], m))] = m
    BY <1>3, Onwards
  <1>6. QED
    BY <1>1, <1>2, <1>4, <1>5 DEF Asked

\* A request that is not answered.
LEMMA AskedNone ==
  ASSUME ClientTyped, NEW c \in Clients, NEW g,
         gui' = [gui EXCEPT ![c] = g], Delivers(c, << >>, {}, Fault) \/ down' = down
  PROVE  Asked(c, g, {}) /\ down'[c] = down[c]
  <1>1. gui'[c] = g /\ \A k \in Clients \ {c} : gui'[k] = gui[k]
    BY DEF ClientTyped
  <1>2. down[c] \in Seq(Letters) /\ down[c] \o << >> = down[c]
    BY DEF ClientTyped
  <1>3. down'[c] = down[c] /\ \A k \in Clients \ {c} : down'[k] = down[k]
    BY <1>2 DEF Delivers
  <1>4. Onward(down[c], down[c], 0, {})
    BY <1>2 DEF Onward
  <1>5. QED
    BY <1>1, <1>2, <1>3, <1>4 DEF Asked

\* A request that is answered to the client alone leaves the others aside.
LEMMA AskedStill ==
  ASSUME ClientTyped, NEW c \in Clients, NEW g, NEW new, Asked(c, g, new), Rest(c),
         \A k \in Clients \ {c} : entry[k] # 0 => sessions'[entry[k]].active = sessions[entry[k]].active
  PROVE  Still(c)
  <1>1. ASSUME NEW k \in Clients \ {c}
        PROVE  /\ down'[k] \in Seq(Letters) /\ Onward(down[k], down'[k], 0, Notices(k))
               /\ Onward(down[k], down'[k], 0, Tidings(k))
    <2>1. down[k] \in Seq(Letters) /\ down'[k] = down[k]
      BY DEF ClientTyped, Asked
    <2>2. QED
      BY <2>1 DEF Onward
  <1>2. QED
    BY <1>1 DEF Still, Aside, Asked, Rest

\* What a request does to the client itself: its window may freeze, and the file it
\* names may be another.
Asker(c, g) ==
  /\ g.ended = gui[c].ended /\ g.conn = gui[c].conn /\ g.win = gui[c].win /\ g.token = gui[c].token
  /\ g.logged = gui[c].logged /\ g.fileOpen = gui[c].fileOpen /\ g.shown = gui[c].shown
  /\ g.timer = gui[c].timer /\ g.frozen \subseteq gui[c].frozen \cup {gui[c].win}

\* A window that asks is what it was, but for being frozen.
LEMMA Askers ==
  ASSUME ClientTyped, NEW c \in Clients, NEW g, g = gui[c] \/ g = Freeze(gui[c])
  PROVE  Asker(c, g) /\ g.fileId = gui[c].fileId /\ g \in Guis /\ (g = gui[c] => g.frozen = gui[c].frozen)
  <1>1. gui[c] \in Guis
    BY DEF ClientTyped
  <1>2. CASE g = gui[c]
    BY <1>1, <1>2 DEF Asker
  <1>3. CASE g = Freeze(gui[c])
    BY <1>1, <1>3 DEF Asker, Freeze, Guis
  <1>4. QED
    BY <1>2, <1>3

\* A request at a window that is not frozen: it stays what it was, or freezes until an
\* answer comes.
LEMMA RequestParts ==
  ASSUME ClientTyped, NEW c \in Clients, ClientParts(c), NEW g, NEW new, Asker(c, g),
         gui'[c] = g, down'[c] \in Seq(Letters), Onward(down[c], down'[c], 0, new),
         server = "up", server' \in {"up", "fallen"},
         Running(c), gui[c].conn = "made", gui[c].win # "Connect", gui[c].win \notin gui[c].frozen,
         \/ g.frozen = gui[c].frozen \/ server' # "up"
         \/ \E i \in At1(c)' : down'[c][i].kind \in Releasing,
         \A m \in new : m.kind # "LOGIN" /\ (m.kind \in Opening => gui[c].token = entry[c]),
         \A m \in new : gui[c].logged \/ m.kind = "ERROR",
         Named(c)' \/ (g.fileId = gui[c].fileId /\ \A m \in new : m.kind # "GET"),
         \/ Covered(c)'
         \/ (\A m \in new : m.kind \notin Covering) /\ open'[c] \in {open[c], NoFile} /\ (Haunted => Haunted'),
         \/ Joining(c)'
         \/ /\ knows[c] \subseteq knows'[c] /\ \A m \in new : m.kind \notin Opening \cup Unasked
            /\ open'[c] \in {open[c], NoFile} /\ (Haunted => Haunted'),
         past[c] \subseteq past'[c], swept'[c] = swept[c], entry'[c] = entry[c],
         entry[c] # 0 => sessions'[entry[c]].active = sessions[entry[c]].active
  PROVE  ClientParts(c)'
  <1>1. /\ g.ended = gui[c].ended /\ g.conn = gui[c].conn /\ g.win = gui[c].win /\ g.token = gui[c].token
        /\ g.logged = gui[c].logged /\ g.fileOpen = gui[c].fileOpen /\ g.shown = gui[c].shown
        /\ g.timer = gui[c].timer /\ g.frozen \subseteq gui[c].frozen \cup {gui[c].win}
    BY DEF Asker
  <1>2. /\ down \in [Clients -> Seq(Letters)] /\ down'[c] \in Seq(Letters)
        /\ Onward(down[c], down'[c], 0, new) /\ gui'[c] = g
    BY DEF ClientTyped
  <1>3. (Running(c)' <=> Running(c)) /\ server' \in {server, "fallen"}
    BY <1>1, <1>2 DEF Running
  <1>4. Linked(c) /\ Entered(c) /\ Unlogged(c) /\ Frozen(c) /\ Named(c) /\ Covered(c) /\ Joining(c)
    BY DEF ClientParts
  <1>5. /\ 0 = 1 => down[c][1].kind # "LOGIN"
        /\ 0 = 1 => down[c][1].kind \notin Opening
    OBVIOUS
  <1>6. Linked(c)'
    BY <1>1, <1>2, <1>3, <1>4, LinkedStays
  <1>7. Entered(c)'
    <2>1. \A m \in new : m.kind # "LOGIN" /\ (m.kind \in Opening => gui[c].token = entry[c])
      OBVIOUS
    <2>2. QED
      BY <1>1, <1>2, <1>3, <1>4, <1>5, <2>1, EnteredStays
  <1>8. Unlogged(c)'
    <2>1. \/ gui[c].logged
          \/ /\ gui'[c].win = gui[c].win \/ gui'[c].win \in {"Connect", "Login", "Registration"}
             /\ 0 = 1 => down[c][1].kind # "LOGIN"
             /\ \A m \in new : m.kind \in Tokenless \/ entry[c] # 0
      BY <1>1, <1>2, <1>5 DEF Tokenless
    <2>2. gui'[c].ended = gui[c].ended /\ gui'[c].logged = gui[c].logged
      BY <1>1, <1>2
    <2>3. QED
      BY <1>2, <1>4, <2>1, <2>2, UnloggedStays
  <1>9. Frozen(c)'
    <2>1. \/ gui'[c].frozen \subseteq gui[c].frozen
          \/ /\ gui'[c].frozen \subseteq gui[c].frozen \cup {gui[c].win}
             /\ gui'[c].win = gui[c].win /\ gui[c].win # "Connect"
             /\ server' # "up" \/ \E i \in At1(c)' : down'[c][i].kind \in Releasing
      BY <1>1, <1>2
    <2>2. QED
      BY <1>4, <2>1, FrozenAsked
  <1>10. Named(c)'
    <2>1. CASE g.fileId = gui[c].fileId /\ \A m \in new : m.kind # "GET"
      BY <1>1, <1>2, <1>3, <1>4, <2>1, NamedStays
    <2>2. QED
      BY <2>1
  <1>11. Covered(c)'
    <2>1. CASE (\A m \in new : m.kind \notin Covering) /\ open'[c] \in {open[c], NoFile} /\ (Haunted => Haunted')
      <3>1. gui'[c].win = gui[c].win /\ gui'[c].shown = gui[c].shown
        BY <1>1, <1>2
      <3>2. QED
        BY <1>2, <1>3, <1>4, <1>5, <2>1, <3>1, CoveredStays
    <2>2. QED
      BY <2>1
  <1>12. Joining(c)'
    <2>1. CASE /\ knows[c] \subseteq knows'[c] /\ \A m \in new : m.kind \notin Opening \cup Unasked
               /\ open'[c] \in {open[c], NoFile} /\ (Haunted => Haunted')
      <3>1. /\ \A m \in new : m.kind \notin Opening
            /\ \A m \in new : m.kind = "ICON" => "switched" \in past'[c]
            /\ \A m \in new : m.kind = "JOINED" =>
                 m.users \subseteq knows'[c] /\ (Haunted \/ (Running(c) /\ open[c] # NoFile))
        BY <2>1 DEF Unasked
      <3>2. gui'[c].ended = gui[c].ended /\ gui'[c].shown = gui[c].shown
        BY <1>1, <1>2
      <3>3. QED
        BY <1>2, <1>3, <1>4, <1>5, <2>1, <3>1, <3>2, JoiningStays
    <2>2. QED
      BY <2>1
  <1>13. QED
    BY <1>6, <1>7, <1>8, <1>9, <1>10, <1>11, <1>12 DEF ClientParts

\* A request that changes nothing at the server but, perhaps, brings it down.
LEMMA RequestKeeps ==
  ASSUME IInv, WInv, NEW c \in Clients, NEW g, NEW new, Asked(c, g, new), Rest(c), Remembers,
         server = "up", server' \in {"up", "fallen"},
         Running(c), gui[c].conn = "made", gui[c].win # "Connect", gui[c].win \notin gui[c].frozen,
         \/ g = gui[c]
         \/ /\ g = Freeze(gui[c])
            /\ server' # "up" \/ \E i \in At1(c)' : down'[c][i].kind \in Releasing,
         \A m \in new : m.kind \notin Opening \cup {"LOGIN"} \cup Unasked,
         \A m \in new : gui[c].logged \/ m.kind = "ERROR",
         Covered(c)' \/ \A m \in new : m.kind \notin Covering,
         UNCHANGED <<entry, open, inFile, rows, members, knows, sessions, born, swept>>
  PROVE  WInv'
  <1>1. ClientTyped /\ ClientParts(c)
    BY DEF IInv, WInv
  <1>2. Still(c)
    BY <1>1, AskedStill
  <1>3. Haunted => Haunted'
    BY DEF Haunted, Remembers
  <1>4. Asker(c, g) /\ g.fileId = gui[c].fileId /\ (g = gui[c] => g.frozen = gui[c].frozen)
    BY <1>1, Askers
  <1>5. ClientParts(c)'
    <2>1. \A m \in new : m.kind # "LOGIN" /\ (m.kind \in Opening => gui[c].token = entry[c])
      OBVIOUS
    <2>2. /\ past[c] \subseteq past'[c] /\ swept'[c] = swept[c] /\ entry'[c] = entry[c]
          /\ open'[c] \in {open[c], NoFile}
          /\ entry[c] # 0 => sessions'[entry[c]].active = sessions[entry[c]].active
      BY DEF Remembers
    <2>3. \A m \in new : m.kind # "GET"
      BY DEF Opening
    <2>4. \/ g.frozen = gui[c].frozen \/ server' # "up"
          \/ \E i \in At1(c)' : down'[c][i].kind \in Releasing
      BY <1>4
    <2>5. gui'[c] = g /\ down'[c] \in Seq(Letters) /\ Onward(down[c], down'[c], 0, new)
      BY DEF Asked
    <2>6. /\ knows[c] \subseteq knows'[c] /\ \A m \in new : m.kind \notin Opening \cup Unasked
          /\ open'[c] \in {open[c], NoFile}
      OBVIOUS
    <2>7. QED
      BY <1>1, <1>3, <1>4, <2>1, <2>2, <2>3, <2>4, <2>5, <2>6, RequestParts
  <1>6. gui'[c] = g /\ g.token = gui[c].token /\ g.ended = gui[c].ended
        /\ g.win = gui[c].win /\ g.shown = gui[c].shown
    BY <1>4 DEF Asked, Asker
  <1>7. down'[c] \in Seq(Letters) /\ down[c] \in Seq(Letters) /\ Onward(down[c], down'[c], 0, new)
        /\ down \in [Clients -> Seq(Letters)]
    BY <1>1 DEF Asked, ClientTyped
  <1>8. Viewed(c)' \subseteq Viewed(c)
    BY <1>6, <1>7, ViewedStays
  <1>9. ASSUME NEW i \in At1(c)', down'[c][i].kind = "STRANGER"
        PROVE  \E j \in At1(c) : down[c][j].kind = "STRANGER"
    <2>1. \A l \in 1 .. Len(down'[c]) : down'[c][l] \in new \/ \E j \in 1 .. Len(down[c]) : down[c][j] = down'[c][l]
      BY <1>7, OnwardOld
    <2>2. i \in 1 .. Len(down'[c]) /\ down'[c][i] \notin new
      BY <1>9 DEF At1, Unasked
    <2>3. QED
      BY <1>9, <2>1, <2>2 DEF At1
  <1>10. Running(c)' => Running(c) /\ Viewed(c)' \subseteq Viewed(c) /\ gui'[c].token = gui[c].token
    BY <1>6, <1>8
  <1>11. gui'[c].ended = "stranger" \/ (\E i \in At1(c)' : down'[c][i].kind = "STRANGER") =>
           Excuse \/ gui[c].ended = "stranger" \/ \E i \in At1(c) : down[c][i].kind = "STRANGER"
    BY <1>6, <1>9
  <1>12. swept' \in [Clients -> SUBSET Windows] /\ server' \in {server, "fallen"}
    BY DEF WInv, WindowsTyped
  <1>13. QED
    BY <1>2, <1>5, <1>10, <1>11, <1>12, ServerStays

\* Of what a user does at a window: where, and that it is not frozen.
LEMMA AtWhere ==
  ASSUME NEW c \in Clients, NEW w, At(c, w)
  PROVE  /\ server = "up" /\ Running(c) /\ gui[c].conn = "made" /\ gui[c].win = w
         /\ gui[c].win \notin gui[c].frozen
  BY DEF At

\* The kinds of messages that show no other window.
LEMMA PlainKinds ==
  ASSUME NEW kind \in {"ERROR", "DIALOG", "REFRESH", "ALL_DIRS", "DELETE_FILE"}
  PROVE  /\ Bare(kind).kind = kind /\ Bare(kind).kind \notin Covering \cup Unasked
         /\ Bare(kind) \in Letters /\ Fault = Bare("ERROR") /\ Fault.kind = "ERROR" /\ Fault \in Letters
         /\ Fault.kind \in Releasing /\ Fault.kind \notin Covering \cup Unasked
         /\ kind \in {"DIALOG", "DELETE_FILE"} => Bare(kind).kind \in Releasing
  <1>1. Bare(kind).kind = kind /\ Fault = Bare("ERROR") /\ Fault.kind = "ERROR"
    BY DEF Bare, Msg, Fault
  <1>2. Bare(kind) \in Letters /\ Fault \in Letters
    BY Plainness DEF Kinds, FileIds
  <1>3. QED
    BY <1>1, <1>2 DEF Covering, Opening, Releasing, Unasked

\* A request of a client that is answered with one plain message.
LEMMA InquiryViews ==
  ASSUME IInv, WInv, NEW c \in Clients, NEW w \in Windows \ {"Connect"}, At(c, w), Remembers, Rest(c),
         NEW kind \in {"ERROR", "DIALOG", "REFRESH", "ALL_DIRS"}, NEW B \in BOOLEAN,
         gui[c].logged \/ ~ B,
         NEW g, g = gui[c] \/ (g = Freeze(gui[c]) /\ (B => kind = "DIALOG")), gui' = [gui EXCEPT ![c] = g],
         Delivers(c, IF B THEN <<Bare(kind)>> ELSE <<Fault>>, {}, Fault),
         UNCHANGED <<entry, open, inFile, rows, members, knows, sessions, born, server, swept>>
  PROVE  WInv'
  <1>1. PICK m : m = IF B THEN Bare(kind) ELSE Fault
    OBVIOUS
  <1>2. /\ m \in Letters /\ m.kind \notin Covering \cup Unasked /\ (gui[c].logged \/ m.kind = "ERROR")
        /\ g # gui[c] => m.kind \in Releasing
    BY <1>1, PlainKinds
  <1>3. Delivers(c, <<m>>, {}, Fault)
    BY <1>1
  <1>4. ClientTyped
    BY DEF IInv
  <1>5. Asked(c, g, {m}) /\ \E i \in 1 .. Len(down'[c]) : down'[c][i] = m
    BY <1>2, <1>3, <1>4, AskedOne
  <1>6. \/ g = gui[c]
        \/ /\ g = Freeze(gui[c])
           /\ server' # "up" \/ \E i \in At1(c)' : down'[c][i].kind \in Releasing
    BY <1>2, <1>5 DEF At1
  <1>7. /\ \A x \in {m} : x.kind \notin Opening \cup {"LOGIN"} \cup Unasked
        /\ \A x \in {m} : gui[c].logged \/ x.kind = "ERROR"
        /\ \A x \in {m} : x.kind \notin Covering
    BY <1>2 DEF Covering
  <1>8. /\ server = "up" /\ Running(c) /\ gui[c].conn = "made" /\ gui[c].win # "Connect"
        /\ gui[c].win \notin gui[c].frozen /\ server' \in {"up", "fallen"}
    BY AtWhere
  <1>9. QED
    BY <1>5, <1>6, <1>7, <1>8, RequestKeeps

\* Nothing but the counter of acts and what the client shows: its history and the
\* tables of the server are left alone.
LEMMA LeavesServer ==
  ASSUME UNCHANGED <<manager, store, knows, server, history>>
  PROVE  UNCHANGED <<entry, open, inFile, rows, members, knows, sessions, born, server, swept, past>>
  BY DEF manager, store, history

\* The link and the details of a file are asked for.
LEMMA DialogViews ==
  ASSUME IInv, WInv, NEW c \in Clients, NEW w \in Windows \ {"Connect"}, LoggedAt(c, w),
         NEW action, NEW f, Dialog(c, action, f)
  PROVE  WInv'
  <1>1. /\ At(c, w) /\ gui[c].logged
        /\ gui' = [gui EXCEPT ![c] = Freeze(gui[c])]
        /\ Delivers(c, IF Reaches(c, f) THEN <<Bare("DIALOG")>> ELSE <<Fault>>, {}, Fault)
    BY DEF LoggedAt, Dialog, Asks
  <1>2. UNCHANGED <<entry, open, inFile, rows, members, knows, sessions, born, server, swept, past>>
    BY LeavesServer DEF Dialog
  <1>3. Remembers /\ Rest(c)
    BY <1>2, PastKept DEF IInv, Rest
  <1>4. Reaches(c, f) \in BOOLEAN
    BY DEF Reaches
  <1>5. QED
    BY <1>1, <1>2, <1>3, <1>4, InquiryViews

\* What is asked at the browser and the editor that changes no table.
LEMMA QuietViews ==
  ASSUME IInv, WInv, NEW c \in Clients,
         \/ Alter(c) \/ GetAllDirs(c) \/ EditorRename(c) \/ EditorInquiry(c)
         \/ \E f \in Files : BrowserInfo(c, f)
  PROVE  WInv'
  <1>1. {"Browser", "Editor"} \subseteq Windows \ {"Connect"}
    BY DEF Windows
  <1>2. CASE EditorInquiry(c) \/ \E f \in Files : BrowserInfo(c, f)
    BY <1>1, <1>2, DialogViews DEF EditorInquiry, BrowserInfo
  <1>3. ClientTyped
    BY DEF IInv
  <1>4. gui = [gui EXCEPT ![c] = gui[c]]
    BY <1>3 DEF ClientTyped
  <1>5. UNCHANGED <<entry, open, inFile, rows, members, knows, sessions, born, server, swept, past>> =>
          Remembers /\ Rest(c)
    BY <1>3, PastKept DEF Rest
  <1>6. CASE Alter(c)
    <2>1. PICK f : Delivers(c, IF Reaches(c, f) THEN <<Bare("REFRESH")>> ELSE <<Fault>>, {}, Fault)
      BY <1>6 DEF Alter
    <2>2. At(c, "Browser") /\ gui[c].logged /\ gui' = [gui EXCEPT ![c] = gui[c]]
      BY <1>4, <1>6 DEF Alter, LoggedAt
    <2>3. UNCHANGED <<entry, open, inFile, rows, members, knows, sessions, born, server, swept, past>>
      BY <1>6, LeavesServer DEF Alter
    <2>4. Reaches(c, f) \in BOOLEAN
      BY DEF Reaches
    <2>5. QED
      BY <1>1, <1>5, <2>1, <2>2, <2>3, <2>4, InquiryViews
  <1>7. CASE GetAllDirs(c)
    <2>1. /\ At(c, "Browser") /\ gui[c].logged /\ gui' = [gui EXCEPT ![c] = gui[c]]
          /\ Delivers(c, IF Valid(Holds(c)) THEN <<Bare("ALL_DIRS")>> ELSE <<Fault>>, {}, Fault)
      BY <1>7 DEF GetAllDirs, LoggedAt, Asks
    <2>2. UNCHANGED <<entry, open, inFile, rows, members, knows, sessions, born, server, swept, past>>
      BY <1>7, LeavesServer DEF GetAllDirs
    <2>3. Valid(Holds(c)) \in BOOLEAN
      BY Validity
    <2>4. QED
      BY <1>1, <1>5, <2>1, <2>2, <2>3, InquiryViews
  <1>8. CASE EditorRename(c)
    <2> DEFINE B == Reaches(c, gui[c].fileId)
    <2>1. /\ At(c, "Editor") /\ gui[c].logged /\ gui' = [gui EXCEPT ![c] = gui[c]]
          /\ Delivers(c, IF B THEN <<Bare("REFRESH")>> ELSE <<Fault>>, {}, Fault)
      BY <1>8 DEF EditorRename, LoggedAt, Asks
    <2>2. UNCHANGED <<entry, open, inFile, rows, members, knows, sessions, born, server, swept, past>>
      BY <1>8, LeavesServer DEF EditorRename
    <2>3. B \in BOOLEAN
      BY DEF Reaches
    <2> HIDE DEF B
    <2>4. QED
      BY <1>1, <1>5, <2>1, <2>2, <2>3, InquiryViews
  <1>9. QED
    BY <1>2, <1>6, <1>7, <1>8
-----------------------------------------------------------------------------
\* A process that has ended shows nothing, and is owed nothing.
LEMMA EndedParts ==
  ASSUME ClientTyped, NEW c \in Clients, NEW why \in Endings \ {"no"}, gui'[c] = Ended(why), down'[c] = << >>,
         why = "lost" => server' = "fallen" \/ "raced" \in past'[c],
         why = "notLogged" => "late" \in past'[c],
         why = "icon" => "switched" \in past'[c],
         entry'[c] # 0 => sessions'[entry'[c]].active
  PROVE  ClientParts(c)' /\ ~ Running(c)'
  <1>1. gui'[c].ended = why /\ gui'[c].conn = "none" /\ ~ gui'[c].timer /\ why # "no"
    BY DEF Ended, Started
  <1>2. ~ Running(c)'
    BY <1>1 DEF Running
  <1>3. \A i : i \notin At1(c)'
    BY DEF At1
  <1>4. QED
    BY <1>1, <1>2, <1>3 DEF ClientParts, Linked, Entered, Unlogged, Frozen, Named, Covered, Joining

\* The process of a client ends, for a cause that is remembered.
LEMMA EndsViews ==
  ASSUME IInv, WInv, NEW c \in Clients, NEW why \in Endings \ {"no"}, Ends(c, why),
         why = "lost" => server = "fallen" \/ "raced" \in past[c],
         why = "notLogged" => "late" \in past[c],
         why = "icon" => "switched" \in past[c],
         why = "stranger" => Excuse,
         UNCHANGED <<manager, store, knows, server>>,
         UNCHANGED history \/ (Remembers /\ Rest(c) /\ swept' \in [Clients -> SUBSET Windows])
  PROVE  WInv'
  <1>1. /\ ClientTyped /\ ClientParts(c)
        /\ UNCHANGED <<entry, open, inFile, rows, members, knows, sessions, born, server>>
    BY DEF IInv, WInv, manager, store
  <1>2. Remembers /\ Rest(c) /\ swept' \in [Clients -> SUBSET Windows]
    BY <1>1, PastKept DEF history, Rest, WInv, WindowsTyped
  <1>3. /\ gui'[c] = Ended(why) /\ down'[c] = << >>
        /\ \A k \in Clients \ {c} : gui'[k] = gui[k] /\ down'[k] = down[k]
    BY <1>1 DEF Ends, ClientTyped
  <1>4. ClientParts(c)' /\ ~ Running(c)'
    <2>1. entry'[c] # 0 => sessions'[entry'[c]].active
      BY <1>1 DEF ClientParts, Entered
    <2>2. past[c] \subseteq past'[c]
      BY <1>2 DEF Remembers
    <2>3. QED
      BY <1>1, <1>3, <2>1, <2>2, EndedParts
  <1>5. Still(c)
    <2>1. ASSUME NEW k \in Clients \ {c}
          PROVE  /\ down'[k] \in Seq(Letters) /\ Onward(down[k], down'[k], 0, Notices(k))
                 /\ Onward(down[k], down'[k], 0, Tidings(k))
      <3>1. down[k] \in Seq(Letters) /\ down'[k] = down[k]
        BY <1>1, <1>3 DEF ClientTyped
      <3>2. QED
        BY <3>1 DEF Onward
    <2>2. QED
      BY <1>1, <1>2, <1>3, <2>1 DEF Still, Aside, Rest
  <1>6. gui'[c].ended = "stranger" \/ (\E i \in At1(c)' : down'[c][i].kind = "STRANGER") =>
           Excuse \/ gui[c].ended = "stranger" \/ \E i \in At1(c) : down[c][i].kind = "STRANGER"
    <2>1. gui'[c].ended = why
      BY <1>3 DEF Ended, Started
    <2>2. \A i : i \notin At1(c)'
      BY <1>3 DEF At1
    <2>3. QED
      BY <2>1, <2>2
  <1>7. server' \in {server, "fallen"}
    BY <1>1
  <1>8. QED
    BY <1>1, <1>2, <1>4, <1>5, <1>6, <1>7, ServerStays

\* The ways in which a client ends.
LEMMA EndingViews ==
  ASSUME IInv, WInv, NEW c \in Clients,
         Quit(c) \/ ConnectionLost(c) \/ ActUnlogged(c) \/ ServerStranger(c) \/ ServerIcon(c)
  PROVE  WInv'
  <1>1. {"lost", "quit", "notLogged", "noFile", "stranger", "icon"} \subseteq Endings \ {"no"}
    BY DEF Endings
  <1>2. ClientParts(c) /\ ClientTyped
    BY DEF WInv, IInv
  <1>3. CASE Quit(c)
    BY <1>1, <1>3, EndsViews DEF Quit
  <1>4. CASE ConnectionLost(c)
    BY <1>1, <1>4, EndsViews DEF ConnectionLost
  <1>5. CASE ActUnlogged(c)
    <2>1. Running(c) /\ ~ gui[c].logged /\ gui[c].win \in {"Browser", "Edit", "Editor"}
      BY <1>5 DEF ActUnlogged, At
    <2>2. "late" \in past[c]
      BY <1>2, <2>1 DEF ClientParts, Unlogged
    <2>3. QED
      BY <1>1, <1>5, <2>2, EndsViews DEF ActUnlogged
  <1>6. CASE ServerStranger(c)
    <2>1. down[c] # << >> /\ Head(down[c]).kind = "STRANGER" /\ down[c] \in Seq(Letters)
      BY <1>2, <1>6 DEF ServerStranger, Arrives, ClientTyped
    <2>2. 1 \in At1(c) /\ down[c][1].kind = "STRANGER"
      BY <2>1 DEF At1
    <2>3. Excuse
      BY <2>2 DEF WInv, StrangerInv
    <2>4. QED
      BY <1>1, <1>6, <2>3, EndsViews DEF ServerStranger
  <1>7. CASE ServerIcon(c)
    <2>1. down[c] # << >> /\ Head(down[c]).kind = "ICON" /\ down[c] \in Seq(Letters)
      BY <1>2, <1>7 DEF ServerIcon, Arrives, ClientTyped
    <2>2. 1 \in At1(c) /\ down[c][1].kind = "ICON"
      BY <2>1 DEF At1
    <2>3. "switched" \in past[c]
      BY <1>2, <2>2 DEF ClientParts, Joining
    <2>4. QED
      BY <1>1, <1>7, <2>3, EndsViews DEF ServerIcon
  <1>8. QED
    BY <1>3, <1>4, <1>5, <1>6, <1>7

\* The browser shares the file it is told of, or ends without one.
LEMMA ShareViews ==
  ASSUME IInv, WInv, NEW c \in Clients, BrowserShare(c)
  PROVE  WInv'
  <1>1. "noFile" \in Endings \ {"no"} /\ "Browser" \in Windows \ {"Connect"}
    BY DEF Endings, Windows
  <1>2. CASE Dialog(c, "GET_LINK", gui[c].fileId)
    BY <1>1, <1>2, DialogViews DEF BrowserShare
  <1>3. CASE Ends(c, "noFile") /\ UNCHANGED <<manager, store, knows, server, history>>
    BY <1>1, <1>3, EndsViews
  <1>4. QED
    BY <1>2, <1>3 DEF BrowserShare
-----------------------------------------------------------------------------
\* A step of the windows of c alone.
LEMMA WindowViews ==
  ASSUME IInv, WInv, NEW c \in Clients, NEW g \in Guis, gui' = [gui EXCEPT ![c] = g], down' = down,
         Remembers, Rest(c), UNCHANGED <<manager, store, knows, server, swept>>,
         ClientParts(c)',
         g.ended # "stranger", g.ended = "no" => gui[c].ended = "no" /\ g.token = gui[c].token,
         g.win = "Editor" => gui[c].win = "Editor" /\ g.shown = gui[c].shown
  PROVE  WInv'
  <1>1. ClientTyped /\ UNCHANGED <<entry, open, inFile, rows, members, knows, sessions, born, server, swept>>
    BY DEF IInv, manager, store
  <1>2. Asked(c, g, {}) /\ gui'[c] = g /\ down'[c] = down[c]
    BY <1>1, AskedNone DEF ClientTyped
  <1>3. Still(c)
    BY <1>1, <1>2, AskedStill
  <1>4. Running(c)' => Running(c) /\ Viewed(c)' \subseteq Viewed(c) /\ gui'[c].token = gui[c].token
    BY <1>2 DEF Running, Viewed, At1
  <1>5. gui'[c].ended = "stranger" \/ (\E i \in At1(c)' : down'[c][i].kind = "STRANGER") =>
           Excuse \/ gui[c].ended = "stranger" \/ \E i \in At1(c) : down[c][i].kind = "STRANGER"
    BY <1>2 DEF At1
  <1>6. swept' \in [Clients -> SUBSET Windows] /\ server' \in {server, "fallen"}
    BY <1>1 DEF WInv, WindowsTyped
  <1>7. QED
    BY <1>1, <1>3, <1>4, <1>5, <1>6, ServerStays

\* A turn from a window that is not frozen to another.
LEMMA TurnViews ==
  ASSUME IInv, WInv, NEW c \in Clients, GoRegister(c) \/ Cancel(c) \/ EditAccount(c) \/ EditCancel(c)
  PROVE  WInv'
  <1>1. PICK from, to : /\ Turn(c, from, to)
                        /\ <<from, to>> \in {<<"Login", "Registration">>, <<"Registration", "Login">>,
                                             <<"Browser", "Edit">>, <<"Edit", "Browser">>}
    BY DEF GoRegister, Cancel, EditAccount, EditCancel
  <1>2. /\ to \in Windows /\ to # "Editor" /\ to # "Connect" /\ from # "Editor"
        /\ from \in {"Browser", "Edit"} \/ to \in {"Login", "Registration"}
    BY <1>1 DEF Windows
  <1>3. /\ ClientTyped /\ ClientParts(c) /\ gui[c] \in Guis /\ down[c] \in Seq(Letters)
        /\ UNCHANGED <<entry, open, inFile, rows, members, knows, sessions, born, server, swept, past, down>>
    BY <1>1, LeavesServer DEF IInv, WInv, ClientTyped, Turn
  <1>4. /\ server = "up" /\ Running(c) /\ gui[c].conn = "made" /\ gui[c].win = from
        /\ gui[c].win \notin gui[c].frozen
    BY <1>1 DEF Turn, At
  <1>5. PICK g : g = Show(gui[c], to)
    OBVIOUS
  <1>6. /\ g \in Guis /\ g.token = gui[c].token /\ g.ended = gui[c].ended /\ g.win = to
        /\ g.conn = gui[c].conn /\ g.frozen = gui[c].frozen /\ g.logged = gui[c].logged
        /\ g.fileId = gui[c].fileId /\ g.shown = gui[c].shown /\ g.timer = gui[c].timer
    BY <1>2, <1>3, <1>5 DEF Show, Guis
  <1>7. gui' = [gui EXCEPT ![c] = g] /\ gui'[c] = g
    BY <1>1, <1>3, <1>5 DEF Turn, ClientTyped
  <1>8. ClientParts(c)'
    <2>1. Linked(c)' /\ Entered(c)'
      BY <1>3, <1>6, <1>7 DEF ClientParts, Linked, Entered, Running, At1
    <2>2. Unlogged(c)'
      BY <1>2, <1>3, <1>4, <1>6, <1>7 DEF ClientParts, Unlogged, Running, At1
    <2>3. Frozen(c)'
      BY <1>3, <1>4, <1>6, <1>7, FrozenAsked DEF ClientParts
    <2>4. Named(c)'
      BY <1>2, <1>3, <1>4, <1>6, <1>7 DEF ClientParts, Named, Running, At1
    <2>5. Covered(c)'
      BY <1>2, <1>3, <1>4, <1>6, <1>7 DEF ClientParts, Covered, Haunted, Running, At1
    <2>6. Joining(c)'
      BY <1>3, <1>6, <1>7 DEF ClientParts, Joining, Haunted, Running, At1
    <2>7. QED
      BY <2>1, <2>2, <2>3, <2>4, <2>5, <2>6 DEF ClientParts
  <1>9. Remembers /\ Rest(c)
    BY <1>3, PastKept DEF Rest
  <1>10. g.ended # "stranger"
    BY <1>4, <1>6 DEF Running
  <1>11. QED
    BY <1>1, <1>2, <1>3, <1>4, <1>6, <1>7, <1>8, <1>9, <1>10, WindowViews DEF Turn

\* A client that is not connected yet has no entry, and nothing on the way to it.
LEMMA Unconnected ==
  ASSUME IInv, WInv, NEW c \in Clients, Running(c), gui[c].conn # "made",
         NEW g \in Guis, gui' = [gui EXCEPT ![c] = g], down' = down,
         UNCHANGED <<manager, store, knows, server, swept>>,
         Remembers, Rest(c),
         g.logged = gui[c].logged, g.token = gui[c].token, g.shown = gui[c].shown,
         \/ g.win = gui[c].win /\ g.fileOpen = gui[c].fileOpen /\ g.fileId = gui[c].fileId
         \/ g.win \in {"Connect", "Login"},
         g.ended = "no", g.conn = "aborted" => "raced" \in past'[c],
         g.timer => g.conn \in {"opening", "open"},
         Frozen(c)'
  PROVE  WInv'
  <1>1. /\ ClientTyped /\ ClientParts(c) /\ past[c] \subseteq past'[c]
        /\ UNCHANGED <<entry, open, inFile, sessions, server>>
    BY DEF IInv, WInv, manager, store, Remembers
  <1>2. gui'[c] = g /\ down'[c] = << >> /\ down[c] = << >> /\ entry'[c] = 0
    BY <1>1 DEF ClientTyped, ClientParts, Linked
  <1>3. \A i : i \notin At1(c)' /\ i \notin At1(c)
    BY <1>2 DEF At1
  <1>4. Linked(c)' /\ Entered(c)'
    BY <1>1, <1>2, <1>3 DEF ClientParts, Linked, Entered, Running
  <1>5. Unlogged(c)'
    BY <1>1, <1>2, <1>3 DEF ClientParts, Unlogged
  <1>6. Named(c)'
    BY <1>1, <1>2, <1>3 DEF ClientParts, Named
  <1>7. Covered(c)' /\ Joining(c)'
    <2>1. Haunted \/ open[c] = NoFile
      <3>1. open[c] \in Files \/ open[c] = NoFile
        BY DEF IInv, ServerTyped, FileIds
      <3>2. entry[c] = 0
        BY DEF WInv, ClientParts, Linked
      <3>3. QED
        BY <3>1, <3>2 DEF WInv, SeatInv
    <2>2. Haunted => Haunted'
      BY DEF Haunted, Remembers
    <2>3. QED
      BY <1>1, <1>2, <1>3, <2>1, <2>2 DEF Covered, Joining
  <1>8. ClientParts(c)'
    BY <1>4, <1>5, <1>6, <1>7 DEF ClientParts
  <1>9. /\ g.ended # "stranger"
        /\ g.ended = "no" => gui[c].ended = "no" /\ g.token = gui[c].token
        /\ g.win = "Editor" => gui[c].win = "Editor" /\ g.shown = gui[c].shown
    BY DEF Running
  <1>10. QED
    BY <1>8, <1>9, WindowViews

\* The connection.
LEMMA ConnectionViews ==
  ASSUME IInv, WInv, NEW c \in Clients,
         Connect(c) \/ SocketConnected(c) \/ Connected(c) \/ CheckConnection(c)
  PROVE  WInv'
  <1>1. /\ ClientTyped /\ ClientParts(c) /\ gui[c] \in Guis /\ Running(c)
        /\ gui[c].ended = "no"
    BY DEF IInv, WInv, ClientTyped, Connect, SocketConnected, Connected, CheckConnection, Running
  <1>2. UNCHANGED <<manager, knows, history>> => Remembers /\ Rest(c) /\ UNCHANGED <<swept, past>>
    BY <1>1, PastKept DEF manager, history, Rest, IInv, WInv, WindowsTyped
  <1>3. UNCHANGED manager => entry' = entry /\ open' = open /\ inFile' = inFile
    BY DEF manager
  <1>4. CASE Connect(c)
    <2>1. PICK g : g = [Freeze(gui[c]) EXCEPT !.conn = "opening", !.timer = TRUE]
      OBVIOUS
    <2>2. PICK h : h = Freeze(gui[c])
      OBVIOUS
    <2>3. /\ h \in Guis /\ h.frozen = gui[c].frozen \cup {gui[c].win} /\ h.win = gui[c].win
          /\ h.ended = "no" /\ h.logged = gui[c].logged /\ h.token = gui[c].token
          /\ h.shown = gui[c].shown /\ h.fileOpen = gui[c].fileOpen /\ h.fileId = gui[c].fileId
      BY <1>1, <2>2 DEF Freeze, Guis
    <2>4. g = [h EXCEPT !.conn = "opening", !.timer = TRUE]
      BY <2>1, <2>2
    <2>5. /\ g \in Guis /\ g.frozen = h.frozen /\ g.win = h.win /\ g.conn = "opening" /\ g.timer
          /\ g.ended = "no" /\ g.logged = h.logged /\ g.token = h.token
          /\ g.shown = h.shown /\ g.fileOpen = h.fileOpen /\ g.fileId = h.fileId
      BY <2>3, <2>4 DEF Guis, Links
    <2>6. /\ gui' = [gui EXCEPT ![c] = g] /\ down' = down /\ gui[c].conn # "made"
          /\ UNCHANGED <<manager, store, knows, server, history>>
          /\ gui[c].win = "Connect" /\ "Connect" \notin gui[c].frozen
      BY <1>4, <2>1 DEF Connect
    <2>7. Frozen(c)'
      <3>1. gui'[c] = g /\ swept' = swept /\ server' = server
        BY <1>1, <1>2, <2>6 DEF ClientTyped
      <3>2. server = "up" => gui[c].frozen \ swept[c] = {}
        BY <1>1, <2>6 DEF ClientParts, Frozen
      <3>3. QED
        BY <2>3, <2>5, <2>6, <3>1, <3>2 DEF Frozen
    <2>8. QED
      BY <1>1, <1>2, <1>3, <2>3, <2>5, <2>6, <2>7, Unconnected
  <1>5. CASE SocketConnected(c)
    <2>1. PICK g : g = [gui[c] EXCEPT !.conn = "open"]
      OBVIOUS
    <2>2. /\ gui' = [gui EXCEPT ![c] = g] /\ down' = down /\ gui[c].conn = "opening"
          /\ UNCHANGED <<manager, store, knows, server, history>>
      BY <1>5, <2>1 DEF SocketConnected
    <2>3. /\ g \in Guis /\ g.frozen = gui[c].frozen /\ g.win = gui[c].win /\ g.conn = "open"
          /\ g.ended = "no" /\ g.logged = gui[c].logged /\ g.token = gui[c].token
          /\ g.shown = gui[c].shown /\ g.fileOpen = gui[c].fileOpen /\ g.fileId = gui[c].fileId
          /\ g.timer = gui[c].timer
      BY <1>1, <2>1 DEF Guis, Links
    <2>4. Frozen(c)'
      <3>1. gui'[c] = g /\ swept' = swept /\ server' = server
        BY <1>1, <1>2, <2>2 DEF ClientTyped
      <3>2. QED
        BY <1>1, <2>2, <2>3, <3>1 DEF ClientParts, Frozen, At1
    <2>5. QED
      BY <1>1, <1>2, <1>3, <2>2, <2>3, <2>4, Unconnected
  <1>6. CASE Connected(c)
    <2>1. UNCHANGED <<down, manager, store, knows, server, acts, conforms, history>>
      BY <1>6 DEF Connected
    <2>2. CASE gui[c].conn = "open"
      <3>1. PICK h : h = Show(Unfreeze(gui[c]), "Login")
        OBVIOUS
      <3>2. PICK g : g = [h EXCEPT !.conn = "made", !.timer = FALSE]
        OBVIOUS
      <3>3. PICK u : u = Unfreeze(gui[c])
        OBVIOUS
      <3>4. /\ u \in Guis /\ u.frozen = gui[c].frozen \ {gui[c].win} /\ u.ended = "no"
            /\ u.logged = gui[c].logged /\ u.token = gui[c].token /\ u.shown = gui[c].shown
        BY <1>1, <3>3 DEF Unfreeze, Guis
      <3>5. /\ h \in Guis /\ h.frozen = u.frozen /\ h.ended = "no" /\ h.win = "Login"
            /\ h.logged = u.logged /\ h.token = u.token /\ h.shown = u.shown
        BY <3>1, <3>3, <3>4 DEF Show, Guis, Windows
      <3>6. /\ g \in Guis /\ g.frozen = h.frozen /\ g.ended = "no" /\ g.win = "Login"
            /\ g.logged = h.logged /\ g.token = h.token /\ g.shown = h.shown
            /\ g.conn = "made" /\ ~ g.timer
        BY <3>2, <3>5 DEF Guis, Links
      <3>7. gui' = [gui EXCEPT ![c] = g] /\ gui'[c] = g
        BY <1>1, <1>6, <2>2, <3>1, <3>2 DEF Connected, ClientTyped
      <3>8. Frozen(c)'
        <4>1. gui'[c].frozen \ swept'[c] \subseteq (gui[c].frozen \ swept[c]) \ {gui[c].win}
          BY <1>2, <2>1, <3>4, <3>5, <3>6, <3>7
        <4>2. QED
          BY <1>1, <2>1, <3>6, <3>7, <4>1, FrozenFreed DEF ClientParts, Running
      <3>9. QED
        BY <1>1, <1>2, <1>3, <2>1, <2>2, <3>4, <3>5, <3>6, <3>7, <3>8, Unconnected
    <2>3. CASE gui[c].conn # "open"
      <3>1. Ends(c, "lost")
        <4>1. gui' = [gui EXCEPT ![c] = Ended("lost")]
          BY <1>6, <2>3 DEF Connected
        <4>2. down[c] = << >> /\ down' = down
          BY <1>1, <1>6, <2>1, <2>3 DEF Connected, ClientParts, Linked
        <4>3. QED
          BY <1>1, <4>1, <4>2 DEF Ends, ClientTyped
      <3>2. "raced" \in past[c] /\ "lost" \in Endings \ {"no"}
        BY <1>1, <1>6, <2>3 DEF Connected, ClientParts, Linked, Endings
      <3>3. QED
        BY <2>1, <3>1, <3>2, EndsViews
    <2>4. QED
      BY <2>2, <2>3
  <1>7. CASE CheckConnection(c)
    <2>1. PICK h : h = Show(Unfreeze(gui[c]), "Connect")
      OBVIOUS
    <2>2. PICK g : g = [h EXCEPT !.timer = FALSE, !.conn = IF gui[c].conn = "open" THEN "aborted" ELSE "none"]
      OBVIOUS
    <2>3. PICK u : u = Unfreeze(gui[c])
      OBVIOUS
    <2>4. /\ u \in Guis /\ u.frozen = gui[c].frozen \ {gui[c].win} /\ u.ended = "no"
          /\ u.logged = gui[c].logged /\ u.token = gui[c].token /\ u.shown = gui[c].shown
      BY <1>1, <2>3 DEF Unfreeze, Guis
    <2>5. /\ h \in Guis /\ h.frozen = u.frozen /\ h.ended = "no" /\ h.win = "Connect"
          /\ h.logged = u.logged /\ h.token = u.token /\ h.shown = u.shown
      BY <2>1, <2>3, <2>4 DEF Show, Guis, Windows
    <2>6. /\ g \in Guis /\ g.frozen = h.frozen /\ g.ended = "no" /\ g.win = "Connect"
          /\ g.logged = h.logged /\ g.token = h.token /\ g.shown = h.shown /\ ~ g.timer
          /\ g.conn = IF gui[c].conn = "open" THEN "aborted" ELSE "none"
      BY <2>2, <2>5 DEF Guis, Links
    <2>7. /\ gui' = [gui EXCEPT ![c] = g] /\ gui'[c] = g /\ down' = down
          /\ UNCHANGED <<manager, store, knows, server, swept>>
          /\ past' = [past EXCEPT ![c] = IF gui[c].conn = "open" THEN @ \cup {"raced"} ELSE @]
          /\ gui[c].timer
      BY <1>1, <1>7, <2>1, <2>2 DEF CheckConnection, ClientTyped
    <2>8. Remembers /\ Rest(c) /\ (g.conn = "aborted" => "raced" \in past'[c])
      <3>1. "raced" \in Causes
        BY DEF Causes
      <3>2. past' = past \/ past' = [past EXCEPT ![c] = @ \cup {"raced"}]
        BY <1>1, <2>7 DEF ClientTyped
      <3>3. Remembers
        BY <1>1, <3>1, <3>2, PastKept
      <3>4. QED
        BY <1>1, <1>3, <2>6, <2>7, <3>3 DEF ClientTyped, Rest
    <2>9. gui[c].conn # "made"
      BY <1>1, <2>7 DEF ClientParts, Linked
    <2>10. Frozen(c)'
      <3>1. gui'[c].frozen \ swept'[c] \subseteq (gui[c].frozen \ swept[c]) \ {gui[c].win}
        BY <2>4, <2>5, <2>6, <2>7
      <3>2. QED
        BY <1>1, <2>6, <2>7, <3>1, FrozenFreed DEF ClientParts, Running
    <2>11. QED
      BY <1>1, <2>4, <2>5, <2>6, <2>7, <2>8, <2>9, <2>10, Unconnected
  <1>8. QED
    BY <1>4, <1>5, <1>6, <1>7
-----------------------------------------------------------------------------
\* The client c becomes g but for its listing; the first of its messages is taken
\* and messages of new are added.
Takes(c, g, new) ==
  /\ \A k \in Clients \ {c} : gui'[k] = gui[k] /\ down'[k] = down[k]
  /\ down'[c] \in Seq(Letters) /\ Onward(down[c], down'[c], 1, new)
  /\ gui'[c].ended = g.ended /\ gui'[c].conn = g.conn /\ gui'[c].timer = g.timer /\ gui'[c].win = g.win
  /\ gui'[c].frozen = g.frozen /\ gui'[c].logged = g.logged /\ gui'[c].token = g.token
  /\ gui'[c].fileOpen = g.fileOpen /\ gui'[c].fileId = g.fileId /\ gui'[c].shown = g.shown

\* What a slot does that takes a message: Becomes, in terms of Takes.
LEMMA BecomesTakes ==
  ASSUME ClientTyped, NEW c \in Clients, down[c] # << >>, NEW g \in Guis,
         NEW needsToken \in BOOLEAN, NEW refreshes \in BOOLEAN,
         Becomes(c, g, needsToken, refreshes), ~ (needsToken /\ ~ g.logged)
  PROVE  Takes(c, g, {Fault})
  <1>1. PICK h : h = IF refreshes THEN Refresh(g) ELSE g
    OBVIOUS
  <1>2. PICK r : r = IF refreshes THEN Refused(g) ELSE << >>
    OBVIOUS
  <1>3. down[c] \in Seq(Letters) /\ Fault \in Letters
    BY PlainKinds DEF ClientTyped
  <1>4. gui' = [gui EXCEPT ![c] = h] /\ down' = [down EXCEPT ![c] = Tail(down[c]) \o r]
    BY <1>1, <1>2 DEF Becomes, ClientTyped
  <1>5. /\ gui'[c] = h /\ down'[c] = Tail(down[c]) \o r
        /\ \A k \in Clients \ {c} : gui'[k] = gui[k] /\ down'[k] = down[k]
    BY <1>4 DEF ClientTyped
  <1>6. r = << >> \/ r = <<Fault, Fault>>
    BY <1>2 DEF Refused
  <1>7. down'[c] \in Seq(Letters) /\ Onward(down[c], down'[c], 1, {Fault})
    <2>1. CASE r = << >>
      <3>1. Onward(down[c], Tail(down[c]) \o << >>, 1, {}) /\ Tail(down[c]) \o << >> \in Seq(Letters)
        BY <1>3, OnwardTail
      <3>2. Onward(down[c], down'[c], 1, {}) /\ down'[c] \in Seq(Letters)
        BY <1>5, <2>1, <3>1
      <3>3. QED
        BY <3>2 DEF Onward
    <2>2. CASE r = <<Fault, Fault>>
      <3>1. Onward(down[c], Tail(down[c]) \o <<Fault, Fault>>, 1, {Fault}) /\ Tail(down[c]) \o <<Fault, Fault>> \in Seq(Letters)
        BY <1>3, OnwardTail
      <3>2. QED
        BY <1>5, <2>2, <3>1
    <2>3. QED
      BY <1>6, <2>1, <2>2
  <1>8. /\ h.ended = g.ended /\ h.conn = g.conn /\ h.timer = g.timer /\ h.win = g.win
        /\ h.frozen = g.frozen /\ h.logged = g.logged /\ h.token = g.token
        /\ h.fileOpen = g.fileOpen /\ h.fileId = g.fileId /\ h.shown = g.shown
    BY <1>1 DEF Refresh, Guis
  <1>9. QED
    BY <1>5, <1>7, <1>8 DEF Takes

\* The same for a slot that shows a file, and asks for icons.
LEMMA DisplaysTakes ==
  ASSUME ClientTyped, NEW c \in Clients, down[c] # << >>, NEW g \in Guis,
         NEW refreshes \in BOOLEAN, Displays(c, g, refreshes), g.logged
  PROVE  /\ Takes(c, g, {Fault, Bare("ICON")})
         /\ Head(down[c]).users \subseteq knows[c] => Takes(c, g, {Fault})
  <1>1. PICK h : h = IF refreshes THEN Refresh(g) ELSE g
    OBVIOUS
  <1>2. PICK r : r = IF refreshes THEN Refused(g) ELSE << >>
    OBVIOUS
  <1>3. PICK s : s = down[c]
    OBVIOUS
  <1>4. s \in Seq(Letters) /\ s # << >> /\ Fault \in Letters /\ Bare("ICON") \in Letters
    BY <1>3, Plainness DEF ClientTyped, Kinds, FileIds
  <1>5. /\ gui' = [gui EXCEPT ![c] = h]
        /\ down' = [down EXCEPT ![c] = Tail(down[c]) \o r \o Icons(c)]
    BY <1>1, <1>2 DEF Displays, ClientTyped
  <1>6. /\ gui'[c] = h /\ down'[c] = (Tail(s) \o r) \o Icons(c)
        /\ \A k \in Clients \ {c} : gui'[k] = gui[k] /\ down'[k] = down[k]
    BY <1>3, <1>5 DEF ClientTyped
  <1>7. r = << >> \/ r = <<Fault, Fault>>
    BY <1>2 DEF Refused
  <1>8. PICK q : q = Tail(s) \o r
    OBVIOUS
  <1>9. q \in Seq(Letters) /\ Onward(s, q, 1, {Fault})
    <2>1. CASE r = << >>
      <3>1. Onward(s, Tail(s) \o << >>, 1, {}) /\ Tail(s) \o << >> \in Seq(Letters)
        BY <1>4, OnwardTail
      <3>2. Onward(s, q, 1, {}) /\ q \in Seq(Letters)
        BY <1>8, <2>1, <3>1
      <3>3. QED
        BY <3>2 DEF Onward
    <2>2. CASE r = <<Fault, Fault>>
      <3>1. Onward(s, Tail(s) \o <<Fault, Fault>>, 1, {Fault}) /\ Tail(s) \o <<Fault, Fault>> \in Seq(Letters)
        BY <1>4, OnwardTail
      <3>2. QED
        BY <1>8, <2>2, <3>1
    <2>3. QED
      BY <1>7, <2>1, <2>2
  <1>10. CASE Icons(c) = << >>
    <2>1. q \o << >> = q
      BY <1>9
    <2>2. down'[c] = q
      BY <1>6, <1>8, <1>10, <2>1
    <2>3. Onward(s, q, 1, {Fault, Bare("ICON")})
      BY <1>9 DEF Onward
    <2>4. /\ h.ended = g.ended /\ h.conn = g.conn /\ h.timer = g.timer /\ h.win = g.win
          /\ h.frozen = g.frozen /\ h.logged = g.logged /\ h.token = g.token
          /\ h.fileOpen = g.fileOpen /\ h.fileId = g.fileId /\ h.shown = g.shown
      BY <1>1 DEF Refresh, Guis
    <2>5. QED
      BY <1>3, <1>6, <1>9, <2>2, <2>3, <2>4 DEF Takes
  <1>11. CASE Icons(c) # << >>
    <2>1. Icons(c) = <<Bare("ICON")>> /\ ~ (Head(down[c]).users \subseteq knows[c])
      BY <1>11 DEF Icons
    <2>2. PICK m : m = Bare("ICON")
      OBVIOUS
    <2>3. Append(q, m) = q \o <<m>> /\ Append(q, m) \in Seq(Letters)
      BY <1>4, <1>9, <2>2
    <2>4. down'[c] = Append(q, m)
      BY <1>6, <1>8, <2>1, <2>2, <2>3
    <2>5. /\ Len(Append(q, m)) = Len(q) + 1 /\ Append(q, m)[Len(q) + 1] = m
          /\ \A i \in 1 .. Len(q) : Append(q, m)[i] = q[i]
      BY <1>4, <1>9, <2>2
    <2>6. PICK t : t = Append(q, m)
      OBVIOUS
    <2>7. Len(s) \in Nat /\ Len(q) \in Nat
      BY <1>4, <1>9
    <2>8. /\ Len(t) = Len(q) + 1 /\ t[Len(q) + 1] = m /\ \A i \in 1 .. Len(q) : t[i] = q[i]
      BY <2>5, <2>6
    <2>9. Onward(s, t, 1, {Fault, m})
      BY <1>9, <2>7, <2>8 DEF Onward
    <2>10. /\ h.ended = g.ended /\ h.conn = g.conn /\ h.timer = g.timer /\ h.win = g.win
           /\ h.frozen = g.frozen /\ h.logged = g.logged /\ h.token = g.token
           /\ h.fileOpen = g.fileOpen /\ h.fileId = g.fileId /\ h.shown = g.shown
      BY <1>1 DEF Refresh, Guis
    <2>11. QED
      BY <1>3, <1>6, <2>1, <2>2, <2>3, <2>4, <2>6, <2>9, <2>10 DEF Takes
  <1>12. QED
    BY <1>10, <1>11

\* What a slot leaves at the server is what it was: WInv is about c.
LEMMA TakesViews ==
  ASSUME IInv, WInv, NEW c \in Clients, Running(c), NEW g, NEW new, Takes(c, g, new),
         \A m \in new : m.kind # "STRANGER",
         Remembers, Rest(c), swept' \in [Clients -> SUBSET Windows],
         UNCHANGED <<manager, store, knows, server>>,
         g.ended = "no", g.token = gui[c].token,
         ClientParts(c)', Viewed(c)' \subseteq Viewed(c)
  PROVE  WInv'
  <1>1. /\ ClientTyped /\ down[c] \in Seq(Letters)
        /\ UNCHANGED <<entry, open, inFile, rows, members, knows, sessions, born, server>>
    BY DEF IInv, manager, store, ClientTyped
  <1>2. Still(c)
    <2>1. ASSUME NEW k \in Clients \ {c}
          PROVE  /\ down'[k] \in Seq(Letters) /\ Onward(down[k], down'[k], 0, Notices(k))
                 /\ Onward(down[k], down'[k], 0, Tidings(k))
      <3>1. down[k] \in Seq(Letters) /\ down'[k] = down[k]
        BY <1>1 DEF ClientTyped, Takes
      <3>2. QED
        BY <3>1 DEF Onward
    <2>2. QED
      BY <1>1, <2>1 DEF Still, Aside, Rest, Takes
  <1>3. ASSUME NEW i \in At1(c)', down'[c][i].kind = "STRANGER"
        PROVE  \E j \in At1(c) : down[c][j].kind = "STRANGER"
    <2>1. down'[c] \in Seq(Letters) /\ Onward(down[c], down'[c], 1, new)
      BY DEF Takes
    <2>2. \A l \in 1 .. Len(down'[c]) : down'[c][l] \in new \/ \E j \in 1 .. Len(down[c]) : down[c][j] = down'[c][l]
      BY <1>1, <2>1, OnwardOld
    <2>3. i \in 1 .. Len(down'[c]) /\ down'[c][i] \notin new
      BY <1>3 DEF At1
    <2>4. QED
      BY <1>3, <2>2, <2>3 DEF At1
  <1>4. gui'[c].ended = "no" /\ gui'[c].token = gui[c].token
    BY DEF Takes
  <1>5. Running(c)' => Running(c) /\ Viewed(c)' \subseteq Viewed(c) /\ gui'[c].token = gui[c].token
    BY <1>4
  <1>6. gui'[c].ended = "stranger" \/ (\E i \in At1(c)' : down'[c][i].kind = "STRANGER") =>
           Excuse \/ gui[c].ended = "stranger" \/ \E i \in At1(c) : down[c][i].kind = "STRANGER"
    BY <1>3, <1>4
  <1>7. server' \in {server, "fallen"}
    BY <1>1
  <1>8. QED
    BY <1>1, <1>2, <1>5, <1>6, <1>7, ServerStays

\* A message that opens no file and logs nobody in.
LEMMA PlainTaken ==
  ASSUME IInv, WInv, NEW c \in Clients, server = "up", Running(c), down[c] # << >>,
         down[c][1].kind \notin Opening \cup {"LOGIN"},
         NEW g, NEW new, Takes(c, g, new),
         \A m \in new : /\ m.kind \notin Covering \cup {"STRANGER", "JOINED"}
                        /\ m.kind = "ICON" => "switched" \in past[c]
                        /\ gui[c].logged \/ m.kind \in Tokenless,
         Remembers, Rest(c), swept' \in [Clients -> SUBSET Windows],
         UNCHANGED <<manager, store, knows, server>>,
         g.ended = "no", g.conn = gui[c].conn, g.timer = gui[c].timer, g.token = gui[c].token,
         g.logged = gui[c].logged, g.fileId = gui[c].fileId, g.shown = gui[c].shown,
         Frozen(c)',
         \/ g.win = gui[c].win /\ g.fileOpen = gui[c].fileOpen
         \/ /\ g.win # "Editor"
            /\ \/ gui[c].logged \/ "late" \in past[c]
               \/ g.win \in {"Connect", "Login", "Registration"}
            /\ \/ down[c][1].kind \in Covering
               \/ open[c] = NoFile \/ "returned" \in past'[c]
  PROVE  WInv'
  <1>1. /\ ClientTyped /\ ClientParts(c) /\ down[c] \in Seq(Letters) /\ down \in [Clients -> Seq(Letters)]
        /\ UNCHANGED <<entry, open, sessions, server>> /\ past[c] \subseteq past'[c]
        /\ gui[c].ended = "no" /\ (Haunted => Haunted')
        /\ knows' = knows
    BY DEF IInv, WInv, manager, store, ClientTyped, Running, Remembers, Haunted
  <1>2. /\ down'[c] \in Seq(Letters) /\ Onward(down[c], down'[c], 1, new)
        /\ gui'[c].ended = g.ended /\ gui'[c].conn = g.conn /\ gui'[c].timer = g.timer /\ gui'[c].win = g.win
        /\ gui'[c].logged = g.logged /\ gui'[c].token = g.token
        /\ gui'[c].fileOpen = g.fileOpen /\ gui'[c].fileId = g.fileId /\ gui'[c].shown = g.shown
    BY DEF Takes
  <1>3. 1 \in At1(c) /\ gui[c].conn = "made"
    <2>1. 1 \in At1(c)
      BY <1>1 DEF At1
    <2>2. QED
      BY <1>1, <2>1 DEF ClientParts, Linked
  <1>4. (Running(c)' <=> Running(c)) /\ server' \in {server, "fallen"}
    BY <1>1, <1>2 DEF Running
  <1>5. Linked(c) /\ Entered(c) /\ Unlogged(c) /\ Named(c) /\ Covered(c) /\ Joining(c)
    BY <1>1 DEF ClientParts
  <1>6. \A m \in new : m.kind # "LOGIN" /\ m.kind # "GET" /\ m.kind \notin Opening /\ m.kind # "STRANGER"
    BY DEF Covering, Opening
  <1>7. /\ 1 = 1 => down[c][1].kind # "LOGIN"
        /\ 1 = 1 => down[c][1].kind \notin Opening
    OBVIOUS
  <1>8. Linked(c)'
    BY <1>1, <1>2, <1>3, <1>4, <1>5, LinkedStays
  <1>9. Entered(c)'
    <2>1. \A m \in new : m.kind # "LOGIN" /\ (m.kind \in Opening => gui[c].token = entry[c])
      BY <1>6
    <2>2. entry[c] # 0 => sessions'[entry[c]].active = sessions[entry[c]].active
      BY <1>1
    <2>3. gui'[c].token = gui[c].token /\ entry'[c] = entry[c]
      BY <1>1, <1>2
    <2>4. QED
      BY <1>1, <1>2, <1>4, <1>7, <1>5, <2>1, <2>2, <2>3, EnteredStays
  <1>10. Unlogged(c)'
    <2>1. CASE "late" \in past[c]
      <3>1. "late" \in past'[c]
        BY <1>1, <2>1
      <3>2. QED
        BY <1>2, <3>1 DEF Unlogged
    <2>2. CASE "late" \notin past[c]
      <3>1. \/ gui[c].logged
            \/ /\ gui'[c].win = gui[c].win \/ gui'[c].win \in {"Connect", "Login", "Registration"}
               /\ 1 = 1 => down[c][1].kind # "LOGIN"
               /\ \A m \in new : m.kind \in Tokenless \/ entry[c] # 0
        BY <1>2, <1>7, <2>2
      <3>2. QED
        BY <1>1, <1>2, <1>5, <3>1, UnloggedStays
    <2>3. QED
      BY <2>1, <2>2
  <1>11. Named(c)'
    <2>1. \A m \in new : m.kind # "GET"
      BY <1>6
    <2>2. /\ gui'[c].fileId = gui[c].fileId
          /\ \/ gui'[c].win # "Editor"
             \/ gui'[c].win = gui[c].win /\ gui'[c].fileOpen = gui[c].fileOpen /\ gui'[c].shown = gui[c].shown
      BY <1>2
    <2>3. QED
      BY <1>1, <1>2, <1>4, <1>5, <2>1, <2>2, NamedStays
  <1>12. Covered(c)'
    <2>1. CASE open[c] = NoFile \/ "returned" \in past'[c]
      BY <1>1, <2>1 DEF Covered
    <2>2. CASE ~ (open[c] = NoFile \/ "returned" \in past'[c])
      <3>1. \A m \in new : m.kind \notin Covering
        OBVIOUS
      <3>2. \/ gui'[c].win = gui[c].win /\ gui'[c].shown = gui[c].shown
            \/ gui[c].win # "Editor"
            \/ \E i \in At1(c) : down[c][i].kind \in Covering
        BY <1>2, <1>3, <2>2
      <3>3. open'[c] \in {open[c], NoFile}
        BY <1>1
      <3>4. QED
        BY <1>1, <1>2, <1>4, <1>7, <3>1, <3>2, <1>5, <3>3, CoveredStays
    <2>3. QED
      BY <2>1, <2>2
  <1>13. Viewed(c)' \subseteq Viewed(c)
    <2>1. \A m \in new : m.kind \notin Opening
      BY <1>6
    <2>2. \/ gui'[c].win # "Editor"
          \/ gui'[c].win = gui[c].win /\ gui'[c].shown = gui[c].shown
      BY <1>2
    <2>3. QED
      BY <1>1, <1>2, <2>1, <2>2, ViewedStays
  <1>14. Joining(c)'
    <2>1. /\ \A m \in new : m.kind \notin Opening
          /\ \A m \in new : m.kind = "ICON" => "switched" \in past'[c]
          /\ \A m \in new : m.kind = "JOINED" =>
               m.users \subseteq knows'[c] /\ (Haunted \/ (Running(c) /\ open[c] # NoFile))
      BY <1>1, <1>6
    <2>2. /\ gui'[c].ended = gui[c].ended /\ gui'[c].shown = gui[c].shown
          /\ knows[c] \subseteq knows'[c] /\ open'[c] \in {open[c], NoFile}
      BY <1>1, <1>2
    <2>3. QED
      BY <1>1, <1>2, <1>4, <1>5, <1>7, <2>1, <2>2, JoiningStays
  <1>15. ClientParts(c)'
    BY <1>8, <1>9, <1>10, <1>11, <1>12, <1>14 DEF ClientParts
  <1>16. QED
    BY <1>6, <1>13, <1>15, TakesViews

\* A slot that needs the token: of a client that has logged out, what it logged
\* out of was on the way.
LEMMA LateTaken ==
  ASSUME IInv, WInv, NEW c \in Clients, Running(c), down[c] # << >>, ~ gui[c].logged,
         down[c][1].kind \notin Tokenless \cup {"LOGIN"}
  PROVE  "late" \in past[c]
  <1>1. Unlogged(c) /\ 1 \in At1(c)
    BY DEF IInv, WInv, ClientTyped, ClientParts, At1
  <1>2. \A j \in 1 .. 1 : j = 1
    OBVIOUS
  <1>3. QED
    BY <1>1, <1>2 DEF Unlogged

\* Every slot of these: the client ends, not being logged in, or becomes g.
LEMMA BecomesViews ==
  ASSUME IInv, WInv, NEW c \in Clients, server = "up", Running(c), down[c] # << >>,
         down[c][1].kind \notin Opening \cup {"LOGIN"},
         NEW g \in Guis, NEW needsToken \in BOOLEAN, NEW refreshes \in BOOLEAN,
         Becomes(c, g, needsToken, refreshes),
         Remembers, Rest(c), swept' \in [Clients -> SUBSET Windows],
         g.ended = "no", g.conn = gui[c].conn, g.timer = gui[c].timer, g.token = gui[c].token,
         g.logged = gui[c].logged, g.fileId = gui[c].fileId, g.shown = gui[c].shown,
         needsToken => down[c][1].kind \notin Tokenless,
         \/ g.frozen \ swept'[c] \subseteq (gui[c].frozen \ swept[c]) \ {gui[c].win}
         \/ /\ g.frozen = gui[c].frozen /\ g.win = gui[c].win /\ swept' = swept
            /\ down[c][1].kind \notin Releasing,
         \/ g.win = gui[c].win /\ g.fileOpen = gui[c].fileOpen
         \/ /\ g.win # "Editor"
            /\ needsToken \/ down[c][1].kind \notin Tokenless \/ g.win \in {"Connect", "Login", "Registration"}
            /\ \/ down[c][1].kind \in Covering
               \/ open[c] = NoFile \/ "returned" \in past'[c]
  PROVE  WInv'
  <1>1. ClientTyped /\ UNCHANGED <<manager, store, knows, server>> /\ down[c] \in Seq(Letters)
        /\ Frozen(c) /\ down \in [Clients -> Seq(Letters)]
    BY DEF IInv, WInv, Becomes, ClientTyped, ClientParts
  <1>2. gui[c].logged \/ "late" \in past[c] \/ down[c][1].kind \in Tokenless
    BY LateTaken
  <1>3. CASE needsToken /\ ~ g.logged
    <2>1. Ends(c, "notLogged") /\ "late" \in past[c] /\ "notLogged" \in Endings \ {"no"}
      BY <1>2, <1>3 DEF Becomes, Endings
    <2>2. QED
      BY <1>1, <2>1, EndsViews
  <1>4. CASE ~ (needsToken /\ ~ g.logged)
    <2>1. Takes(c, g, {Fault})
      BY <1>1, <1>4, BecomesTakes
    <2>2. \A m \in {Fault} : /\ m.kind \notin Covering \cup {"STRANGER", "JOINED"}
                             /\ m.kind = "ICON" => "switched" \in past[c]
                             /\ gui[c].logged \/ m.kind \in Tokenless
      BY PlainKinds DEF Tokenless, Unasked
    <2>3. Frozen(c)'
      <3>1. /\ gui'[c].frozen = g.frozen /\ gui'[c].win = g.win /\ gui'[c].timer = g.timer
            /\ gui'[c].conn = g.conn /\ gui'[c].ended = g.ended
            /\ down'[c] \in Seq(Letters) /\ Onward(down[c], down'[c], 1, {Fault})
        BY <2>1 DEF Takes
      <3>2. server' \in {server, "fallen"} /\ (Running(c)' => Running(c))
        BY <1>1
      <3>3. CASE g.frozen \ swept'[c] \subseteq (gui[c].frozen \ swept[c]) \ {gui[c].win}
        BY <1>1, <3>1, <3>2, <3>3, FrozenFreed
      <3>4. CASE /\ g.frozen = gui[c].frozen /\ g.win = gui[c].win /\ swept' = swept
                 /\ down[c][1].kind \notin Releasing
        <4>1. 1 = 1 => down[c][1].kind \notin Releasing
          BY <3>4
        <4>2. /\ gui'[c].frozen = gui[c].frozen /\ gui'[c].win = gui[c].win /\ swept[c] \subseteq swept'[c]
              /\ gui'[c].timer = gui[c].timer /\ gui'[c].conn = gui[c].conn
          BY <3>1, <3>4
        <4>3. QED
          BY <1>1, <3>1, <3>2, <4>1, <4>2, FrozenStays
      <3>5. QED
        BY <3>3, <3>4
    <2>4. \/ g.win = gui[c].win /\ g.fileOpen = gui[c].fileOpen
          \/ /\ g.win # "Editor"
             /\ \/ gui[c].logged \/ "late" \in past[c]
                \/ g.win \in {"Connect", "Login", "Registration"}
             /\ \/ down[c][1].kind \in Covering
                \/ open[c] = NoFile \/ "returned" \in past'[c]
      BY <1>2, <1>4
    <2>5. QED
      BY <1>1, <2>1, <2>2, <2>3, <2>4, PlainTaken
  <1>5. QED
    BY <1>3, <1>4

\* What the slots do to the windows, field by field.
LEMMA GuiFields ==
  ASSUME NEW g \in Guis
  PROVE  /\ \A u \in {Unfreeze(g)} :
              /\ u \in Guis /\ u.frozen = g.frozen \ {g.win} /\ u.win = g.win /\ u.ended = g.ended
              /\ u.conn = g.conn /\ u.timer = g.timer /\ u.logged = g.logged /\ u.token = g.token
              /\ u.fileOpen = g.fileOpen /\ u.fileId = g.fileId /\ u.shown = g.shown
         /\ \A w \in Windows : \A u \in {Show(g, w)} :
              /\ u \in Guis /\ u.frozen = g.frozen /\ u.win = w /\ u.ended = g.ended
              /\ u.conn = g.conn /\ u.timer = g.timer /\ u.logged = g.logged /\ u.token = g.token
              /\ u.fileOpen = g.fileOpen /\ u.fileId = g.fileId /\ u.shown = g.shown
         /\ \A u \in {CloseFile(g)} :
              /\ u \in Guis /\ u.frozen = g.frozen /\ u.win = g.win /\ u.ended = g.ended
              /\ u.conn = g.conn /\ u.timer = g.timer /\ u.logged = g.logged /\ u.token = g.token
              /\ u.fileId = g.fileId /\ u.shown = g.shown
         /\ \A f \in FileIds : \A u \in {OpenFile(g, f)} :
              /\ u \in Guis /\ u.frozen = g.frozen /\ u.win = g.win /\ u.ended = g.ended
              /\ u.conn = g.conn /\ u.timer = g.timer /\ u.logged = g.logged /\ u.token = g.token
              /\ u.fileOpen /\ u.fileId = g.fileId /\ u.shown = f
         /\ \A t \in Nat : \A u \in {LogIn(g, t)} :
              /\ u \in Guis /\ u.frozen = g.frozen /\ u.win = g.win /\ u.ended = g.ended
              /\ u.conn = g.conn /\ u.timer = g.timer /\ u.logged /\ u.token = t
              /\ u.fileOpen = g.fileOpen /\ u.fileId = g.fileId /\ u.shown = g.shown
  <1>1. \A u \in {Unfreeze(g)} :
              /\ u \in Guis /\ u.frozen = g.frozen \ {g.win} /\ u.win = g.win /\ u.ended = g.ended
              /\ u.conn = g.conn /\ u.timer = g.timer /\ u.logged = g.logged /\ u.token = g.token
              /\ u.fileOpen = g.fileOpen /\ u.fileId = g.fileId /\ u.shown = g.shown
    BY DEF Unfreeze, Guis
  <1>2. \A w \in Windows : \A u \in {Show(g, w)} :
              /\ u \in Guis /\ u.frozen = g.frozen /\ u.win = w /\ u.ended = g.ended
              /\ u.conn = g.conn /\ u.timer = g.timer /\ u.logged = g.logged /\ u.token = g.token
              /\ u.fileOpen = g.fileOpen /\ u.fileId = g.fileId /\ u.shown = g.shown
    BY DEF Show, Guis
  <1>3. \A u \in {CloseFile(g)} :
              /\ u \in Guis /\ u.frozen = g.frozen /\ u.win = g.win /\ u.ended = g.ended
              /\ u.conn = g.conn /\ u.timer = g.timer /\ u.logged = g.logged /\ u.token = g.token
              /\ u.fileId = g.fileId /\ u.shown = g.shown
    BY DEF CloseFile, Guis
  <1>4. \A f \in FileIds : \A u \in {OpenFile(g, f)} :
              /\ u \in Guis /\ u.frozen = g.frozen /\ u.win = g.win /\ u.ended = g.ended
              /\ u.conn = g.conn /\ u.timer = g.timer /\ u.logged = g.logged /\ u.token = g.token
              /\ u.fileOpen /\ u.fileId = g.fileId /\ u.shown = f
    BY DEF OpenFile, Guis
  <1>5. \A t \in Nat : \A u \in {LogIn(g, t)} :
              /\ u \in Guis /\ u.frozen = g.frozen /\ u.win = g.win /\ u.ended = g.ended
              /\ u.conn = g.conn /\ u.timer = g.timer /\ u.logged /\ u.token = t
              /\ u.fileOpen = g.fileOpen /\ u.fileId = g.fileId /\ u.shown = g.shown
    BY DEF LogIn, Guis
  <1>6. QED
    BY <1>1, <1>2, <1>3, <1>4, <1>5

\* The answers that free the window that is shown, and show another.
LEMMA ReleaseViews ==
  ASSUME IInv, WInv, NEW c \in Clients,
         ServerRelease(c) \/ ServerEditUser(c) \/ ServerDeleteUser(c) \/ ServerDeletedFile(c)
           \/ ServerDeleteFile(c) \/ ServerRefresh(c)
  PROVE  WInv'
  <1>1. /\ ClientTyped /\ gui[c] \in Guis /\ down[c] \in Seq(Letters) /\ swept \in [Clients -> SUBSET Windows]
    BY DEF IInv, WInv, ClientTyped, WindowsTyped
  <1>2. /\ server = "up" /\ Running(c) /\ down[c] # << >> /\ gui[c].ended = "no"
        /\ Head(down[c]) = down[c][1]
    <2>1. server = "up" /\ Running(c) /\ down[c] # << >>
      BY DEF ServerRelease, ServerEditUser, ServerDeleteUser, ServerDeletedFile, ServerDeleteFile,
             ServerRefresh, Arrives
    <2>2. Head(down[c]) = down[c][1]
      BY <1>1, <2>1
    <2>3. QED
      BY <2>1, <2>2 DEF Running
  <1>3. PICK u : u = Unfreeze(gui[c])
    OBVIOUS
  <1>4. PICK f : f = CloseFile(gui[c])
    OBVIOUS
  <1>5. PICK v : v = Unfreeze(f)
    OBVIOUS
  <1>6. /\ u \in Guis /\ u.frozen = gui[c].frozen \ {gui[c].win} /\ u.win = gui[c].win /\ u.ended = "no"
        /\ u.conn = gui[c].conn /\ u.timer = gui[c].timer /\ u.logged = gui[c].logged
        /\ u.token = gui[c].token /\ u.fileOpen = gui[c].fileOpen /\ u.fileId = gui[c].fileId
        /\ u.shown = gui[c].shown
    BY <1>1, <1>2, <1>3, GuiFields
  <1>7. /\ f \in Guis /\ f.frozen = gui[c].frozen /\ f.win = gui[c].win /\ f.ended = "no"
        /\ f.conn = gui[c].conn /\ f.timer = gui[c].timer /\ f.logged = gui[c].logged
        /\ f.token = gui[c].token /\ f.fileId = gui[c].fileId /\ f.shown = gui[c].shown
    BY <1>1, <1>2, <1>4, GuiFields
  <1>8. /\ v \in Guis /\ v.frozen = gui[c].frozen \ {gui[c].win} /\ v.win = gui[c].win /\ v.ended = "no"
        /\ v.conn = gui[c].conn /\ v.timer = gui[c].timer /\ v.logged = gui[c].logged
        /\ v.token = gui[c].token /\ v.fileId = gui[c].fileId /\ v.shown = gui[c].shown
    BY <1>5, <1>7, GuiFields
  <1>9. UNCHANGED <<manager, store, knows, server>> => UNCHANGED <<entry, open, inFile, knows>>
    BY DEF manager
  <1>10. /\ UNCHANGED <<manager, store, knows, server>>
         /\ UNCHANGED history => Remembers /\ Rest(c) /\ swept' = swept
    <2>1. UNCHANGED <<manager, store, knows, server>>
      BY DEF ServerRelease, ServerEditUser, ServerDeleteUser, ServerDeletedFile, ServerDeleteFile,
             ServerRefresh, Becomes
    <2>2. QED
      BY <1>1, <1>9, <2>1, PastKept DEF history, Rest
  <1>11. {"Browser", "Login"} \subseteq Windows /\ "returned" \in Causes
    BY DEF Windows, Causes
  <1>12. CASE ServerRelease(c)
    <2>1. Becomes(c, u, FALSE, FALSE) /\ UNCHANGED history /\ down[c][1].kind \in {"ERROR", "DIALOG"}
      BY <1>2, <1>3, <1>12 DEF ServerRelease, Arrives
    <2>2. down[c][1].kind \notin Opening \cup {"LOGIN"}
      BY <2>1 DEF Opening
    <2>3. u.frozen \ swept'[c] \subseteq (gui[c].frozen \ swept[c]) \ {gui[c].win}
      BY <1>6, <1>10, <2>1
    <2>4. QED
      BY <1>1, <1>2, <1>6, <1>10, <2>1, <2>2, <2>3, BecomesViews
  <1>13. CASE ServerEditUser(c) \/ ServerDeleteUser(c)
    <2>1. PICK w \in {"Browser", "Login"} :
            /\ Becomes(c, Show(u, w), FALSE, FALSE) /\ UNCHANGED history
            /\ down[c][1].kind \in {"EDIT_USER", "DELETE_USER"}
      BY <1>2, <1>3, <1>13 DEF ServerEditUser, ServerDeleteUser, Arrives
    <2>2. PICK s : s = Show(u, w)
      OBVIOUS
    <2>3. /\ s \in Guis /\ s.frozen = u.frozen /\ s.win = w /\ s.ended = "no"
          /\ s.conn = u.conn /\ s.timer = u.timer /\ s.logged = u.logged
          /\ s.token = u.token /\ s.fileId = u.fileId /\ s.shown = u.shown
      BY <1>6, <1>11, <2>2, GuiFields
    <2>4. /\ down[c][1].kind \notin Opening \cup {"LOGIN"} /\ down[c][1].kind \in Covering
          /\ down[c][1].kind \notin Tokenless
      BY <2>1 DEF Opening, Covering, Tokenless, Unasked
    <2>5. s.frozen \ swept'[c] \subseteq (gui[c].frozen \ swept[c]) \ {gui[c].win} /\ s.win # "Editor"
      BY <1>6, <1>10, <2>1, <2>3
    <2>6. Becomes(c, s, FALSE, FALSE)
      BY <2>1, <2>2
    <2>7. QED
      BY <1>1, <1>2, <1>6, <1>10, <2>1, <2>3, <2>4, <2>5, <2>6, BecomesViews
  <1>14. CASE ServerDeletedFile(c)
    <2>1. /\ Becomes(c, Show(f, "Browser"), TRUE, TRUE) /\ down[c][1].kind = "FILE_DELETED"
          /\ swept' = [swept EXCEPT ![c] = swept[c] \cup (gui[c].frozen \cap {gui[c].win})]
          /\ past' = [past EXCEPT ![c] = @ \cup {"returned"}]
      BY <1>1, <1>2, <1>4, <1>14 DEF ServerDeletedFile, Arrives
    <2>2. PICK s : s = Show(f, "Browser")
      OBVIOUS
    <2>3. /\ s \in Guis /\ s.frozen = f.frozen /\ s.win = "Browser" /\ s.ended = "no"
          /\ s.conn = f.conn /\ s.timer = f.timer /\ s.logged = f.logged
          /\ s.token = f.token /\ s.fileId = f.fileId /\ s.shown = f.shown
      BY <1>7, <1>11, <2>2, GuiFields
    <2>4. down[c][1].kind \notin Opening \cup {"LOGIN"} /\ down[c][1].kind \notin Tokenless
      BY <2>1 DEF Opening, Tokenless, Unasked
    <2>5. /\ Remembers /\ "returned" \in past'[c]
          /\ \A k \in Clients \ {c} : past'[k] = past[k] /\ swept'[k] = swept[k]
          /\ swept'[c] = swept[c] \cup (gui[c].frozen \cap {gui[c].win})
          /\ swept' \in [Clients -> SUBSET Windows]
      <3>1. Remembers
        BY <1>1, <1>11, <2>1, PastKept
      <3>2. gui[c].frozen \subseteq Windows
        BY <1>1 DEF Guis
      <3>3. QED
        BY <1>1, <2>1, <3>1, <3>2 DEF ClientTyped
    <2>6. Rest(c)
      BY <1>9, <1>10, <2>5 DEF Rest
    <2>7. s.frozen \ swept'[c] \subseteq (gui[c].frozen \ swept[c]) \ {gui[c].win}
      BY <1>7, <2>3, <2>5
    <2>8. Becomes(c, s, TRUE, TRUE)
      BY <2>1, <2>2
    <2>9. QED
      BY <1>2, <1>7, <2>3, <2>4, <2>5, <2>6, <2>7, <2>8, BecomesViews
  <1>15. CASE ServerDeleteFile(c)
    <2>1. /\ Becomes(c, Show(v, "Browser"), TRUE, TRUE) /\ down[c][1].kind = "DELETE_FILE"
          /\ swept' = swept
          /\ past' = IF open[c] = NoFile THEN past ELSE [past EXCEPT ![c] = @ \cup {"returned"}]
      BY <1>1, <1>2, <1>4, <1>5, <1>15 DEF ServerDeleteFile, Arrives
    <2>2. PICK s : s = Show(v, "Browser")
      OBVIOUS
    <2>3. /\ s \in Guis /\ s.frozen = v.frozen /\ s.win = "Browser" /\ s.ended = "no"
          /\ s.conn = v.conn /\ s.timer = v.timer /\ s.logged = v.logged
          /\ s.token = v.token /\ s.fileId = v.fileId /\ s.shown = v.shown
      BY <1>8, <1>11, <2>2, GuiFields
    <2>4. down[c][1].kind \notin Opening \cup {"LOGIN"} /\ down[c][1].kind \notin Tokenless
      BY <2>1 DEF Opening, Tokenless, Unasked
    <2>5. /\ Remembers /\ (open[c] = NoFile \/ "returned" \in past'[c])
          /\ \A k \in Clients \ {c} : past'[k] = past[k] /\ swept'[k] = swept[k]
          /\ swept' \in [Clients -> SUBSET Windows]
      <3>1. Remembers
        BY <1>1, <1>11, <2>1, PastKept
      <3>2. QED
        BY <1>1, <2>1, <3>1 DEF ClientTyped
    <2>6. Rest(c)
      BY <1>9, <1>10, <2>5 DEF Rest
    <2>7. s.frozen \ swept'[c] \subseteq (gui[c].frozen \ swept[c]) \ {gui[c].win}
      BY <1>8, <2>1, <2>3
    <2>8. Becomes(c, s, TRUE, TRUE)
      BY <2>1, <2>2
    <2>9. QED
      BY <1>2, <1>8, <2>3, <2>4, <2>5, <2>6, <2>7, <2>8, BecomesViews
  <1>16. CASE ServerRefresh(c)
    <2>1. Becomes(c, gui[c], TRUE, TRUE) /\ UNCHANGED history /\ down[c][1].kind = "REFRESH"
      BY <1>2, <1>16 DEF ServerRefresh, Arrives
    <2>2. /\ down[c][1].kind \notin Opening \cup {"LOGIN"} /\ down[c][1].kind \notin Tokenless
          /\ down[c][1].kind \notin Releasing
      BY <2>1 DEF Opening, Releasing, Tokenless, Unasked
    <2>3. QED
      BY <1>1, <1>2, <1>10, <2>1, <2>2, BecomesViews
  <1>17. QED
    BY <1>12, <1>13, <1>14, <1>15, <1>16

\* The dialog with all the folders: cancelled, or confirmed.
LEMMA AllDirsViews ==
  ASSUME IInv, WInv, NEW c \in Clients, ServerGetAllDirs(c)
  PROVE  WInv'
  <1>1. /\ ClientTyped /\ gui[c] \in Guis /\ down[c] \in Seq(Letters) /\ swept \in [Clients -> SUBSET Windows]
        /\ down \in [Clients -> Seq(Letters)] /\ ClientParts(c)
    BY DEF IInv, WInv, ClientTyped, WindowsTyped
  <1>2. /\ server = "up" /\ Running(c) /\ down[c] # << >> /\ gui[c].ended = "no"
        /\ Head(down[c]) = down[c][1] /\ down[c][1].kind = "ALL_DIRS"
    <2>1. server = "up" /\ Running(c) /\ down[c] # << >> /\ Head(down[c]).kind = "ALL_DIRS"
      BY DEF ServerGetAllDirs, Arrives
    <2>2. Head(down[c]) = down[c][1]
      BY <1>1, <2>1
    <2>3. QED
      BY <2>1, <2>2 DEF Running
  <1>3. /\ down[c][1].kind \notin Opening \cup {"LOGIN"} /\ down[c][1].kind \notin Tokenless
        /\ down[c][1].kind \notin Releasing
    BY <1>2 DEF Opening, Releasing, Tokenless, Unasked
  <1>4. UNCHANGED <<manager, store, knows, server>>
    BY DEF ServerGetAllDirs, Becomes
  <1>5. Remembers /\ Rest(c) /\ swept' = swept
    BY <1>1, <1>4, PastKept DEF ServerGetAllDirs, manager, history, Rest
  <1>6. CASE Becomes(c, gui[c], FALSE, FALSE) \/ Becomes(c, gui[c], TRUE, FALSE)
    BY <1>1, <1>2, <1>3, <1>5, <1>6, BecomesViews
  <1>7. CASE ~ (Becomes(c, gui[c], FALSE, FALSE) \/ Becomes(c, gui[c], TRUE, FALSE))
    <2>1. /\ gui[c].logged /\ gui' = gui
          /\ \E f \in gui[c].listed :
               down' = [down EXCEPT ![c] = Append(Tail(@), IF Reaches(c, f) THEN Bare("REFRESH") ELSE Fault)]
      BY <1>7 DEF ServerGetAllDirs
    <2>2. PICK m \in {Bare("REFRESH"), Fault} : down' = [down EXCEPT ![c] = Append(Tail(@), m)]
      BY <2>1
    <2>3. m \in Letters /\ m.kind \notin Covering \cup Unasked
      BY PlainKinds
    <2>4. down'[c] = Append(Tail(down[c]), m) /\ \A k \in Clients \ {c} : down'[k] = down[k]
      BY <1>1, <2>2
    <2>5. Onward(down[c], down'[c], 1, {m}) /\ down'[c] \in Seq(Letters)
      BY <1>1, <1>2, <2>3, <2>4, OnwardTail
    <2>6. Takes(c, gui[c], {m})
      BY <2>1, <2>4, <2>5 DEF Takes
    <2>7. \A x \in {m} : /\ x.kind \notin Covering \cup {"STRANGER", "JOINED"}
                         /\ x.kind = "ICON" => "switched" \in past[c]
                         /\ gui[c].logged \/ x.kind \in Tokenless
      BY <2>1, <2>3 DEF Unasked
    <2>8. Frozen(c)'
      <3>1. 1 = 1 => down[c][1].kind \notin Releasing
        BY <1>3
      <3>2. /\ gui'[c].frozen = gui[c].frozen /\ gui'[c].win = gui[c].win /\ swept[c] \subseteq swept'[c]
            /\ gui'[c].timer = gui[c].timer /\ gui'[c].conn = gui[c].conn /\ Frozen(c)
            /\ server' \in {server, "fallen"} /\ (Running(c)' => Running(c))
        BY <1>1, <1>2, <1>4, <1>5, <2>1 DEF ClientParts
      <3>3. QED
        BY <1>1, <2>5, <3>1, <3>2, FrozenStays
    <2>9. QED
      BY <1>1, <1>2, <1>3, <1>4, <1>5, <2>6, <2>7, <2>8, PlainTaken
  <1>8. QED
    BY <1>6, <1>7

\* The answer to a login brings the token of the client's own entry; no answer that
\* opens a file is behind it.
LEMMA LoginViews ==
  ASSUME IInv, WInv, NEW c \in Clients, ServerLogin(c)
  PROVE  WInv'
  <1>1. /\ ClientTyped /\ gui[c] \in Guis /\ down[c] \in Seq(Letters) /\ swept \in [Clients -> SUBSET Windows]
        /\ down \in [Clients -> Seq(Letters)]
        /\ Linked(c) /\ Entered(c) /\ Unlogged(c) /\ Frozen(c) /\ Named(c) /\ Covered(c) /\ Joining(c)
    BY DEF IInv, WInv, ClientTyped, ClientParts, WindowsTyped
  <1>2. server = "up" /\ Running(c) /\ down[c] # << >> /\ gui[c].ended = "no"
    BY DEF ServerLogin, Arrives, Running
  <1>3. /\ Head(down[c]) = down[c][1] /\ 1 \in At1(c) /\ down[c][1] \in Letters
        /\ Len(down[c]) \in Nat
    BY <1>1, <1>2 DEF At1
  <1>4. down[c][1].kind = "LOGIN"
    BY <1>3 DEF ServerLogin, Arrives
  <1>5. PICK t : t = down[c][1].session
    OBVIOUS
  <1>6. t \in Nat /\ t = entry[c] /\ t # 0
    BY <1>1, <1>3, <1>4, <1>5 DEF Letters, Entered
  <1>7. PICK l : l = LogIn(gui[c], t)
    OBVIOUS
  <1>8. PICK u : u = Unfreeze(l)
    OBVIOUS
  <1>9. PICK g : g = Show(u, "Browser")
    OBVIOUS
  <1>10. /\ l \in Guis /\ l.frozen = gui[c].frozen /\ l.win = gui[c].win /\ l.ended = "no"
         /\ l.conn = gui[c].conn /\ l.timer = gui[c].timer /\ l.logged /\ l.token = t
         /\ l.fileId = gui[c].fileId /\ l.shown = gui[c].shown
    BY <1>1, <1>2, <1>6, <1>7, GuiFields
  <1>11. /\ u \in Guis /\ u.frozen = gui[c].frozen \ {gui[c].win} /\ u.ended = "no"
         /\ u.conn = gui[c].conn /\ u.timer = gui[c].timer /\ u.logged /\ u.token = t
         /\ u.fileId = gui[c].fileId /\ u.shown = gui[c].shown
    BY <1>8, <1>10, GuiFields
  <1>12. /\ g \in Guis /\ g.frozen = gui[c].frozen \ {gui[c].win} /\ g.win = "Browser" /\ g.ended = "no"
         /\ g.conn = gui[c].conn /\ g.timer = gui[c].timer /\ g.logged /\ g.token = t
         /\ g.fileId = gui[c].fileId /\ g.shown = gui[c].shown
    BY <1>9, <1>11, GuiFields DEF Windows
  <1>13. Becomes(c, g, TRUE, TRUE) /\ UNCHANGED history
    BY <1>3, <1>5, <1>7, <1>8, <1>9 DEF ServerLogin
  <1>14. Takes(c, g, {Fault})
    BY <1>1, <1>2, <1>12, <1>13, BecomesTakes
  <1>15. /\ down'[c] \in Seq(Letters) /\ Onward(down[c], down'[c], 1, {Fault})
         /\ gui'[c].ended = "no" /\ gui'[c].conn = gui[c].conn /\ gui'[c].timer = gui[c].timer
         /\ gui'[c].win = "Browser" /\ gui'[c].logged /\ gui'[c].token = t
         /\ gui'[c].fileId = gui[c].fileId /\ gui'[c].frozen = gui[c].frozen \ {gui[c].win}
         /\ gui'[c].shown = gui[c].shown
    BY <1>12, <1>14 DEF Takes
  <1>16. /\ UNCHANGED <<entry, open, inFile, rows, members, knows, sessions, born, server, swept, past>>
         /\ Remembers /\ Rest(c)
    <2>1. UNCHANGED <<manager, store, knows, server, history>>
      BY <1>13 DEF Becomes
    <2>2. UNCHANGED <<entry, open, inFile, rows, members, knows, sessions, born, server, swept, past>>
      BY <2>1, LeavesServer
    <2>3. QED
      BY <1>1, <2>2, PastKept DEF Rest
  <1>17. (Running(c)' <=> Running(c)) /\ server' \in {server, "fallen"} /\ (Haunted => Haunted')
    BY <1>2, <1>15, <1>16 DEF Running, Haunted, Remembers
  <1>18. \A i \in At1(c)' : down'[c][i].kind # "LOGIN" /\ down'[c][i].kind \notin Opening
                            /\ (down'[c][i] = Fault \/ \E j \in At1(c) : j > 1 /\ down[c][j] = down'[c][i])
    <2>1. \A j \in At1(c) : j # 1 => down[c][j].kind # "LOGIN"
      BY <1>1, <1>3, <1>4 DEF Entered
    <2>2. \A j \in At1(c) : j > 1 => down[c][j].kind \notin Opening
      BY <1>1, <1>3, <1>4 DEF Entered
    <2>3. Fault.kind # "LOGIN" /\ Fault.kind \notin Opening
      BY DEF Fault, Bare, Msg, Opening
    <2> DEFINE s == down[c]
               q == down'[c]
    <2>4. /\ Len(s) \in Nat /\ Len(q) \in Nat
          /\ \A i \in 1 .. Len(q) : i > Len(s) - 1 => q[i] \in {Fault}
          /\ \A i \in 1 .. Len(q) : i <= Len(s) - 1 => i + 1 \in 1 .. Len(s) /\ q[i] = s[i + 1]
      BY <1>1, <1>15, OnwardOne
    <2> HIDE DEF s, q
    <2>5. \A i \in 1 .. Len(q) : q[i] = Fault \/ \E j \in 1 .. Len(s) : j > 1 /\ s[j] = q[i]
      <3>1. ASSUME NEW i \in 1 .. Len(q), i <= Len(s) - 1
            PROVE  \E j \in 1 .. Len(s) : j > 1 /\ s[j] = q[i]
        <4>1. i + 1 \in 1 .. Len(s) /\ s[i + 1] = q[i] /\ i + 1 > 1
          BY <2>4, <3>1
        <4>2. QED
          BY <4>1
      <3>2. ASSUME NEW i \in 1 .. Len(q) PROVE i <= Len(s) - 1 \/ q[i] = Fault
        BY <2>4, <3>2
      <3>3. QED
        BY <3>1, <3>2
    <2>6. \A i \in At1(c)' : down'[c][i] = Fault \/ \E j \in At1(c) : j > 1 /\ down[c][j] = down'[c][i]
      BY <2>5 DEF At1, s, q
    <2>7. \A j \in At1(c) : j > 1 => j # 1
      BY DEF At1
    <2>8. ASSUME NEW i \in At1(c)'
          PROVE  /\ down'[c][i].kind # "LOGIN" /\ down'[c][i].kind \notin Opening
                 /\ down'[c][i] = Fault \/ \E j \in At1(c) : j > 1 /\ down[c][j] = down'[c][i]
      <3>1. CASE down'[c][i] = Fault
        BY <2>3, <3>1
      <3>2. CASE \E j \in At1(c) : j > 1 /\ down[c][j] = down'[c][i]
        <4>1. PICK j \in At1(c) : j > 1 /\ down[c][j] = down'[c][i]
          BY <3>2
        <4>2. down[c][j].kind # "LOGIN" /\ down[c][j].kind \notin Opening
          BY <2>1, <2>2, <2>7, <4>1
        <4>3. QED
          BY <4>1, <4>2
      <3>3. QED
        BY <2>6, <3>1, <3>2
    <2>9. QED
      BY <2>8
  <1>19. Linked(c)'
    <2>1. down'[c] = down[c] \/ (Running(c) /\ gui[c].conn = "made")
      BY <1>1, <1>2 DEF Linked
    <2>2. past[c] \subseteq past'[c] /\ gui'[c].ended = gui[c].ended /\ entry'[c] = entry[c]
      BY <1>2, <1>15, <1>16
    <2>3. gui[c].conn = "made" \/ \A f \in Files : c \in inFile'[f] => c \in inFile[f]
      BY <1>16
    <2>4. server' \in {server, "fallen"} /\ gui'[c].conn = gui[c].conn /\ gui'[c].timer = gui[c].timer
      BY <1>15, <1>17
    <2>5. QED
      BY <1>1, <2>1, <2>2, <2>3, <2>4, LinkedStays
  <1>20. Entered(c)'
    BY <1>1, <1>6, <1>15, <1>16, <1>18 DEF Entered
  <1>21. Unlogged(c)'
    BY <1>15 DEF Unlogged
  <1>22. Frozen(c)'
    <2>1. gui'[c].frozen \ swept'[c] \subseteq (gui[c].frozen \ swept[c]) \ {gui[c].win}
      BY <1>15, <1>16
    <2>2. QED
      BY <1>1, <1>17, <2>1, FrozenFreed
  <1>23. Named(c)'
    BY <1>15, <1>18 DEF Named, Opening
  <1>24. Covered(c)'
    <2>1. \A m \in {Fault} : m.kind \notin Covering
      BY PlainKinds
    <2>2. 1 = 1 => down[c][1].kind \notin Opening
      BY <1>4 DEF Opening
    <2>3. \E i \in At1(c) : down[c][i].kind \in Covering
      BY <1>3, <1>4 DEF Covering
    <2>4. open'[c] \in {open[c], NoFile} /\ past[c] \subseteq past'[c]
      BY <1>16
    <2>5. QED
      BY <1>1, <1>15, <1>17, <2>1, <2>2, <2>3, <2>4, CoveredStays
  <1>25. ClientParts(c)'
    <2>1. /\ \A m \in {Fault} : m.kind \notin Opening
          /\ \A m \in {Fault} : m.kind = "ICON" => "switched" \in past'[c]
          /\ \A m \in {Fault} : m.kind = "JOINED" =>
               m.users \subseteq knows'[c] /\ (Haunted \/ (Running(c) /\ open[c] # NoFile))
      BY <1>4, PlainKinds DEF Opening, Covering, Unasked
    <2>2. /\ gui'[c].ended = gui[c].ended /\ knows[c] \subseteq knows'[c]
          /\ open'[c] \in {open[c], NoFile} /\ past[c] \subseteq past'[c]
          /\ gui'[c].shown = gui[c].shown /\ (1 = 1 => down[c][1].kind \notin Opening)
          /\ Running(c)' => Running(c)
          /\ Haunted => Haunted'
      BY <1>2, <1>4, <1>15, <1>16, <1>17 DEF Opening
    <2>3. Joining(c)'
      BY <1>1, <1>15, <2>1, <2>2, JoiningStays
    <2>4. QED
      BY <1>19, <1>20, <1>21, <1>22, <1>23, <1>24, <2>3 DEF ClientParts
  <1>26. Viewed(c)' = {}
    BY <1>15, <1>18 DEF Viewed
  <1>27. Still(c)
    <2>1. ASSUME NEW k \in Clients \ {c}
          PROVE  /\ down'[k] \in Seq(Letters) /\ Onward(down[k], down'[k], 0, Notices(k))
                 /\ Onward(down[k], down'[k], 0, Tidings(k))
      <3>1. down[k] \in Seq(Letters) /\ down'[k] = down[k]
        BY <1>1, <1>14 DEF ClientTyped, Takes
      <3>2. QED
        BY <3>1 DEF Onward
    <2>2. QED
      BY <1>14, <1>16, <2>1 DEF Still, Aside, Rest, Takes
  <1>28. (\E i \in At1(c)' : down'[c][i].kind = "STRANGER") => \E i \in At1(c) : down[c][i].kind = "STRANGER"
    <2>1. Fault.kind # "STRANGER"
      BY DEF Fault, Bare, Msg
    <2>2. QED
      BY <1>18, <2>1
  <1>29. QED
    BY <1>15, <1>16, <1>17, <1>25, <1>26, <1>27, <1>28, ServerStays DEF WInv, WindowsTyped

\* The answers that open a file: the one shown is the one the answer is about.
LEMMA OpenedViews ==
  ASSUME IInv, WInv, NEW c \in Clients, ServerNewFile(c) \/ ServerGetFile(c)
  PROVE  WInv'
  <1>1. /\ ClientTyped /\ gui[c] \in Guis /\ down[c] \in Seq(Letters) /\ swept \in [Clients -> SUBSET Windows]
        /\ down \in [Clients -> Seq(Letters)]
        /\ Linked(c) /\ Entered(c) /\ Unlogged(c) /\ Frozen(c) /\ Named(c) /\ Covered(c) /\ Joining(c)
    BY DEF IInv, WInv, ClientTyped, ClientParts, WindowsTyped
  <1>2. server = "up" /\ Running(c) /\ down[c] # << >> /\ gui[c].ended = "no"
    BY DEF ServerNewFile, ServerGetFile, Arrives, Running
  <1>3. /\ Head(down[c]) = down[c][1] /\ 1 \in At1(c) /\ down[c][1] \in Letters
        /\ Len(down[c]) \in Nat
    BY <1>1, <1>2 DEF At1
  <1>4. PICK f : f = down[c][1].file
    OBVIOUS
  <1>5. /\ down[c][1].kind \in Opening /\ f \in FileIds
        /\ ServerGetFile(c) => down[c][1].kind = "GET"
        /\ ServerNewFile(c) => down[c][1].kind # "GET"
    BY <1>3, <1>4 DEF ServerNewFile, ServerGetFile, Arrives, Opening, Letters
  <1>6. /\ down[c][1].kind \in Covering /\ down[c][1].kind \notin Tokenless \cup {"LOGIN"}
        /\ down[c][1].kind \in Releasing
    BY <1>5 DEF Covering, Opening, Releasing, Tokenless, Unasked
  <1>7. PICK o : o = OpenFile(gui[c], f)
    OBVIOUS
  <1>8. PICK u : u = Unfreeze(o)
    OBVIOUS
  <1>9. PICK v : v = Show(u, "Editor")
    OBVIOUS
  <1>10. /\ o \in Guis /\ o.frozen = gui[c].frozen /\ o.win = gui[c].win /\ o.ended = "no"
         /\ o.conn = gui[c].conn /\ o.timer = gui[c].timer /\ o.logged = gui[c].logged
         /\ o.token = gui[c].token /\ o.fileId = gui[c].fileId /\ o.fileOpen /\ o.shown = f
    BY <1>1, <1>2, <1>5, <1>7 DEF OpenFile, Guis
  <1>11. /\ u \in Guis /\ u.frozen = gui[c].frozen \ {gui[c].win} /\ u.ended = "no"
         /\ u.conn = gui[c].conn /\ u.timer = gui[c].timer /\ u.logged = gui[c].logged
         /\ u.token = gui[c].token /\ u.fileId = gui[c].fileId /\ u.fileOpen /\ u.shown = f
    BY <1>8, <1>10, GuiFields
  <1>12. /\ v \in Guis /\ v.frozen = gui[c].frozen \ {gui[c].win} /\ v.win = "Editor" /\ v.ended = "no"
         /\ v.conn = gui[c].conn /\ v.timer = gui[c].timer /\ v.logged = gui[c].logged
         /\ v.token = gui[c].token /\ v.fileId = gui[c].fileId /\ v.fileOpen /\ v.shown = f
    BY <1>9, <1>11, GuiFields DEF Windows
  <1>13. Opened(c) = v
    BY <1>3, <1>4, <1>7, <1>8, <1>9 DEF Opened
  <1>14. PICK g : g = IF ServerGetFile(c) THEN v ELSE [v EXCEPT !.fileId = f]
    OBVIOUS
  <1>15. /\ g \in Guis /\ g.frozen = v.frozen /\ g.win = "Editor" /\ g.ended = "no"
         /\ g.conn = v.conn /\ g.timer = v.timer /\ g.logged = v.logged
         /\ g.token = v.token /\ g.fileOpen /\ g.shown = f
         /\ g.fileId = IF ServerGetFile(c) THEN gui[c].fileId ELSE f
    BY <1>5, <1>12, <1>14 DEF Guis
  <1>16. PICK refreshes \in BOOLEAN : Displays(c, g, refreshes)
    <2>1. CASE ServerGetFile(c)
      <3>1. Displays(c, g, FALSE)
        BY <1>13, <1>14, <2>1 DEF ServerGetFile
      <3>2. QED
        BY <3>1
    <2>2. CASE ~ ServerGetFile(c)
      <3>1. Displays(c, g, TRUE)
        BY <1>3, <1>4, <1>13, <1>14, <2>2 DEF ServerNewFile
      <3>2. QED
        BY <3>1
    <2>3. QED
      BY <2>1, <2>2
  <1>17. /\ UNCHANGED <<entry, open, inFile, rows, members, knows, sessions, born, server, swept, past>>
         /\ UNCHANGED <<manager, store, knows, server>>
         /\ Remembers /\ Rest(c) /\ past[c] \subseteq past'[c]
    <2>1. UNCHANGED <<manager, store, knows, server, history>>
      BY <1>16 DEF Displays
    <2>2. UNCHANGED <<entry, open, inFile, rows, members, knows, sessions, born, server, swept, past>>
      BY <2>1, LeavesServer
    <2>3. QED
      BY <1>1, <2>1, <2>2, PastKept DEF Rest
  <1>18. CASE ~ g.logged
    <2>1. "late" \in past[c]
      BY <1>2, <1>6, <1>12, <1>15, <1>18, LateTaken
    <2>2. Ends(c, "notLogged") /\ "notLogged" \in Endings \ {"no"}
      BY <1>16, <1>18 DEF Displays, Endings
    <2>3. QED
      BY <1>17, <2>1, <2>2, EndsViews DEF history
  <1>19. CASE g.logged
    <2>1. PICK new : /\ new \subseteq {Fault, Bare("ICON")} /\ Takes(c, g, new)
                     /\ Bare("ICON") \in new => "switched" \in past[c]
      <3>1. /\ Takes(c, g, {Fault, Bare("ICON")})
            /\ Head(down[c]).users \subseteq knows[c] => Takes(c, g, {Fault})
        BY <1>1, <1>2, <1>15, <1>16, <1>19, DisplaysTakes
      <3>2. Head(down[c]).users \subseteq knows[c] \/ "switched" \in past[c]
        BY <1>1, <1>3, <1>5 DEF Joining
      <3>3. Bare("ICON") \notin {Fault}
        BY DEF Bare, Msg, Fault
      <3>4. QED
        BY <3>1, <3>2, <3>3, Zenon
    <2>2. /\ down'[c] \in Seq(Letters) /\ Onward(down[c], down'[c], 1, new)
          /\ gui'[c].ended = "no" /\ gui'[c].conn = gui[c].conn /\ gui'[c].timer = gui[c].timer
          /\ gui'[c].win = "Editor" /\ gui'[c].logged /\ gui'[c].token = gui[c].token
          /\ gui'[c].fileOpen /\ gui'[c].shown = f /\ gui'[c].fileId = g.fileId
          /\ gui'[c].frozen = gui[c].frozen \ {gui[c].win} /\ gui[c].logged
      BY <1>12, <1>15, <1>19, <2>1 DEF Takes
    <2>3. (Running(c)' <=> Running(c)) /\ server' \in {server, "fallen"} /\ (Haunted => Haunted')
      BY <1>2, <1>17, <2>2 DEF Running, Haunted, Remembers
    <2> DEFINE s == down[c]
               q == down'[c]
    <2>4. /\ Len(s) \in Nat /\ Len(q) \in Nat
          /\ \A i \in 1 .. Len(q) : i > Len(s) - 1 => q[i] \in new
          /\ \A i \in 1 .. Len(q) : i <= Len(s) - 1 => i + 1 \in 1 .. Len(s) /\ q[i] = s[i + 1]
          /\ \A i \in 1 .. Len(s) : i = 1 \/ (i - 1 \in 1 .. Len(q) /\ i - 1 <= Len(s) - 1 /\ q[i - 1] = s[i])
      BY <1>1, <2>2, OnwardOne
    <2>5. \A m \in new : /\ m.kind \notin Covering /\ m.kind \notin Opening
                         /\ m.kind \notin {"GET", "LOGIN", "STRANGER", "JOINED"}
                         /\ m.kind = "ICON" => "switched" \in past[c]
      <3>1. \A m \in {Fault, Bare("ICON")} : m.kind \in {"ERROR", "ICON"} /\ (m.kind = "ICON" => m = Bare("ICON"))
        BY DEF Fault, Bare, Msg
      <3>2. QED
        BY <2>1, <3>1 DEF Opening, Covering
    <2> HIDE DEF s, q
    <2>6. Linked(c)'
      <3>1. down'[c] = down[c] \/ (Running(c) /\ gui[c].conn = "made")
        BY <1>1, <1>2 DEF Linked
      <3>2. gui'[c].ended = gui[c].ended /\ entry'[c] = entry[c]
        BY <1>2, <1>17, <2>2
      <3>3. QED
        BY <1>1, <1>17, <2>2, <2>3, <3>1, <3>2, LinkedStays
    <2>7. Entered(c)'
      <3>1. PICK n : n = 1
        OBVIOUS
      <3>2. /\ \A m \in new : m.kind # "LOGIN" /\ (m.kind \in Opening => gui[c].token = entry[c])
            /\ n = 1 => down[c][1].kind # "LOGIN"
            /\ Onward(down[c], down'[c], n, new) /\ down'[c] \in Seq(Letters)
        BY <1>6, <2>2, <2>5, <3>1
      <3>3. /\ entry'[c] = entry[c] /\ gui'[c].token = gui[c].token
            /\ entry[c] # 0 => sessions'[entry[c]].active = sessions[entry[c]].active
        BY <1>17, <2>2
      <3>4. QED
        BY <1>1, <2>3, <3>2, <3>3, EnteredStays
    <2>8. Unlogged(c)'
      BY <2>2 DEF Unlogged
    <2>9. Frozen(c)'
      <3>1. gui'[c].frozen \ swept'[c] \subseteq (gui[c].frozen \ swept[c]) \ {gui[c].win}
        BY <1>17, <2>2
      <3>2. QED
        BY <1>1, <2>3, <3>1, FrozenFreed
    <2>10. Named(c)'
      <3>1. ASSUME "crossed" \notin past[c]
            PROVE  /\ gui'[c].fileId = f
                   /\ \A i \in 1 .. Len(q) : q[i].kind # "GET"
        <4>1. \A i \in 1 .. Len(s) : s[i].kind = "GET" =>
                 /\ s[i].file = gui[c].fileId
                 /\ \A j \in 1 .. Len(s) : j < i => s[j].kind \notin Opening
          BY <1>1, <3>1 DEF Named, At1, s
        <4>2. s[1].kind \in Opening /\ 1 \in 1 .. Len(s) /\ s[1].file = f
              /\ (ServerGetFile(c) => s[1].kind = "GET")
          BY <1>3, <1>4, <1>5 DEF s, At1
        <4>3. gui'[c].fileId = f
          BY <1>15, <2>2, <4>1, <4>2
        <4>4. \A i \in 1 .. Len(s) : i > 1 => s[i].kind # "GET"
          BY <4>1, <4>2
        <4>5. ASSUME NEW i \in 1 .. Len(q) PROVE q[i].kind # "GET"
          <5>1. CASE i > Len(s) - 1
            BY <2>4, <2>5, <5>1
          <5>2. CASE i <= Len(s) - 1
            <6>1. i + 1 \in 1 .. Len(s) /\ q[i] = s[i + 1] /\ i + 1 > 1
              BY <2>4, <5>2
            <6>2. QED
              BY <4>4, <6>1
          <5>3. QED
            BY <2>4, <5>1, <5>2
        <4>6. QED
          BY <4>3, <4>5
      <3>2. QED
        BY <1>17, <2>2, <3>1 DEF Named, At1, q
    <2>11. Covered(c)'
      <3>1. SUFFICES ASSUME ~ Haunted, open[c] # NoFile,
                            past[c] \cap {"returned", "covered", "crossed"} = {}
                     PROVE  \/ /\ gui'[c].win = "Editor" /\ gui'[c].shown = open[c]
                               /\ \A i \in At1(c)' : down'[c][i].kind \notin Covering
                            \/ \E i \in At1(c)' :
                                 /\ down'[c][i].kind \in Opening /\ down'[c][i].file = open[c]
                                 /\ \A j \in At1(c)' : j > i => down'[c][j].kind \notin Covering
        BY <1>17, <2>3 DEF Covered
      <3>2. PICK i \in 1 .. Len(s) :
               /\ s[i].kind \in Opening /\ s[i].file = open[c]
               /\ \A j \in 1 .. Len(s) : j > i => s[j].kind \notin Covering
        BY <1>1, <1>2, <1>3, <1>6, <3>1 DEF Covered, At1, s
      <3>3. CASE i = 1
        <4>1. gui'[c].shown = open[c]
          BY <1>4, <2>2, <3>2, <3>3 DEF s
        <4>2. ASSUME NEW j \in 1 .. Len(q) PROVE q[j].kind \notin Covering
          <5>1. CASE j > Len(s) - 1
            BY <2>4, <2>5, <5>1
          <5>2. CASE j <= Len(s) - 1
            <6>1. j + 1 \in 1 .. Len(s) /\ q[j] = s[j + 1] /\ j + 1 > 1
              BY <2>4, <5>2
            <6>2. QED
              BY <3>2, <3>3, <6>1
          <5>3. QED
            BY <2>4, <5>1, <5>2
        <4>3. QED
          BY <2>2, <4>1, <4>2 DEF At1, q
      <3>4. CASE i # 1
        <4>1. i - 1 \in 1 .. Len(q) /\ i - 1 <= Len(s) - 1 /\ q[i - 1] = s[i]
          BY <2>4, <3>4
        <4>2. ASSUME NEW j \in 1 .. Len(q), j > i - 1 PROVE q[j].kind \notin Covering
          <5>1. CASE j > Len(s) - 1
            BY <2>4, <2>5, <5>1
          <5>2. CASE j <= Len(s) - 1
            <6>1. j + 1 \in 1 .. Len(s) /\ q[j] = s[j + 1] /\ j + 1 > i
              BY <2>4, <4>2, <5>2
            <6>2. QED
              BY <3>2, <6>1
          <5>3. QED
            BY <2>4, <5>1, <5>2
        <4>3. QED
          BY <3>2, <4>1, <4>2 DEF At1, q
      <3>5. QED
        BY <3>3, <3>4
    <2>12. ClientParts(c)'
      <3>1. f # NoFile
        BY <1>1, <1>3, <1>4, <1>5, ClientViewAssumption DEF Joining
      <3>2. /\ \A m \in new : m.kind \notin Opening
            /\ \A m \in new : m.kind = "ICON" => "switched" \in past'[c]
            /\ \A m \in new : m.kind = "JOINED" =>
                 m.users \subseteq knows'[c] /\ (Haunted \/ (Running(c) /\ open[c] # NoFile))
        BY <1>17, <2>5
      <3>3. /\ gui'[c].ended = gui[c].ended /\ gui'[c].shown # NoFile /\ knows[c] \subseteq knows'[c]
            /\ open'[c] \in {open[c], NoFile}
        BY <1>2, <1>17, <2>2, <3>1
      <3>4. Joining(c)'
        BY <1>1, <1>17, <2>2, <2>3, <3>2, <3>3, JoiningStays
      <3>5. QED
        BY <2>6, <2>7, <2>8, <2>9, <2>10, <2>11, <3>4 DEF ClientParts
    <2>13. Viewed(c)' \subseteq Viewed(c)
      <3>1. ASSUME NEW i \in 1 .. Len(q)
            PROVE  q[i] \in new \/ \E j \in 1 .. Len(s) : s[j] = q[i]
        <4>1. CASE i > Len(s) - 1
          BY <2>4, <4>1
        <4>2. CASE i <= Len(s) - 1
          <5>1. i + 1 \in 1 .. Len(s) /\ q[i] = s[i + 1]
            BY <2>4, <4>2
          <5>2. QED
            BY <5>1, Zenon
        <4>3. QED
          BY <2>4, <4>1, <4>2
      <3>2. \A i \in 1 .. Len(q) : q[i].kind \in Opening => \E j \in 1 .. Len(s) : s[j] = q[i]
        BY <2>5, <3>1
      <3>3. \A i \in At1(c)' : down'[c][i].kind \in Opening => \E j \in At1(c) : down[c][j] = down'[c][i]
        BY <3>2 DEF At1, s, q
      <3>4. f \in Files => f \in Viewed(c)
        BY <1>3, <1>4, <1>5 DEF Viewed
      <3>5. QED
        BY <2>2, <3>3, <3>4 DEF Viewed
    <2>14. /\ \A m \in new : m.kind # "STRANGER"
           /\ g.token = gui[c].token /\ swept' \in [Clients -> SUBSET Windows]
      BY <1>1, <1>12, <1>15, <1>17, <2>5
    <2>15. QED
      BY <1>2, <1>15, <1>17, <2>1, <2>12, <2>13, <2>14, TakesViews
  <1>20. QED
    BY <1>18, <1>19

\* The notice that a user has come: the client shows a file by then.
LEMMA JoinedViews ==
  ASSUME IInv, WInv, NEW c \in Clients, ServerJoined(c)
  PROVE  WInv'
  <1>1. /\ ClientTyped /\ gui[c] \in Guis /\ down[c] \in Seq(Letters) /\ swept \in [Clients -> SUBSET Windows]
        /\ down \in [Clients -> Seq(Letters)] /\ ClientParts(c)
    BY DEF IInv, WInv, ClientTyped, WindowsTyped
  <1>2. /\ server = "up" /\ Running(c) /\ down[c] # << >> /\ gui[c].ended = "no"
        /\ Head(down[c]) = down[c][1] /\ down[c][1].kind = "JOINED" /\ 1 \in At1(c)
    <2>1. server = "up" /\ Running(c) /\ down[c] # << >> /\ Head(down[c]).kind = "JOINED"
      BY DEF ServerJoined, Arrives
    <2>2. Head(down[c]) = down[c][1] /\ 1 \in At1(c)
      BY <1>1, <2>1 DEF At1
    <2>3. QED
      BY <2>1, <2>2 DEF Running
  <1>3. /\ UNCHANGED <<manager, store, knows, server, history>>
        /\ UNCHANGED <<entry, open, inFile, rows, members, knows, sessions, born, server, swept, past>>
        /\ Remembers /\ Rest(c)
    <2>1. UNCHANGED <<manager, store, knows, server, history>>
      BY DEF ServerJoined
    <2>2. UNCHANGED <<entry, open, inFile, rows, members, knows, sessions, born, server, swept, past>>
      BY <2>1, LeavesServer
    <2>3. QED
      BY <1>1, <2>1, <2>2, PastKept DEF Rest
  <1>4. CASE gui[c].shown = NoFile
    <2>1. Haunted
      <3>1. \A j \in 1 .. 1 : j = 1
        OBVIOUS
      <3>2. "JOINED" \notin Opening
        BY DEF Opening
      <3>3. QED
        BY <1>1, <1>2, <1>4, <3>1, <3>2 DEF ClientParts, Joining
    <2>2. Excuse /\ Ends(c, "stranger") /\ "stranger" \in Endings \ {"no"}
      BY <1>4, <2>1 DEF ServerJoined, Haunted, Excuse, Endings
    <2>3. QED
      BY <1>3, <2>2, EndsViews
  <1>5. CASE gui[c].shown # NoFile
    <2>1. gui' = gui /\ down' = [down EXCEPT ![c] = Tail(@) \o Icons(c)]
      BY <1>5 DEF ServerJoined
    <2>2. down[c][1].users \subseteq knows[c] \/ "switched" \in past[c]
      BY <1>1, <1>2 DEF ClientParts, Joining
    <2>3. PICK m : m = Bare("ICON")
      OBVIOUS
    <2>4. m \in Letters /\ m.kind = "ICON"
      BY <2>3, Plainness DEF Kinds, FileIds, Bare, Msg
    <2>5. Icons(c) = << >> \/ (Icons(c) = <<m>> /\ "switched" \in past[c])
      BY <1>2, <2>2, <2>3 DEF Icons
    <2>6. down'[c] = Tail(down[c]) \o Icons(c) /\ \A k \in Clients \ {c} : down'[k] = down[k]
      BY <1>1, <2>1
    <2>7. PICK new \in {{}, {m}} : /\ Onward(down[c], down'[c], 1, new) /\ down'[c] \in Seq(Letters)
                                   /\ m \in new => "switched" \in past[c]
      <3>1. CASE Icons(c) = << >>
        <4>1. Onward(down[c], down'[c], 1, {}) /\ down'[c] \in Seq(Letters)
          BY <1>1, <1>2, <2>4, <2>6, <3>1, OnwardTail
        <4>2. QED
          BY <4>1
      <3>2. CASE Icons(c) = <<m>> /\ "switched" \in past[c]
        <4>1. Tail(down[c]) \in Seq(Letters)
          BY <1>1, <1>2
        <4>2. Tail(down[c]) \o <<m>> = Append(Tail(down[c]), m)
          BY <2>4, <4>1
        <4>3. Onward(down[c], down'[c], 1, {m}) /\ down'[c] \in Seq(Letters)
          <5>1. down'[c] = Append(Tail(down[c]), m)
            BY <2>6, <3>2, <4>2, Zenon
          <5>2. Onward(down[c], Append(Tail(down[c]), m), 1, {m}) /\ Append(Tail(down[c]), m) \in Seq(Letters)
            BY <1>1, <1>2, <2>4, OnwardTail
          <5>3. QED
            BY <5>1, <5>2, Zenon
        <4>4. QED
          BY <3>2, <4>3
      <3>3. QED
        BY <2>5, <3>1, <3>2
    <2>8. Takes(c, gui[c], new)
      BY <2>1, <2>6, <2>7 DEF Takes
    <2>9. /\ \A x \in new : /\ x.kind \notin Covering \cup {"STRANGER", "JOINED"}
                            /\ x.kind = "ICON" => "switched" \in past[c]
                            /\ gui[c].logged \/ x.kind \in Tokenless
          /\ down[c][1].kind \notin Opening \cup {"LOGIN"} /\ down[c][1].kind \notin Releasing
      BY <1>2, <2>4, <2>7 DEF Covering, Opening, Tokenless, Unasked, Releasing
    <2>10. Frozen(c)'
      <3>1. 1 = 1 => down[c][1].kind \notin Releasing
        BY <2>9
      <3>2. /\ gui'[c].frozen = gui[c].frozen /\ gui'[c].win = gui[c].win /\ swept[c] \subseteq swept'[c]
            /\ gui'[c].timer = gui[c].timer /\ gui'[c].conn = gui[c].conn /\ Frozen(c)
            /\ server' \in {server, "fallen"} /\ (Running(c)' => Running(c))
        BY <1>1, <1>3, <2>1 DEF ClientParts, Running
      <3>3. QED
        BY <1>1, <2>7, <3>1, <3>2, FrozenStays
    <2>11. QED
      BY <1>1, <1>2, <1>3, <2>8, <2>9, <2>10, PlainTaken
  <1>6. QED
    BY <1>4, <1>5

\* Every slot that takes a message keeps WInv.
LEMMA ReceivingViews ==
  ASSUME IInv, WInv, NEW c \in Clients, Receiving(c)
  PROVE  WInv'
  BY ReleaseViews, LoginViews, OpenedViews, AllDirsViews, JoinedViews, EndingViews DEF Receiving
-----------------------------------------------------------------------------
\* The answer to a change of the account covers a file only if one was on its way.
LEMMA SaveViews ==
  ASSUME IInv, WInv, NEW c \in Clients, EditSave(c)
  PROVE  WInv'
  <1>1. ClientTyped /\ ClientParts(c) /\ "covered" \in Causes
    BY DEF IInv, WInv, Causes
  <1>2. At(c, "Edit") /\ gui[c].logged /\ gui[c].win = "Edit"
    BY DEF EditSave, LoggedAt, At
  <1>3. PICK m : m = IF Valid(Holds(c)) THEN Bare("EDIT_USER") ELSE Fault
    OBVIOUS
  <1>4. m \in Letters /\ m.kind \in {"EDIT_USER", "ERROR"}
    <2>1. Bare("EDIT_USER") \in Letters /\ Bare("EDIT_USER").kind = "EDIT_USER"
      BY Plainness DEF Kinds, FileIds, Bare, Msg
    <2>2. Fault \in Letters /\ Fault.kind = "ERROR"
      BY PlainKinds
    <2>3. QED
      BY <1>3, <2>1, <2>2
  <1>5. PICK g : g = Freeze(gui[c])
    OBVIOUS
  <1>6. gui' = [gui EXCEPT ![c] = g] /\ Delivers(c, <<m>>, {}, Fault)
    BY <1>3, <1>5 DEF EditSave, Asks
  <1>7. Asked(c, g, {m}) /\ \E i \in 1 .. Len(down'[c]) : down'[c][i] = m
    BY <1>1, <1>4, <1>6, AskedOne
  <1>8. \E i \in At1(c)' : down'[c][i].kind \in Releasing
    BY <1>4, <1>7 DEF At1, Releasing
  <1>9. UNCHANGED <<entry, open, inFile, rows, members, knows, sessions, born, server, swept>>
    BY DEF EditSave, manager, store
  <1>10. /\ Remembers
         /\ past' = past \/ past' = [past EXCEPT ![c] = @ \cup {"covered"}]
    <2>1. past' = past \/ past' = [past EXCEPT ![c] = @ \cup {"covered"}]
      BY DEF EditSave
    <2>2. QED
      BY <1>1, <2>1, PastKept
  <1>11. Rest(c)
    BY <1>1, <1>9, <1>10 DEF Rest, ClientTyped
  <1>12. Covered(c)'
    <2>1. CASE Awaits(c, Opening)
      <3>1. "covered" \in past'[c]
        BY <1>1, <2>1 DEF EditSave, ClientTyped
      <3>2. QED
        BY <3>1 DEF Covered
    <2>2. CASE ~ Awaits(c, Opening)
      <3>1. down[c] \in Seq(Letters)
        BY <1>1 DEF ClientTyped
      <3>2. \A i \in At1(c) : down[c][i].kind \notin Opening
        BY <2>2, <3>1 DEF Awaits, At1
      <3>3. /\ Covered(c) /\ past[c] \subseteq past'[c] /\ (Haunted => Haunted') /\ open'[c] = open[c]
            /\ Running(c)
        BY <1>1, <1>2, <1>9, <1>10 DEF ClientParts, Remembers, Haunted, At
      <3>4. Haunted \/ open[c] = NoFile \/ past[c] \cap {"returned", "covered", "crossed"} # {}
        BY <1>2, <3>2, <3>3 DEF Covered
      <3>5. QED
        BY <3>3, <3>4 DEF Covered
    <2>3. QED
      BY <2>1, <2>2
  <1>13. /\ server = "up" /\ Running(c) /\ gui[c].conn = "made" /\ gui[c].win # "Connect"
         /\ gui[c].win \notin gui[c].frozen /\ server' \in {"up", "fallen"}
    BY <1>2, <1>9 DEF At
  <1>14. /\ \A x \in {m} : x.kind \notin Opening \cup {"LOGIN"} \cup Unasked
         /\ \A x \in {m} : gui[c].logged \/ x.kind = "ERROR"
    BY <1>2, <1>4 DEF Opening, Unasked
  <1>15. QED
    BY <1>5, <1>7, <1>8, <1>9, <1>10, <1>11, <1>12, <1>13, <1>14, RequestKeeps

\* A request that is refused and changes nothing.
LEMMA RefusedViews ==
  ASSUME IInv, WInv, NEW c \in Clients, NEW w \in Windows \ {"Connect"}, At(c, w),
         gui' = [gui EXCEPT ![c] = Freeze(gui[c])], Delivers(c, <<Fault>>, {}, Fault),
         UNCHANGED <<entry, open, inFile, rows, members, knows, sessions, born, server, swept, past>>
  PROVE  WInv'
  <1>1. Remembers /\ Rest(c)
    BY PastKept DEF Rest, IInv
  <1>2. Delivers(c, IF FALSE THEN <<Bare("DIALOG")>> ELSE <<Fault>>, {}, Fault)
    OBVIOUS
  <1>3. PICK B \in BOOLEAN : B = FALSE
    OBVIOUS
  <1>4. Delivers(c, IF B THEN <<Bare("DIALOG")>> ELSE <<Fault>>, {}, Fault)
    BY <1>2, <1>3
  <1>5. PICK g : g = Freeze(gui[c])
    OBVIOUS
  <1>6. QED
    BY <1>1, <1>3, <1>4, <1>5, InquiryViews
-----------------------------------------------------------------------------
\* What makes up WInv after a step of c that the others are told of at most.
LEMMA Gathers ==
  ASSUME IInv, WInv, NEW c \in Clients, Aside(c), Remembers, server' \in {server, "fallen"},
         ClientParts(c)', WindowsTyped', SeatInv', MemberInv', StrangerInv'
  PROVE  WInv'
  <1>1. Haunted => Haunted'
    BY DEF Haunted, Remembers
  <1>2. \A k \in Clients \ {c} : ClientParts(k)'
    BY <1>1, AsideKeeps DEF IInv, WInv, ClientTyped
  <1>3. QED
    BY <1>2 DEF WInv

\* Nobody is sent what ends an editor.
LEMMA NoStranger ==
  ASSUME IInv, WInv, NEW c \in Clients, Still(c), Remembers,
         gui'[c].ended = gui[c].ended, NEW new, Onward(down[c], down'[c], 0, new), down'[c] \in Seq(Letters),
         \A m \in new : m.kind # "STRANGER"
  PROVE  StrangerInv'
  <1>1. /\ ClientTyped /\ Aside(c) /\ StrangerInv /\ down[c] \in Seq(Letters)
    BY DEF IInv, WInv, Still, ClientTyped
  <1>2. \A k \in Clients \ {c} :
          /\ gui'[k].ended = gui[k].ended
          /\ (\E i \in At1(k)' : down'[k][i].kind = "STRANGER") => \E i \in At1(k) : down[k][i].kind = "STRANGER"
    BY <1>1, AsideViews
  <1>3. ASSUME NEW i \in At1(c)', down'[c][i].kind = "STRANGER"
        PROVE  \E j \in At1(c) : down[c][j].kind = "STRANGER"
    <2>1. \A l \in 1 .. Len(down'[c]) : down'[c][l] \in new \/ \E j \in 1 .. Len(down[c]) : down[c][j] = down'[c][l]
      BY <1>1, OnwardOld
    <2>2. i \in 1 .. Len(down'[c]) /\ down'[c][i] \notin new
      BY <1>3 DEF At1
    <2>3. QED
      BY <1>3, <2>1, <2>2 DEF At1
  <1>4. QED
    BY <1>1, <1>2, <1>3, StrangersStay
-----------------------------------------------------------------------------
\* What the others are told.
LEMMA ToldOthers ==
  ASSUME ClientTyped, NEW c \in Clients, NEW k \in Clients \ {c}, NEW answers, NEW S, NEW m \in Letters,
         Delivers(c, answers, S, m)
  PROVE  /\ down'[k] \in Seq(Letters) /\ Onward(down[k], down'[k], 0, {m})
         /\ down'[k] = down[k] \/ (k \in S /\ Running(k))
  <1>1. down[k] \in Seq(Letters)
    BY DEF ClientTyped
  <1>2. down'[k] = down[k] \/ (down'[k] = Append(down[k], m) /\ k \in S /\ Running(k))
    BY DEF Delivers
  <1>3. CASE down'[k] = down[k]
    BY <1>1, <1>3 DEF Onward
  <1>4. CASE down'[k] = Append(down[k], m) /\ k \in S /\ Running(k)
    BY <1>1, <1>4, Onwards
  <1>5. QED
    BY <1>2, <1>3, <1>4

\* Who is sent anything is connected.
LEMMA LinkedMade ==
  ASSUME WInv, NEW k \in Clients, Running(k), entry[k] # 0 \/ \E f \in Files : k \in inFile[f]
  PROVE  gui[k].conn = "made"
  BY DEF WInv, ClientParts, Linked

\* Those that a relay reaches have an entry, and a row of the file.
LEMMA ToldSeated ==
  ASSUME IInv, NEW c \in Clients, NEW f \in Files, NEW r \in Relayed(c, f), NEW T \in Told(c, f, r)
  PROVE  /\ \A k \in T : /\ k \in Clients \ {c} /\ k \in inFile[f] /\ entry[k] # 0
                         /\ sessions[entry[k]].user \in rows[f]
         /\ r = "done" => T = Others(c, f)
  <1>1. inFile[f] \subseteq Clients
    BY DEF IInv, ServerTyped
  <1>2. T \subseteq Others(c, f) \ (Ghosts(c, f) \cup Foreign(c, f))
    <2>1. CASE r = "done"
      BY <2>1 DEF Relayed, Told
    <2>2. CASE r # "done"
      BY <2>2 DEF Told
    <2>3. QED
      BY <2>1, <2>2
  <1>3. QED
    BY <1>1, <1>2 DEF Told, Others, Ghosts, Foreign

\* The one who asks is answered once or not at all.
LEMMA Answered ==
  ASSUME ClientTyped, NEW c \in Clients, NEW m \in Letters, NEW S, NEW n
  PROVE  /\ Delivers(c, <<m>>, S, n) => /\ down'[c] \in Seq(Letters) /\ Onward(down[c], down'[c], 0, {m})
                                        /\ \E i \in At1(c)' : down'[c][i] = m /\ i = Len(down'[c])
         /\ Delivers(c, << >>, S, n) => /\ down'[c] \in Seq(Letters) /\ Onward(down[c], down'[c], 0, {})
                                        /\ down'[c] = down[c]
  <1>1. down[c] \in Seq(Letters)
    BY DEF ClientTyped
  <1>2. ASSUME Delivers(c, <<m>>, S, n)
        PROVE  /\ down'[c] \in Seq(Letters) /\ Onward(down[c], down'[c], 0, {m})
               /\ \E i \in At1(c)' : down'[c][i] = m /\ i = Len(down'[c])
    <2>1. down'[c] = down[c] \o <<m>>
      BY <1>2 DEF Delivers
    <2>2. /\ down[c] \o <<m>> = Append(down[c], m) /\ Append(down[c], m) \in Seq(Letters)
          /\ Len(Append(down[c], m)) \in 1 .. Len(Append(down[c], m))
      BY <1>1
    <2>3. /\ Onward(down[c], Append(down[c], m), 0, {m})
          /\ Append(down[c], m)[Len(Append(down[c], m))] = m
      BY <1>1, Onwards
    <2>4. QED
      BY <2>1, <2>2, <2>3 DEF At1
  <1>3. ASSUME Delivers(c, << >>, S, n)
        PROVE  down'[c] = down[c] /\ Onward(down[c], down'[c], 0, {})
    <2>1. down'[c] = down[c] \o << >> /\ down[c] \o << >> = down[c]
      BY <1>1, <1>3 DEF Delivers
    <2>2. QED
      BY <1>1, <2>1, Onwards
  <1>4. QED
    BY <1>1, <1>2, <1>3

\* Whoever shows a file and reaches it is known to those that have it open.
LEMMA KnownToAll ==
  ASSUME IInv, WInv, ~ Excuse, NEW c \in Clients, Running(c), gui[c].win = "Editor",
         NEW f, f = gui[c].fileId, Reaches(c, f),
         NEW k \in Clients, k \in inFile[f], entry[k] # 0
  PROVE  UserOf(c) \in knows[k]
  <1>1. f \in Files /\ rows[f] # {}
    BY DEF IInv, ClientTyped, Guis, FileIds, Reaches
  <1>2. ~ Haunted /\ "crossed" \notin past[c] /\ "linked" \notin past[c]
    BY DEF Excuse, Haunted
  <1>3. Named(c)
    BY DEF WInv, ClientParts
  <1>4. f \in Viewed(c)
    BY <1>1, <1>2, <1>3 DEF Named, Viewed
  <1>5. UserOf(c) \in members[f]
    BY <1>2, <1>4 DEF WInv, MemberInv, Reaches
  <1>6. open[k] = f
    BY <1>1, <1>2 DEF IInv, Seated, Haunted
  <1>7. members[f] \subseteq knows[k]
    BY <1>1, <1>2, <1>6 DEF WInv, SeatInv
  <1>8. QED
    BY <1>5, <1>7

\* An edit that is passed on ends only editors that do not know who wrote it.
LEMMA PassesViews ==
  ASSUME IInv, WInv, NEW c \in Clients, LoggedAt(c, "Editor"), NEW f, f = gui[c].fileId, Reaches(c, f),
         gui' = gui, PassOn(c, f),
         UNCHANGED <<entry, open, inFile, rows, members, knows, sessions, born, swept, past>>
  PROVE  WInv'
  <1>1. ClientTyped /\ ClientParts(c) /\ Remembers
    BY PastKept DEF IInv, WInv
  <1>2. /\ server = "up" /\ Running(c) /\ gui[c].conn = "made" /\ gui[c].win = "Editor"
        /\ gui[c].win \notin gui[c].frozen /\ gui[c].logged
    BY DEF LoggedAt, At
  <1>3. PICK r, T : /\ r \in Relayed(c, f) /\ T \in Told(c, f, r)
                    /\ server' = IF r = "fallen" THEN "fallen" ELSE server
                    /\ Delivers(c, IF r = "refused" THEN <<Fault>> ELSE << >>, NotListing(UserOf(c), T), Stranger)
    BY DEF PassOn
  <1> PICK S : S = NotListing(UserOf(c), T)
    OBVIOUS
  <1>4. \A k \in S : k \in Clients \ {c} /\ k \in inFile[f] /\ entry[k] # 0 /\ UserOf(c) \notin knows[k]
    <2>1. f \in Files
      BY <1>1 DEF ClientTyped, Guis, FileIds, Reaches
    <2>2. \A k \in T : k \in Clients \ {c} /\ k \in inFile[f] /\ entry[k] # 0
      BY <1>3, <2>1, ToldSeated
    <2>3. QED
      BY <2>2 DEF NotListing
  <1>5. /\ Stranger \in Letters /\ Stranger.kind = "STRANGER" /\ Fault \in Letters
        /\ \A k \in Clients : Stranger \in Notices(k)
    <2>1. Stranger \in Letters /\ Stranger.kind = "STRANGER" /\ Fault \in Letters
      BY Plainness DEF Kinds, FileIds, Stranger, Bare, Msg
    <2>2. QED
      BY <2>1 DEF Notices
  <1>6. ASSUME NEW k \in Clients \ {c}
        PROVE  /\ down'[k] \in Seq(Letters) /\ Onward(down[k], down'[k], 0, {Stranger})
               /\ down'[k] = down[k] \/ (k \in S /\ Running(k))
    BY <1>1, <1>3, <1>5, ToldOthers
  <1>7. PICK new : /\ new \subseteq {Fault}
                   /\ down'[c] \in Seq(Letters) /\ Onward(down[c], down'[c], 0, new)
    <2>1. CASE r = "refused"
      <3>1. Delivers(c, <<Fault>>, S, Stranger)
        BY <1>3, <2>1
      <3>2. QED
        BY <1>1, <1>5, <3>1, Answered
    <2>2. CASE r # "refused"
      <3>1. Delivers(c, << >>, S, Stranger)
        BY <1>3, <2>2
      <3>2. QED
        BY <1>1, <1>5, <3>1, Answered
    <2>3. QED
      BY <2>1, <2>2
  <1>8. \A m \in new : /\ m.kind = "ERROR" /\ m.kind \notin Covering /\ m.kind \notin Opening
                       /\ m.kind # "LOGIN" /\ m.kind # "GET" /\ m.kind # "STRANGER"
                       /\ m.kind \notin Opening \cup Unasked
    <2>1. Fault.kind = "ERROR" /\ Fault.kind \notin Covering \cup Unasked
      BY PlainKinds
    <2>2. QED
      BY <1>7, <2>1 DEF Covering, Opening, Unasked
  <1>9. Aside(c)
    <2>1. ASSUME NEW k \in Clients \ {c}
          PROVE  /\ down'[k] = down[k] \/ (Running(k) /\ entry[k] # 0 /\ gui[k].conn = "made")
                 /\ Onward(down[k], down'[k], 0, Notices(k))
      <3>1. down'[k] = down[k] \/ (Running(k) /\ entry[k] # 0)
        BY <1>4, <1>6
      <3>2. Onward(down[k], down'[k], 0, Notices(k))
        BY <1>5, <1>6 DEF Onward
      <3>3. QED
        BY <3>1, <3>2, LinkedMade
    <2>2. QED
      BY <1>6, <2>1 DEF Aside
  <1>10. ClientParts(c)'
    <2>1. PICK g : g = gui[c]
      OBVIOUS
    <2>2. Asker(c, g) /\ g.fileId = gui[c].fileId /\ g.frozen = gui[c].frozen
      BY <1>1, <2>1, Askers
    <2>3. gui'[c] = g /\ server' \in {"up", "fallen"} /\ gui[c].win # "Connect"
      BY <1>2, <1>3, <2>1
    <2>4. /\ \A m \in new : m.kind # "LOGIN" /\ (m.kind \in Opening => gui[c].token = entry[c])
          /\ \A m \in new : gui[c].logged \/ m.kind = "ERROR"
          /\ \A m \in new : m.kind # "GET"
          /\ \A m \in new : m.kind \notin Covering
          /\ knows[c] \subseteq knows'[c] /\ \A m \in new : m.kind \notin Opening \cup Unasked
      BY <1>8
    <2>5. /\ open'[c] \in {open[c], NoFile} /\ (Haunted => Haunted') /\ past[c] \subseteq past'[c]
          /\ swept'[c] = swept[c] /\ entry'[c] = entry[c]
          /\ entry[c] # 0 => sessions'[entry[c]].active = sessions[entry[c]].active
      BY DEF Haunted
    <2>6. QED
      BY <1>1, <1>2, <1>7, <2>2, <2>3, <2>4, <2>5, RequestParts
  <1>11. \A k \in Clients : Viewed(k)' \subseteq Viewed(k)
    <2>1. \A k \in Clients \ {c} : Viewed(k)' \subseteq Viewed(k)
      BY <1>1, <1>9, AsideViews
    <2>2. \A m \in new : m.kind \notin Opening
      BY <1>8
    <2>3. Viewed(c)' \subseteq Viewed(c)
      BY <1>1, <1>7, <2>2, ViewedStays DEF ClientTyped
    <2>4. QED
      BY <2>1, <2>3
  <1>12. /\ (Haunted => Haunted') /\ SeatInv /\ MemberInv /\ StrangerInv /\ WindowsTyped
         /\ server' \in {server, "fallen"}
    BY <1>3 DEF Haunted, WInv
  <1>13. SeatInv'
    BY <1>12, SeatsStay
  <1>14. MemberInv'
    <2>1. \A k \in Clients : Running(k)' => /\ Running(k) /\ Viewed(k)' \subseteq Viewed(k)
                                            /\ gui'[k].token = gui[k].token \/ Viewed(k)' = {}
      BY <1>11 DEF Running
    <2>2. QED
      BY <1>1, <1>12, <2>1, MembersStay
  <1>15. StrangerInv'
    <2>1. ASSUME ~ Excuse, NEW k \in Clients, NEW i \in At1(k)', down'[k][i].kind = "STRANGER"
          PROVE  \E j \in At1(k) : down[k][j].kind = "STRANGER"
      <3>1. CASE k = c
        <4>1. \A l \in 1 .. Len(down'[c]) : down'[c][l] \in new \/ \E j \in 1 .. Len(down[c]) : down[c][j] = down'[c][l]
          BY <1>1, <1>7, OnwardOld DEF ClientTyped
        <4>2. QED
          BY <1>8, <2>1, <3>1, <4>1 DEF At1
      <3>2. CASE k # c
        <4>1. k \notin S
          BY <1>2, <1>4, <2>1, KnownToAll
        <4>2. down'[k] = down[k]
          BY <1>6, <3>2, <4>1
        <4>3. QED
          BY <2>1, <4>2 DEF At1
      <3>3. QED
        BY <3>1, <3>2
    <2>2. QED
      BY <1>1, <1>12, <2>1, StrangersStay
  <1>16. WindowsTyped'
    BY <1>12 DEF WindowsTyped
  <1>17. QED
    BY <1>1, <1>9, <1>10, <1>12, <1>13, <1>14, <1>15, <1>16, Gathers

\* An edit, or a cursor that moves, is passed on or refused.
LEMMA TypesViews ==
  ASSUME IInv, WInv, NEW c \in Clients, EditorEdit(c) \/ EditorMove(c)
  PROVE  WInv'
  <1>1. PICK f \in FileIds, taken \in BOOLEAN :
          LoggedAt(c, "Editor") /\ f = gui[c].fileId /\ (taken => Reaches(c, f)) /\ Types(c, f, taken)
    <2>0. gui[c].fileId \in FileIds
      BY DEF IInv, ClientTyped, Guis
    <2>1. CASE EditorEdit(c)
      <3>1. (Reaches(c, gui[c].fileId) /\ entry[c] # 0 /\ open[c] = gui[c].fileId) \in BOOLEAN
        OBVIOUS
      <3>2. QED
        BY <2>0, <2>1, <3>1 DEF EditorEdit
    <2>2. CASE EditorMove(c)
      <3>1. Reaches(c, gui[c].fileId) \in BOOLEAN
        BY DEF Reaches
      <3>2. QED
        BY <2>0, <2>2, <3>1 DEF EditorMove
    <2>3. QED
      BY <2>1, <2>2
  <1>2. /\ UNCHANGED <<entry, open, inFile, rows, members, knows, sessions, born, swept, past>> /\ gui' = gui
    BY <1>1 DEF Types, manager, store, history
  <1>3. CASE taken
    BY <1>1, <1>2, <1>3, PassesViews DEF Types
  <1>4. CASE ~ taken
    <2>1. /\ Delivers(c, <<Fault>>, {}, Fault) /\ UNCHANGED server /\ At(c, "Editor") /\ gui[c].logged
      BY <1>1, <1>4 DEF Types, LoggedAt
    <2>2. PICK B \in BOOLEAN : B = FALSE
      OBVIOUS
    <2>3. Delivers(c, IF B THEN <<Bare("DIALOG")>> ELSE <<Fault>>, {}, Fault)
      BY <2>1, <2>2
    <2>4. gui' = [gui EXCEPT ![c] = gui[c]] /\ "Editor" \in Windows \ {"Connect"}
      BY <1>2 DEF IInv, ClientTyped, Windows
    <2>5. Remembers /\ Rest(c)
      BY <1>2, PastKept DEF Rest, IInv
    <2>6. QED
      BY <1>2, <2>1, <2>2, <2>3, <2>4, <2>5, InquiryViews
  <1>5. QED
    BY <1>3, <1>4
-----------------------------------------------------------------------------
\* A session that is valid is that of the client's entry.
LEMMA TokenEntry ==
  ASSUME IInv, NEW c \in Clients, Valid(Holds(c))
  PROVE  /\ entry[c] = gui[c].token /\ entry[c] # 0 /\ entry[c] \in 1 .. Len(sessions)
         /\ UserOf(c) = sessions[entry[c]].user /\ UserOf(c) \in Users
  <1>1. gui[c].token \in Held(c) /\ gui[c].token # 0 /\ sessions[gui[c].token].active
    BY DEF Held, Valid, Holds
  <1>2. entry[c] = gui[c].token /\ entry[c] # 0
    BY <1>1 DEF IInv, Tokens
  <1>3. entry[c] \in 0 .. Len(sessions) /\ Len(sessions) \in Nat /\ sessions \in Seq(Sessions)
    BY DEF IInv, Tokens, ServerTyped
  <1>4. entry[c] \in 1 .. Len(sessions)
    BY <1>2, <1>3
  <1>5. sessions[entry[c]] \in Sessions
    BY <1>3, <1>4
  <1>6. QED
    BY <1>2, <1>4, <1>5 DEF UserOf, Holds, Sessions

\* Two clients with entries are of different users.
LEMMA OtherUser ==
  ASSUME IInv, NEW c \in Clients, NEW k \in Clients \ {c}, Valid(Holds(c)), entry[k] # 0
  PROVE  sessions[entry[k]].user # UserOf(c)
  BY TokenEntry DEF IInv, SessionsMatch

\* A removal that is carried out: those who lose the file do not have it open any more.
LEMMA RemovedViews ==
  ASSUME IInv, WInv, NEW c \in Clients, NEW w \in {"Browser", "Editor"}, LoggedAt(c, w), NEW f \in FileIds,
         NEW g, g = gui[c] \/ g = Freeze(gui[c]), Remove(c, f, g), Reaches(c, f)
  PROVE  WInv'
  <1>1. ClientTyped /\ ServerTyped /\ ClientParts(c) /\ f \in Files /\ Valid(Holds(c))
    BY DEF IInv, WInv, Reaches, FileIds
  <1>2. /\ server = "up" /\ Running(c) /\ gui[c].conn = "made" /\ gui[c].win = w
        /\ gui[c].win \notin gui[c].frozen /\ gui[c].logged
    BY DEF LoggedAt, At
  <1>3. entry[c] # 0
    BY <1>1, TokenEntry
  <1>4. PICK u : u = UserOf(c)
    OBVIOUS
  <1>5. PICK leaves \in BOOLEAN : leaves = (open[c] = f)
    OBVIOUS
  <1>6. PICK linkers : linkers = IF u = Owner[f] THEN rows[f] \ {u} ELSE {}
    OBVIOUS
  <1>7. PICK told : told = {k \in Clients : entry[k] # 0 /\ sessions[entry[k]].user \in linkers}
    OBVIOUS
  <1>8. /\ gui' = [gui EXCEPT ![c] = g]
        /\ rows' = [rows EXCEPT ![f] = IF u = Owner[f] THEN {} ELSE @ \ {u}]
        /\ inFile' = [inFile EXCEPT ![f] = IF leaves THEN @ \ {c} ELSE @]
        /\ members' = [members EXCEPT ![f] = IF leaves THEN @ \ {u} ELSE @]
        /\ open' = [k \in Clients |->
             IF (k = c /\ leaves) \/ (k \in inFile[f] /\ linkers # {}) THEN NoFile ELSE open[k]]
        /\ Delivers(c, <<Bare("DELETE_FILE")>>, told, Bare("FILE_DELETED"))
    BY <1>3, <1>4, <1>5, <1>6, <1>7 DEF Remove
  <1>9. UNCHANGED <<entry, sessions, born, knows, server, swept, past>> /\ Remembers
    BY <1>1, PastKept DEF Remove, history
  <1>10. WindowsTyped /\ SeatInv /\ MemberInv
    BY DEF WInv
  <1>11. /\ rows \in [Files -> SUBSET Users] /\ inFile \in [Files -> SUBSET Clients]
         /\ members \in [Files -> SUBSET Users] /\ open \in [Clients -> FileIds]
    BY <1>1, <1>10 DEF ServerTyped, WindowsTyped
  <1>12. PICK m : m = Bare("DELETE_FILE")
    OBVIOUS
  <1>13. /\ m \in Letters /\ m.kind = "DELETE_FILE" /\ m.kind \in Releasing /\ m.kind \notin Covering \cup Unasked
         /\ Bare("FILE_DELETED") \in Letters /\ \A k \in Clients : Bare("FILE_DELETED") \in Tidings(k)
    <2>1. Bare("FILE_DELETED") \in Letters /\ Bare("FILE_DELETED").kind = "FILE_DELETED"
      BY Plainness DEF Kinds, FileIds, Bare, Msg
    <2>2. QED
      BY <1>12, <2>1, PlainKinds DEF Notices, Tidings
  <1>14. /\ down'[c] \in Seq(Letters) /\ \E new : new = {m} /\ Onward(down[c], down'[c], 0, new)
         /\ \E i \in At1(c)' : down'[c][i] = m /\ i = Len(down'[c])
    BY <1>1, <1>8, <1>12, <1>13, Answered
  <1> PICK new : new = {m} /\ Onward(down[c], down'[c], 0, new)
    BY <1>14
  <1>15. ASSUME NEW k \in Clients \ {c}
         PROVE  /\ down'[k] \in Seq(Letters) /\ Onward(down[k], down'[k], 0, Tidings(k))
                /\ down'[k] = down[k] \/ (k \in told /\ Running(k))
    <2>1. /\ down'[k] \in Seq(Letters) /\ Onward(down[k], down'[k], 0, {Bare("FILE_DELETED")})
          /\ down'[k] = down[k] \/ (k \in told /\ Running(k))
      BY <1>1, <1>8, <1>13, ToldOthers
    <2>2. QED
      BY <1>13, <2>1 DEF Onward
  <1>16. \A k \in Clients : open'[k] \in {open[k], NoFile}
    BY <1>8
  <1>17. Still(c)
    <2>1. ASSUME NEW k \in Clients \ {c}
          PROVE  /\ down'[k] = down[k] \/ (Running(k) /\ entry[k] # 0 /\ gui[k].conn = "made")
                 /\ Onward(down[k], down'[k], 0, Notices(k))
                 /\ \A h \in Files : k \in inFile'[h] => k \in inFile[h]
      <3>1. down'[k] = down[k] \/ (Running(k) /\ entry[k] # 0)
        BY <1>7, <1>15
      <3>2. Onward(down[k], down'[k], 0, Notices(k))
        BY <1>15 DEF Onward, Tidings
      <3>3. \A h \in Files : k \in inFile'[h] => k \in inFile[h]
        BY <1>8, <1>11
      <3>4. QED
        BY <3>1, <3>2, <3>3, LinkedMade
    <2>2. \A k \in Clients \ {c} : gui'[k] = gui[k]
      BY <1>1, <1>8 DEF ClientTyped
    <2>3. QED
      BY <1>9, <1>15, <1>16, <2>1, <2>2 DEF Still, Aside
  <1>18. gui'[c] = g
    BY <1>1, <1>8 DEF ClientTyped
  <1>19. Asker(c, g) /\ g.fileId = gui[c].fileId
    BY <1>1, Askers
  <1>20. ClientParts(c)'
    <2>1. /\ \A x \in new : x.kind # "LOGIN" /\ (x.kind \in Opening => gui[c].token = entry[c])
          /\ \A x \in new : gui[c].logged \/ x.kind = "ERROR"
          /\ \A x \in new : x.kind # "GET"
          /\ \A x \in new : x.kind \notin Covering
          /\ knows[c] \subseteq knows'[c] /\ \A x \in new : x.kind \notin Opening \cup Unasked
      BY <1>2, <1>9, <1>13 DEF Opening, Covering
    <2>2. \E i \in At1(c)' : down'[c][i].kind \in Releasing
      BY <1>13, <1>14
    <2>3. /\ open'[c] \in {open[c], NoFile} /\ (Haunted => Haunted') /\ past[c] \subseteq past'[c]
          /\ swept'[c] = swept[c] /\ entry'[c] = entry[c]
          /\ entry[c] # 0 => sessions'[entry[c]].active = sessions[entry[c]].active
      BY <1>9, <1>16 DEF Haunted
    <2>4. server' \in {"up", "fallen"} /\ gui[c].win # "Connect"
      BY <1>2, <1>9
    <2>5. QED
      BY <1>1, <1>2, <1>14, <1>18, <1>19, <2>1, <2>2, <2>3, <2>4, RequestParts
  <1>21. WindowsTyped'
    BY <1>8, <1>9, <1>10, <1>11 DEF WindowsTyped
  <1>22. /\ \A h \in Files : rows'[h] \subseteq rows[h] /\ members'[h] \subseteq members[h]
         /\ \A h \in Files \ {f} : rows'[h] = rows[h] /\ members'[h] = members[h] /\ inFile'[h] = inFile[h]
         /\ u \notin rows'[f] /\ members[f] \ {u} \subseteq members'[f] /\ inFile[f] \ {c} \subseteq inFile'[f]
         /\ u # Owner[f] => rows[f] \ {u} \subseteq rows'[f]
    BY <1>1, <1>8, <1>11
  <1>23. SeatInv'
    <2>1. SUFFICES ASSUME ~ Haunted, NEW k \in Clients, NEW h \in Files, open'[k] = h
                   PROVE  /\ k \in inFile'[h] /\ entry[k] # 0
                          /\ sessions[entry[k]].user \in rows'[h] \cap members'[h]
                          /\ members'[h] \subseteq knows[k]
      BY <1>9 DEF SeatInv, Haunted
    <2>2. h # NoFile
      BY ClientViewAssumption
    <2>3. open[k] = h
      BY <1>16, <2>1, <2>2
    <2>4. /\ k \in inFile[h] /\ entry[k] # 0 /\ sessions[entry[k]].user \in rows[h] \cap members[h]
          /\ members[h] \subseteq knows[k]
      BY <1>10, <2>1, <2>3 DEF SeatInv
    <2>5. CASE h # f
      BY <1>22, <2>4, <2>5
    <2>6. CASE h = f
      <3>1. k # c
        BY <1>5, <1>8, <2>1, <2>2, <2>3, <2>6
      <3>2. sessions[entry[k]].user # u
        BY <1>1, <1>4, <2>4, <3>1, OtherUser
      <3>3. u # Owner[f]
        BY <1>6, <1>8, <2>1, <2>2, <2>4, <2>6, <3>2
      <3>4. QED
        BY <1>22, <2>4, <2>6, <3>1, <3>2, <3>3
    <2>7. QED
      BY <2>5, <2>6
  <1>24. \A k \in Clients : Viewed(k)' \subseteq Viewed(k) /\ gui'[k].token = gui[k].token /\ (Running(k)' <=> Running(k))
    <2>1. \A k \in Clients \ {c} :
            Viewed(k)' \subseteq Viewed(k) /\ gui'[k].token = gui[k].token /\ (Running(k)' <=> Running(k))
      BY <1>1, <1>17, AsideViews DEF Still
    <2>2. \A x \in new : x.kind \notin Opening
      BY <1>13 DEF Covering
    <2>3. gui'[c].win = gui[c].win /\ gui'[c].shown = gui[c].shown
      BY <1>18, <1>19 DEF Asker
    <2>4. Viewed(c)' \subseteq Viewed(c)
      BY <1>1, <1>14, <2>2, <2>3, ViewedStays DEF ClientTyped
    <2>5. gui'[c].token = gui[c].token /\ (Running(c)' <=> Running(c))
      BY <1>18, <1>19 DEF Asker, Running
    <2>6. QED
      BY <2>1, <2>4, <2>5
  <1>25. MemberInv'
    <2>1. SUFFICES ASSUME NEW k \in Clients, Running(k)', NEW h \in Viewed(k)'
                   PROVE  /\ h \in born'
                          /\ Valid(Holds(k))' /\ UserOf(k)' \in rows'[h] =>
                               UserOf(k)' \in members'[h] \/ Haunted' \/ "linked" \in past'[k]
      BY DEF MemberInv
    <2>2. h \in Viewed(k) /\ Running(k) /\ h \in Files
      BY <1>24, <2>1 DEF Viewed
    <2>3. (Valid(Holds(k))' <=> Valid(Holds(k))) /\ UserOf(k)' = UserOf(k)
      BY <1>9, <1>24 DEF Valid, Holds, UserOf
    <2>4. /\ h \in born
          /\ Valid(Holds(k)) /\ UserOf(k) \in rows[h] =>
               UserOf(k) \in members[h] \/ Haunted \/ "linked" \in past[k]
      BY <1>10, <2>2 DEF MemberInv
    <2>5. Haunted' <=> Haunted
      BY <1>9 DEF Haunted
    <2>6. CASE h = f
      BY <1>9, <1>22, <2>2, <2>3, <2>4, <2>5, <2>6
    <2>7. CASE h # f
      BY <1>9, <1>22, <2>2, <2>3, <2>4, <2>5, <2>7
    <2>8. QED
      BY <2>6, <2>7
  <1>26. StrangerInv'
    <2>1. gui'[c].ended = gui[c].ended
      BY <1>18, <1>19 DEF Asker
    <2>2. \A x \in new : x.kind # "STRANGER"
      BY <1>13 DEF Unasked
    <2>3. QED
      BY <1>9, <1>14, <1>17, <2>1, <2>2, NoStranger
  <1>27. QED
    BY <1>9, <1>17, <1>20, <1>21, <1>23, <1>25, <1>26, Gathers DEF Still

\* A file is removed from the browser or the editor.
LEMMA RemoveViews ==
  ASSUME IInv, WInv, NEW c \in Clients, EditorRemove(c) \/ \E f \in Files : DeleteFile(c, f)
  PROVE  WInv'
  <1>1. PICK w \in {"Browser", "Editor"}, f \in FileIds, g \in Guis :
          /\ LoggedAt(c, w) /\ Remove(c, f, g) /\ (g = gui[c] \/ g = Freeze(gui[c]))
    <2>1. gui[c] \in Guis /\ Freeze(gui[c]) \in Guis /\ gui[c].fileId \in FileIds
      BY GuiOps DEF IInv, ClientTyped, Guis
    <2>2. QED
      BY <2>1 DEF EditorRemove, DeleteFile, FileIds
  <1>2. CASE Reaches(c, f)
    BY <1>1, <1>2, RemovedViews
  <1>3. CASE ~ Reaches(c, f)
    <2>1. /\ Delivers(c, <<Fault>>, {}, Fault) /\ gui' = [gui EXCEPT ![c] = g]
          /\ UNCHANGED <<rows, inFile, members, open, entry, sessions, born, knows, server, swept, past>>
      BY <1>1, <1>3 DEF Remove, history
    <2>2. PICK B \in BOOLEAN : B = FALSE
      OBVIOUS
    <2>3. Delivers(c, IF B THEN <<Bare("DIALOG")>> ELSE <<Fault>>, {}, Fault)
      BY <2>1, <2>2
    <2>4. w \in Windows \ {"Connect"} /\ At(c, w)
      BY <1>1 DEF Windows, LoggedAt
    <2>5. Remembers /\ Rest(c)
      BY <2>1, PastKept DEF Rest, IInv
    <2>6. QED
      BY <1>1, <2>1, <2>2, <2>3, <2>4, <2>5, InquiryViews
  <1>4. QED
    BY <1>2, <1>3
-----------------------------------------------------------------------------
\* A session that is added touches none of those there are.
LEMMA Grown ==
  ASSUME IInv, NEW u \in Users, sessions' = NewSession(u)
  PROVE  /\ Len(sessions) \in Nat /\ sessions'[Len(sessions) + 1].active
         /\ \A t \in 1 .. Len(sessions) : sessions'[t] = sessions[t]
         /\ \A k \in Clients : gui[k].token \in 0 .. Len(sessions) /\ entry[k] \in 0 .. Len(sessions)
  <1>1. sessions \in Seq(Sessions)
    BY DEF IInv, ServerTyped
  <1>2. PICK s : s = [user |-> u, active |-> TRUE]
    OBVIOUS
  <1>3. s \in Sessions /\ s.active
    BY <1>2 DEF Sessions
  <1>4. sessions' = Append(sessions, s)
    BY <1>2 DEF NewSession
  <1>5. /\ Len(sessions) \in Nat /\ sessions'[Len(sessions) + 1] = s
        /\ \A t \in 1 .. Len(sessions) : sessions'[t] = sessions[t]
    BY <1>1, <1>3, <1>4
  <1>6. \A k \in Clients : gui[k].token \in 0 .. Len(sessions) /\ entry[k] \in 0 .. Len(sessions)
    BY DEF IInv, Tokens, Held
  <1>7. QED
    BY <1>3, <1>5, <1>6

\* The client that is signed in gets an entry, and the answer that says which.
LEMMA SignsIn ==
  ASSUME IInv, WInv, NEW c \in Clients, NEW w \in {"Login", "Registration"}, At(c, w),
         NEW u \in Users, sessions' = NewSession(u),
         gui' = [gui EXCEPT ![c] = Freeze(gui[c])], Delivers(c, <<Answer("LOGIN")>>, {}, Fault),
         entry[c] = 0, entry' = [entry EXCEPT ![c] = Len(sessions) + 1],
         Remembers, UNCHANGED <<open, knows, server, swept>>
  PROVE  ClientParts(c)'
  <1>1. ClientTyped /\ ServerTyped /\ down[c] \in Seq(Letters) /\ down \in [Clients -> Seq(Letters)]
    BY DEF IInv, ClientTyped
  <1>2. Linked(c) /\ Entered(c) /\ Unlogged(c) /\ Frozen(c) /\ Named(c) /\ Covered(c) /\ Joining(c)
    BY DEF WInv, ClientParts
  <1>3. /\ server = "up" /\ Running(c) /\ gui[c].conn = "made" /\ gui[c].win = w
        /\ gui[c].win \notin gui[c].frozen
    BY DEF At
  <1>4. PICK n \in Nat : n = Len(sessions) + 1
    BY <1>1 DEF ServerTyped
  <1>5. sessions'[n].active /\ gui[c].token # n /\ n # 0
    BY <1>4, Grown
  <1>6. PICK m : m = Answer("LOGIN")
    OBVIOUS
  <1>7. /\ m.kind = "LOGIN" /\ m.session = n /\ m.kind \in Releasing /\ m.kind \notin Opening
        /\ m \in Letters
    <2>1. Bare("LOGIN") \in Letters /\ Bare("LOGIN").kind = "LOGIN"
      BY Plainness DEF Kinds, FileIds, Bare, Msg
    <2>2. m = [Bare("LOGIN") EXCEPT !.session = n]
      BY <1>4, <1>6 DEF Answer
    <2>3. m \in Letters /\ m.kind = "LOGIN" /\ m.session = n
      BY <2>1, <2>2 DEF Letters
    <2>4. QED
      BY <2>3 DEF Releasing, Opening
  <1>8. PICK g : g = Freeze(gui[c])
    OBVIOUS
  <1>9. /\ g.ended = gui[c].ended /\ g.conn = gui[c].conn /\ g.win = gui[c].win /\ g.token = gui[c].token
        /\ g.logged = gui[c].logged /\ g.fileOpen = gui[c].fileOpen /\ g.shown = gui[c].shown
        /\ g.timer = gui[c].timer /\ g.frozen \subseteq gui[c].frozen \cup {gui[c].win}
        /\ g.fileId = gui[c].fileId
    BY <1>1, <1>8, Askers DEF Asker
  <1>10. gui'[c] = g
    BY <1>1, <1>8 DEF ClientTyped
  <1>11. PICK new : new = {m} /\ Onward(down[c], down'[c], 0, new)
    BY <1>1, <1>6, <1>7, Answered
  <1>12. down'[c] \in Seq(Letters) /\ \E i \in At1(c)' : down'[c][i] = m /\ i = Len(down'[c])
    BY <1>1, <1>6, <1>7, Answered
  <1>13. entry'[c] = n /\ (Running(c)' <=> Running(c))
    BY <1>1, <1>4, <1>9, <1>10 DEF ServerTyped, Running
  <1>14. Linked(c)'
    BY <1>2, <1>3, <1>9, <1>10 DEF Linked, Running
  <1>15. \A i \in At1(c) : down[c][i].kind # "LOGIN"
    BY <1>2 DEF Entered
  <1>16. down'[c] = Append(down[c], m)
    BY <1>1, <1>6 DEF Delivers
  <1>17. /\ Len(down'[c]) \in At1(c)' /\ down'[c][Len(down'[c])] = m /\ Len(down'[c]) \in Nat
         /\ \A i \in At1(c)' : i = Len(down'[c]) \/ (i \in At1(c) /\ down'[c][i] = down[c][i] /\ i < Len(down'[c]))
         /\ \A i \in At1(c) : i \in At1(c)' /\ down'[c][i] = down[c][i]
    BY <1>1, <1>7, <1>16 DEF At1
  <1>18. Entered(c)'
    <2>1. \A i \in At1(c)' : down'[c][i].kind = "LOGIN" => i = Len(down'[c])
      BY <1>15, <1>17
    <2>2. \A i \in At1(c)' : ~ (i > Len(down'[c]))
      BY <1>17 DEF At1
    <2>3. ASSUME NEW i \in At1(c)', down'[c][i].kind = "LOGIN"
          PROVE  /\ entry'[c] # 0 /\ down'[c][i].session = entry'[c] /\ gui'[c].token # entry'[c]
                 /\ \A j \in At1(c)' : j # i => down'[c][j].kind # "LOGIN"
                 /\ \A j \in At1(c)' : j > i => down'[c][j].kind \notin Opening
      <3>1. i = Len(down'[c])
        BY <2>1, <2>3
      <3>2. entry'[c] # 0 /\ down'[c][i].session = entry'[c] /\ gui'[c].token # entry'[c]
        BY <1>5, <1>7, <1>9, <1>10, <1>13, <1>17, <3>1
      <3>3. QED
        BY <2>1, <2>2, <3>1, <3>2
    <2>4. \E i \in At1(c)' : down'[c][i].kind = "LOGIN"
      BY <1>7, <1>17
    <2>5. sessions'[entry'[c]].active
      BY <1>5, <1>13
    <2>6. QED
      BY <2>3, <2>4, <2>5 DEF Entered
  <1>19. Unlogged(c)'
    <2>1. gui'[c].ended # "notLogged"
      BY <1>3, <1>9, <1>10 DEF Running
    <2>2. SUFFICES ASSUME ~ gui[c].logged, "late" \notin past[c]
                   PROVE  /\ gui'[c].win \in {"Connect", "Login", "Registration"}
                          /\ \A i \in At1(c)' : down'[c][i].kind \in Tokenless \/ \E j \in 1 .. i : down'[c][j].kind = "LOGIN"
                          /\ \E i \in At1(c)' : down'[c][i].kind = "LOGIN"
      BY <1>9, <1>10, <2>1 DEF Unlogged, Remembers
    <2>3. \A i \in At1(c) : down[c][i].kind \in Tokenless
      <3>1. \A i \in At1(c) : down[c][i].kind \in Tokenless \/ \E j \in 1 .. i : down[c][j].kind = "LOGIN"
        BY <1>2, <1>3, <2>2 DEF Unlogged
      <3>2. \A i \in At1(c) : \A j \in 1 .. i : j \in At1(c)
        BY <1>1 DEF At1
      <3>3. QED
        BY <1>15, <3>1, <3>2
    <2>4. Len(down'[c]) \in 1 .. Len(down'[c])
      BY <1>17 DEF At1
    <2>5. \A i \in At1(c)' : down'[c][i].kind \in Tokenless \/ \E j \in 1 .. i : down'[c][j].kind = "LOGIN"
      BY <1>7, <1>17, <2>3, <2>4
    <2>6. QED
      BY <1>3, <1>7, <1>9, <1>10, <1>17, <2>5
  <1>20. Frozen(c)'
    <2>1. \E i \in At1(c)' : down'[c][i].kind \in Releasing
      BY <1>7, <1>12
    <2>2. QED
      BY <1>2, <1>3, <1>9, <1>10, <2>1, FrozenAsked
  <1>21. Named(c)'
    <2>1. /\ \A x \in new : x.kind # "GET"
          /\ past[c] \subseteq past'[c]
      BY <1>7, <1>11 DEF Remembers
    <2>2. QED
      BY <1>1, <1>2, <1>9, <1>10, <1>11, <1>12, <1>13, <2>1, NamedStays
  <1>22. Covered(c)'
    <2>1. Haunted \/ open[c] = NoFile
      BY <1>1 DEF WInv, SeatInv, ServerTyped, FileIds
    <2>2. Haunted => Haunted'
      BY DEF Haunted, Remembers
    <2>3. QED
      BY <2>1, <2>2 DEF Covered
  <1>23. Joining(c)'
    <2>1. /\ \A x \in new : x.kind \notin Opening
          /\ \A x \in new : x.kind = "ICON" => "switched" \in past'[c]
          /\ \A x \in new : x.kind = "JOINED" =>
               x.users \subseteq knows'[c] /\ (Haunted \/ (Running(c) /\ open[c] # NoFile))
      BY <1>7, <1>11
    <2>2. /\ gui'[c].ended = gui[c].ended /\ gui'[c].shown = gui[c].shown
          /\ 0 = 1 => down[c][1].kind \notin Opening
          /\ past[c] \subseteq past'[c] /\ (Haunted => Haunted') /\ (Running(c)' => Running(c))
          /\ knows[c] \subseteq knows'[c] /\ open'[c] \in {open[c], NoFile}
      BY <1>9, <1>10, <1>13 DEF Haunted, Remembers
    <2>3. QED
      BY <1>1, <1>2, <1>11, <1>12, <2>1, <2>2, JoiningStays
  <1>24. QED
    BY <1>14, <1>18, <1>19, <1>20, <1>21, <1>22, <1>23 DEF ClientParts

\* A login or a registration that the server carries out.
LEMMA GrowsViews ==
  ASSUME IInv, WInv, NEW c \in Clients, NEW w \in {"Login", "Registration"}, At(c, w),
         NEW u \in Users, sessions' = NewSession(u), NEW m,
         gui' = [gui EXCEPT ![c] = Freeze(gui[c])], Delivers(c, <<m>>, {}, Fault),
         \/ entry[c] # 0 /\ m = Fault /\ entry' = entry
         \/ entry[c] = 0 /\ m = Answer("LOGIN") /\ entry' = [entry EXCEPT ![c] = Len(sessions) + 1],
         Remembers, \A k \in Clients \ {c} : past'[k] = past[k],
         UNCHANGED <<open, inFile, rows, members, born, knows, server, swept>>
  PROVE  WInv'
  <1>1. /\ ClientTyped /\ ServerTyped /\ ClientParts(c) /\ down[c] \in Seq(Letters)
        /\ WindowsTyped /\ SeatInv /\ MemberInv
    BY DEF IInv, WInv, ClientTyped
  <1>2. /\ server = "up" /\ Running(c) /\ gui[c].conn = "made" /\ gui[c].win # "Connect"
        /\ gui[c].win \notin gui[c].frozen /\ server' \in {"up", "fallen"} /\ server' \in {server, "fallen"}
    BY DEF At
  <1>3. /\ \A t \in 1 .. Len(sessions) : sessions'[t] = sessions[t]
        /\ \A k \in Clients : gui[k].token \in 0 .. Len(sessions) /\ entry[k] \in 0 .. Len(sessions)
        /\ Len(sessions) \in Nat
    BY Grown
  <1>4. m \in Letters /\ m.kind \in {"ERROR", "LOGIN"}
    <2>1. Fault \in Letters /\ Fault.kind = "ERROR" /\ Bare("LOGIN") \in Letters /\ Bare("LOGIN").kind = "LOGIN"
      BY Plainness DEF Kinds, FileIds, Bare, Msg, Fault
    <2>2. Answer("LOGIN") \in Letters /\ Answer("LOGIN").kind = "LOGIN"
      BY <1>3, <2>1 DEF Answer, Letters
    <2>3. QED
      BY <2>1, <2>2
  <1>5. PICK g : g = Freeze(gui[c])
    OBVIOUS
  <1>6. Asker(c, g) /\ g.fileId = gui[c].fileId
    BY <1>1, <1>5, Askers
  <1>7. gui'[c] = g /\ \A k \in Clients \ {c} : gui'[k] = gui[k]
    BY <1>1, <1>5 DEF ClientTyped
  <1>8. PICK new : new = {m} /\ Onward(down[c], down'[c], 0, new)
    BY <1>1, <1>4, Answered
  <1>9. down'[c] \in Seq(Letters) /\ \E i \in At1(c)' : down'[c][i] = m /\ i = Len(down'[c])
    BY <1>1, <1>4, Answered
  <1>10. \A k \in Clients \ {c} : entry'[k] = entry[k] /\ down'[k] = down[k]
    BY <1>1 DEF ServerTyped, Delivers
  <1>11. \A k \in Clients : entry[k] # 0 => sessions'[entry[k]] = sessions[entry[k]]
    BY <1>3
  <1>12. Still(c)
    <2>1. ASSUME NEW k \in Clients \ {c}
          PROVE  /\ down'[k] \in Seq(Letters) /\ Onward(down[k], down'[k], 0, Notices(k))
                 /\ Onward(down[k], down'[k], 0, Tidings(k))
      <3>1. down[k] \in Seq(Letters) /\ down'[k] = down[k]
        BY <1>1, <1>10 DEF ClientTyped
      <3>2. QED
        BY <3>1 DEF Onward
    <2>2. QED
      BY <1>7, <1>10, <1>11, <2>1 DEF Still, Aside
  <1>13. ClientParts(c)'
    <2>1. CASE entry[c] # 0
      <3>1. m = Fault /\ entry' = entry
        BY <2>1
      <3>2. /\ \A x \in new : x.kind # "LOGIN" /\ (x.kind \in Opening => gui[c].token = entry[c])
            /\ \A x \in new : gui[c].logged \/ x.kind = "ERROR"
            /\ \A x \in new : x.kind # "GET"
            /\ \A x \in new : x.kind \notin Covering
            /\ knows[c] \subseteq knows'[c] /\ \A x \in new : x.kind \notin Opening \cup Unasked
        BY <1>8, <3>1, PlainKinds DEF Covering
      <3>3. \E i \in At1(c)' : down'[c][i].kind \in Releasing
        BY <1>9, <3>1, PlainKinds
      <3>4. /\ open'[c] \in {open[c], NoFile} /\ (Haunted => Haunted') /\ past[c] \subseteq past'[c]
            /\ swept'[c] = swept[c] /\ entry'[c] = entry[c]
            /\ entry[c] # 0 => sessions'[entry[c]].active = sessions[entry[c]].active
        BY <1>11, <3>1 DEF Haunted, Remembers
      <3>5. QED
        BY <1>1, <1>2, <1>6, <1>7, <1>8, <1>9, <3>2, <3>3, <3>4, RequestParts
    <2>2. CASE entry[c] = 0
      BY <2>2, SignsIn
    <2>3. QED
      BY <2>1, <2>2
  <1>14. SeatInv'
    <2>1. Haunted => Haunted'
      BY DEF Haunted, Remembers
    <2>2. ASSUME NEW k \in Clients, entry[k] # 0
          PROVE  entry'[k] = entry[k] /\ sessions'[entry'[k]] = sessions[entry[k]]
      BY <1>10, <1>11, <2>2
    <2>3. QED
      BY <1>1, <2>1, <2>2 DEF SeatInv
  <1>15. \A k \in Clients : Viewed(k)' \subseteq Viewed(k) /\ gui'[k].token = gui[k].token /\ (Running(k)' <=> Running(k))
    <2>1. \A k \in Clients \ {c} :
            Viewed(k)' \subseteq Viewed(k) /\ gui'[k].token = gui[k].token /\ (Running(k)' <=> Running(k))
      BY <1>1, <1>12, AsideViews DEF Still
    <2>2. \A x \in new : x.kind \notin Opening
      BY <1>4, <1>8 DEF Opening
    <2>3. gui'[c].win = gui[c].win /\ gui'[c].shown = gui[c].shown
      BY <1>6, <1>7 DEF Asker
    <2>4. Viewed(c)' \subseteq Viewed(c)
      BY <1>1, <1>8, <1>9, <2>2, <2>3, ViewedStays DEF ClientTyped
    <2>5. gui'[c].token = gui[c].token /\ (Running(c)' <=> Running(c))
      BY <1>6, <1>7 DEF Asker, Running
    <2>6. QED
      BY <2>1, <2>4, <2>5
  <1>16. MemberInv'
    <2>1. SUFFICES ASSUME NEW k \in Clients, Running(k)', NEW h \in Viewed(k)'
                   PROVE  /\ h \in born
                          /\ Valid(Holds(k))' /\ UserOf(k)' \in rows[h] =>
                               UserOf(k)' \in members[h] \/ Haunted' \/ "linked" \in past'[k]
      BY DEF MemberInv
    <2>2. h \in Viewed(k) /\ Running(k)
      BY <1>15, <2>1
    <2>3. ASSUME Valid(Holds(k))'
          PROVE  Valid(Holds(k)) /\ UserOf(k)' = UserOf(k)
      <3>1. gui'[k].token = gui[k].token /\ gui[k].token # 0
        BY <1>15, <2>3 DEF Valid, Holds
      <3>2. sessions'[gui[k].token] = sessions[gui[k].token]
        BY <1>3, <3>1
      <3>3. QED
        BY <2>3, <3>1, <3>2 DEF Valid, Holds, UserOf
    <2>4. (Haunted => Haunted') /\ past[k] \subseteq past'[k]
      BY DEF Haunted, Remembers
    <2>5. QED
      BY <1>1, <2>2, <2>3, <2>4 DEF MemberInv
  <1>17. StrangerInv'
    <2>1. gui'[c].ended = gui[c].ended
      BY <1>6, <1>7 DEF Asker
    <2>2. \A x \in new : x.kind # "STRANGER"
      BY <1>4, <1>8
    <2>3. QED
      BY <1>8, <1>9, <1>12, <2>1, <2>2, NoStranger
  <1>18. WindowsTyped'
    BY <1>1 DEF WindowsTyped
  <1>19. QED
    BY <1>2, <1>12, <1>13, <1>14, <1>16, <1>17, <1>18, Gathers DEF Still

\* A login and a registration, accepted or refused.
LEMMA SigningViews ==
  ASSUME IInv, WInv, NEW c \in Clients, NEW u \in SignsAs[c], Login(c, u) \/ Signup(c, u)
  PROVE  WInv'
  <1>1. u \in Users
    BY ClientViewAssumption
  <1>2. ClientTyped /\ ServerTyped /\ {"Login", "Registration"} \subseteq Windows \ {"Connect"}
    BY DEF IInv, Windows
  <1>3. CASE Login(c, u)
    <2>1. /\ At(c, "Login") /\ gui' = [gui EXCEPT ![c] = Freeze(gui[c])]
          /\ UNCHANGED <<open, inFile, rows, members, born, knows, server, swept, past>>
      BY <1>3 DEF Login, Asks, history
    <2>2. Remembers /\ \A k \in Clients \ {c} : past'[k] = past[k]
      BY <1>2, <2>1, PastKept
    <2>3. CASE u \notin accounts \/ entry[c] # 0 \/ SignedIn(u)
      <3>1. Delivers(c, <<Fault>>, {}, Fault) /\ UNCHANGED <<entry, sessions>>
        BY <1>3, <2>3 DEF Login, Asks
      <3>2. QED
        BY <1>2, <2>1, <3>1, RefusedViews
    <2>4. CASE ~ (u \notin accounts \/ entry[c] # 0 \/ SignedIn(u))
      <3>1. /\ Delivers(c, <<Answer("LOGIN")>>, {}, Fault) /\ entry[c] = 0
            /\ entry' = [entry EXCEPT ![c] = Len(sessions) + 1] /\ sessions' = NewSession(u)
        BY <1>3, <2>4 DEF Login, Asks
      <3>2. PICK m : m = Answer("LOGIN")
        OBVIOUS
      <3>3. QED
        BY <1>1, <2>1, <2>2, <3>1, <3>2, GrowsViews
    <2>5. QED
      BY <2>3, <2>4
  <1>4. CASE Signup(c, u)
    <2>1. /\ At(c, "Registration") /\ gui' = [gui EXCEPT ![c] = Freeze(gui[c])]
          /\ UNCHANGED <<open, inFile, rows, members, born, knows, server, swept>>
      BY <1>4 DEF Signup, Asks
    <2>2. CASE u \in accounts
      <3>1. Delivers(c, <<Fault>>, {}, Fault) /\ UNCHANGED <<entry, sessions, past>>
        BY <1>4, <2>2 DEF Signup, Asks
      <3>2. QED
        BY <1>2, <2>1, <3>1, RefusedViews
    <2>3. CASE u \notin accounts
      <3>1. PICK m : m = IF entry[c] # 0 THEN Fault ELSE Answer("LOGIN")
        OBVIOUS
      <3>2. Delivers(c, <<m>>, {}, Fault) /\ sessions' = NewSession(u)
        BY <1>4, <2>3, <3>1 DEF Signup, Asks
      <3>3. \/ entry[c] # 0 /\ m = Fault /\ entry' = entry
            \/ entry[c] = 0 /\ m = Answer("LOGIN") /\ entry' = [entry EXCEPT ![c] = Len(sessions) + 1]
        BY <1>4, <2>3, <3>1 DEF Signup
      <3>4. past' = past \/ past' = [past EXCEPT ![c] = @ \cup {"doubled"}]
        BY <1>4, <2>3 DEF Signup
      <3>5. Remembers /\ \A k \in Clients \ {c} : past'[k] = past[k]
        BY <1>2, <3>4, PastKept DEF Causes, ClientTyped
      <3>6. QED
        BY <1>1, <2>1, <3>2, <3>3, <3>5, GrowsViews
    <2>4. QED
      BY <2>2, <2>3
  <1>5. QED
    BY <1>3, <1>4
-----------------------------------------------------------------------------
\* A request that is refused, while the tables may have got a row.
LEMMA RefusedTables ==
  ASSUME IInv, WInv, NEW c \in Clients, LoggedAt(c, "Browser"), NEW g, Asker(c, g),
         gui' = [gui EXCEPT ![c] = g], Delivers(c, <<Fault>>, {}, Fault),
         Named(c)' \/ g.fileId = gui[c].fileId,
         \A h \in Files : rows[h] \subseteq rows'[h], born \subseteq born',
         \A k \in Clients : Running(k) => \A h \in Viewed(k) : Valid(Holds(k)) /\ UserOf(k) \in rows'[h] =>
           UserOf(k) \in rows[h] \/ "linked" \in past'[k],
         Remembers, \A k \in Clients \ {c} : past'[k] = past[k],
         UNCHANGED <<entry, open, inFile, members, knows, sessions, server, swept>>
  PROVE  WInv'
  <1>1. /\ ClientTyped /\ ClientParts(c) /\ WindowsTyped /\ SeatInv /\ MemberInv
        /\ Fault \in Letters
    BY PlainKinds DEF IInv, WInv
  <1>2. /\ server = "up" /\ Running(c) /\ gui[c].conn = "made" /\ gui[c].win = "Browser"
        /\ gui[c].win \notin gui[c].frozen /\ gui[c].logged /\ gui[c].win # "Connect"
        /\ server' \in {"up", "fallen"} /\ server' \in {server, "fallen"}
    BY DEF LoggedAt, At
  <1>3. PICK new : new = {Fault} /\ Onward(down[c], down'[c], 0, new)
    BY <1>1, Answered
  <1>4. down'[c] \in Seq(Letters) /\ \E i \in At1(c)' : down'[c][i] = Fault
    BY <1>1, Answered
  <1>5. gui'[c] = g /\ \A k \in Clients \ {c} : gui'[k] = gui[k] /\ down'[k] = down[k]
    BY <1>1 DEF ClientTyped, Delivers
  <1>6. Still(c)
    <2>1. ASSUME NEW k \in Clients \ {c}
          PROVE  /\ down'[k] \in Seq(Letters) /\ Onward(down[k], down'[k], 0, Notices(k))
                 /\ Onward(down[k], down'[k], 0, Tidings(k))
      <3>1. down[k] \in Seq(Letters) /\ down'[k] = down[k]
        BY <1>1, <1>5 DEF ClientTyped
      <3>2. QED
        BY <3>1 DEF Onward
    <2>2. QED
      BY <1>5, <2>1 DEF Still, Aside
  <1>7. Haunted => Haunted'
    BY DEF Haunted, Remembers
  <1>8. ClientParts(c)'
    <2>1. /\ \A x \in new : x.kind # "LOGIN" /\ (x.kind \in Opening => gui[c].token = entry[c])
          /\ \A x \in new : gui[c].logged \/ x.kind = "ERROR"
          /\ \A x \in new : x.kind # "GET"
          /\ \A x \in new : x.kind \notin Covering
          /\ knows[c] \subseteq knows'[c] /\ \A x \in new : x.kind \notin Opening \cup Unasked
      BY <1>3, PlainKinds DEF Covering, Opening
    <2>2. \E i \in At1(c)' : down'[c][i].kind \in Releasing
      BY <1>4, PlainKinds
    <2>3. /\ open'[c] \in {open[c], NoFile} /\ past[c] \subseteq past'[c]
          /\ swept'[c] = swept[c] /\ entry'[c] = entry[c]
          /\ entry[c] # 0 => sessions'[entry[c]].active = sessions[entry[c]].active
      BY DEF Remembers
    <2>4. QED
      BY <1>1, <1>2, <1>3, <1>4, <1>5, <1>7, <2>1, <2>2, <2>3, RequestParts
  <1>9. SeatInv'
    BY <1>1, <1>7 DEF SeatInv
  <1>10. \A k \in Clients : Viewed(k)' \subseteq Viewed(k) /\ gui'[k].token = gui[k].token /\ (Running(k)' <=> Running(k))
    <2>1. \A k \in Clients \ {c} :
            Viewed(k)' \subseteq Viewed(k) /\ gui'[k].token = gui[k].token /\ (Running(k)' <=> Running(k))
      BY <1>1, <1>6, AsideViews DEF Still
    <2>2. \A x \in new : x.kind \notin Opening
      BY <1>3, PlainKinds DEF Covering
    <2>3. gui'[c].win = gui[c].win /\ gui'[c].shown = gui[c].shown
      BY <1>5 DEF Asker
    <2>4. Viewed(c)' \subseteq Viewed(c)
      BY <1>1, <1>3, <1>4, <2>2, <2>3, ViewedStays DEF ClientTyped
    <2>5. gui'[c].token = gui[c].token /\ (Running(c)' <=> Running(c))
      BY <1>5 DEF Asker, Running
    <2>6. QED
      BY <2>1, <2>4, <2>5
  <1>11. MemberInv'
    <2>1. SUFFICES ASSUME NEW k \in Clients, Running(k)', NEW h \in Viewed(k)'
                   PROVE  /\ h \in born'
                          /\ Valid(Holds(k))' /\ UserOf(k)' \in rows'[h] =>
                               UserOf(k)' \in members[h] \/ Haunted' \/ "linked" \in past'[k]
      BY DEF MemberInv
    <2>2. h \in Viewed(k) /\ Running(k)
      BY <1>10, <2>1
    <2>3. (Valid(Holds(k))' <=> Valid(Holds(k))) /\ UserOf(k)' = UserOf(k)
      BY <1>10 DEF Valid, Holds, UserOf
    <2>4. past[k] \subseteq past'[k]
      BY DEF Remembers
    <2>5. /\ h \in born
          /\ Valid(Holds(k)) /\ UserOf(k) \in rows[h] =>
               UserOf(k) \in members[h] \/ Haunted \/ "linked" \in past[k]
      BY <1>1, <2>2 DEF MemberInv
    <2>6. QED
      BY <1>7, <2>2, <2>3, <2>4, <2>5
  <1>12. StrangerInv'
    <2>1. gui'[c].ended = gui[c].ended
      BY <1>5 DEF Asker
    <2>2. \A x \in new : x.kind # "STRANGER"
      BY <1>3, PlainKinds DEF Unasked
    <2>3. QED
      BY <1>3, <1>4, <1>6, <2>1, <2>2, NoStranger
  <1>13. WindowsTyped'
    BY <1>1 DEF WindowsTyped
  <1>14. QED
    BY <1>2, <1>6, <1>8, <1>9, <1>11, <1>12, <1>13, Gathers DEF Still
-----------------------------------------------------------------------------
\* The relay ends otherwise than done only over a client left in the list.
LEMMA RelayHaunted ==
  ASSUME IInv, WInv, NEW c \in Clients, NEW f \in Files, rows[f] # {}, NEW r \in Relayed(c, f), ~ Haunted
  PROVE  r = "done"
  <1>1. ASSUME NEW k \in Others(c, f)
        PROVE  k \notin Ghosts(c, f) /\ k \notin Foreign(c, f)
    <2>1. k \in Clients /\ k \in inFile[f]
      BY DEF Others, IInv, ServerTyped
    <2>2. entry[k] # 0 /\ open[k] = f
      BY <2>1 DEF IInv, Seated, Haunted
    <2>3. sessions[entry[k]].user \in rows[f]
      BY <2>1, <2>2 DEF WInv, SeatInv
    <2>4. QED
      BY <2>2, <2>3 DEF Ghosts, Foreign
  <1>2. Ghosts(c, f) = {} /\ Foreign(c, f) = {}
    BY <1>1 DEF Ghosts, Foreign
  <1>3. QED
    BY <1>2 DEF Relayed

\* What the answer that opens a file and the notice that goes with it say.
LEMMA AnsweringIs ==
  ASSUME IInv, NEW c \in Clients, NEW f \in Files, UserOf(c) \in Users, NEW kind \in Opening
  PROVE  /\ Answering(kind, c, f) \in Letters /\ Answering(kind, c, f).kind = kind
         /\ Answering(kind, c, f).file = f /\ Answering(kind, c, f).users \subseteq members[f]
         /\ Joined(c) \in Letters /\ Joined(c).kind = "JOINED" /\ Joined(c).users = {UserOf(c)}
  <1>1. kind \in Kinds
    BY DEF Opening, Kinds
  <1>2. Answering(kind, c, f) \in Letters /\ Joined(c) \in Letters
    BY <1>1, Naming DEF IInv
  <1>3. /\ Answering(kind, c, f).kind = kind /\ Answering(kind, c, f).file = f
        /\ Answering(kind, c, f).users = members[f] \ {UserOf(c)}
    BY DEF Answering, Msg
  <1>4. Joined(c).kind = "JOINED" /\ Joined(c).users = {UserOf(c)}
    BY DEF Joined, Bare, Msg
  <1>5. QED
    BY <1>2, <1>3, <1>4

\* Who enters a file while another is on its way is said to switch.
LEMMA SwitchingSays ==
  ASSUME ClientTyped, NEW c \in Clients
  PROVE  /\ Switching(c) \in SUBSET Causes
         /\ "switched" \in Switching(c) \/ \A i \in At1(c) : down[c][i].kind \notin Opening \cup {"JOINED"}
  <1>1. Switching(c) \in SUBSET Causes
    BY DEF Switching, Causes
  <1>2. DOMAIN down[c] = At1(c)
    BY DEF ClientTyped, At1
  <1>3. QED
    BY <1>1, <1>2 DEF Switching, Awaits

\* A queue that nothing is taken from.
LEMMA OnwardZero ==
  ASSUME NEW s \in Seq(Letters), NEW t \in Seq(Letters), NEW new, Onward(s, t, 0, new)
  PROVE  /\ \A i \in 1 .. Len(t) : t[i] \in new \/ (i \in 1 .. Len(s) /\ t[i] = s[i])
         /\ \A i \in 1 .. Len(s) : i \in 1 .. Len(t) /\ t[i] = s[i]
  BY DEF Onward

\* What the tables say of those who have a file open, when one more opens it.
LEMMA SeatsTaken ==
  ASSUME IInv, WInv, NEW c \in Clients, NEW f \in Files, Valid(Holds(c)), Remembers,
         NEW r, NEW T, Enter(c, f, r, T), Haunted \/ (r = "done" /\ T = Others(c, f)),
         UserOf(c) \in rows'[f], \A h \in Files : rows[h] \subseteq rows'[h],
         UNCHANGED <<entry, sessions>>
  PROVE  SeatInv'
  <1>1. PICK u : u = UserOf(c)
    OBVIOUS
  <1>2. PICK us : us = members[f] \cup {u}
    OBVIOUS
  <1>3. /\ open' = [open EXCEPT ![c] = f] /\ inFile' = [inFile EXCEPT ![f] = @ \cup {c}]
        /\ members' = [members EXCEPT ![f] = us]
        /\ knows' = [k \in Clients |->
             IF k = c /\ r = "done" THEN us ELSE IF k \in T THEN knows[k] \cup {u} ELSE knows[k]]
    BY <1>1, <1>2 DEF Enter
  <1>4. /\ open \in [Clients -> FileIds] /\ inFile \in [Files -> SUBSET Clients]
        /\ members \in [Files -> SUBSET Users]
    BY DEF IInv, ServerTyped, WInv, WindowsTyped
  <1>5. /\ open'[c] = f /\ \A k \in Clients \ {c} : open'[k] = open[k]
        /\ c \in inFile'[f] /\ \A h \in Files : inFile[h] \subseteq inFile'[h]
        /\ members'[f] = us /\ \A h \in Files \ {f} : members'[h] = members[h]
        /\ \A k \in Clients \ {c} : knows[k] \subseteq knows'[k]
        /\ ~ Haunted => knows'[c] = us /\ \A k \in Clients \ {c} : k \in inFile[f] => u \in knows'[k]
    BY <1>3, <1>4 DEF Others
  <1>6. entry[c] # 0 /\ sessions[entry[c]].user = u
    BY <1>1, TokenEntry
  <1>7. SUFFICES ASSUME ~ Haunted, NEW k \in Clients, NEW h \in Files, open'[k] = h
                 PROVE  /\ k \in inFile'[h] /\ entry[k] # 0
                        /\ sessions[entry[k]].user \in rows'[h] \cap members'[h]
                        /\ members'[h] \subseteq knows'[k]
    BY DEF SeatInv, Haunted, Remembers
  <1>8. CASE k = c
    BY <1>1, <1>2, <1>5, <1>6, <1>7, <1>8
  <1>9. CASE k # c
    <2>1. open[k] = h
      BY <1>5, <1>7, <1>9
    <2>2. /\ k \in inFile[h] /\ entry[k] # 0 /\ sessions[entry[k]].user \in rows[h] \cap members[h]
          /\ members[h] \subseteq knows[k]
      BY <1>7, <2>1 DEF WInv, SeatInv
    <2>3. CASE h = f
      BY <1>2, <1>5, <1>7, <1>9, <2>2, <2>3
    <2>4. CASE h # f
      BY <1>5, <1>9, <2>2, <2>4
    <2>5. QED
      BY <2>3, <2>4
  <1>10. QED
    BY <1>8, <1>9
-----------------------------------------------------------------------------
\* The file the client names is as it was, or the one its answers are about.
Names(c, g, m) == Named(c)' \/ (g.fileId = gui[c].fileId /\ m.kind # "GET")

\* A file that is opened: the answer shows it, unless a client left in its list has the
\* relay refused or the server fall.
LEMMA EnteringViews ==
  ASSUME IInv, WInv, NEW c \in Clients, NEW f \in Files, LoggedAt(c, "Browser"), Valid(Holds(c)),
         NEW g, Asker(c, g), gui' = [gui EXCEPT ![c] = g],
         NEW m \in Letters, m.kind \in Opening, m.file = f, m.users \subseteq members[f] \cup {UserOf(c)},
         NEW r \in {"done", "refused", "fallen"}, NEW T, Haunted \/ (r = "done" /\ T = Others(c, f)),
         T = {} \/ rows[f] # {}, \A k \in T : k \in inFile[f] /\ entry[k] # 0,
         NEW n \in Letters, T = {} \/ n = Joined(c),
         Delivers(c, CASE r = "done" -> <<m>> [] r = "refused" -> <<Fault>> [] r = "fallen" -> << >>, T, n),
         server' = IF r = "fallen" THEN "fallen" ELSE server,
         Enter(c, f, r, T), UserOf(c) \in rows'[f], rows'[f] \subseteq rows[f] \cup {UserOf(c)},
         \A h \in Files : rows[h] \subseteq rows'[h], \A h \in Files \ {f} : rows'[h] = rows[h],
         born' = born \cup {f},
         Names(c, g, m),
         "switched" \in past'[c] \/ \A i \in At1(c) : down[c][i].kind \notin Opening \cup {"JOINED"},
         Remembers, \A k \in Clients \ {c} : past'[k] = past[k],
         UNCHANGED <<entry, sessions, swept>>
  PROVE  WInv'
  <1>1. /\ ClientTyped /\ ServerTyped /\ ClientParts(c) /\ WindowsTyped /\ SeatInv /\ MemberInv
        /\ Fault \in Letters /\ UserOf(c) \in Users /\ entry[c] = gui[c].token /\ entry[c] # 0
    BY PlainKinds, TokenEntry DEF IInv, WInv
  <1>2. /\ server = "up" /\ Running(c) /\ gui[c].conn = "made" /\ gui[c].win = "Browser"
        /\ gui[c].win \notin gui[c].frozen /\ gui[c].logged /\ gui[c].win # "Connect"
        /\ server' \in {"up", "fallen"} /\ server' \in {server, "fallen"}
    BY DEF LoggedAt, At
  <1>3. (Haunted => Haunted') /\ past[c] \subseteq past'[c]
    BY DEF Haunted, Remembers
  <1>4. gui'[c] = g /\ \A k \in Clients \ {c} : gui'[k] = gui[k]
    BY <1>1 DEF ClientTyped
  <1>5. PICK new : /\ Onward(down[c], down'[c], 0, new) /\ down'[c] \in Seq(Letters)
                   /\ \/ r = "done" /\ new = {m} /\ \E i \in At1(c)' : down'[c][i] = m /\ i = Len(down'[c])
                      \/ Haunted /\ new = {Fault} /\ \E i \in At1(c)' : down'[c][i] = Fault
                      \/ Haunted /\ new = {} /\ server' = "fallen"
    <2>1. CASE r = "done"
      <3>1. Delivers(c, <<m>>, T, n)
        BY <2>1
      <3>2. QED
        BY <1>1, <2>1, <3>1, Answered
    <2>2. CASE r = "refused"
      <3>1. Delivers(c, <<Fault>>, T, n)
        BY <2>2
      <3>2. QED
        BY <1>1, <2>2, <3>1, Answered
    <2>3. CASE r = "fallen"
      <3>1. Delivers(c, << >>, T, n)
        BY <2>3
      <3>2. QED
        BY <1>1, <2>3, <3>1, Answered
    <2>4. QED
      BY <2>1, <2>2, <2>3
  <1>6. /\ open'[c] = f /\ \A k \in Clients \ {c} : open'[k] = open[k]
        /\ members'[f] = members[f] \cup {UserOf(c)} /\ \A h \in Files \ {f} : members'[h] = members[h]
        /\ \A k \in Clients \ {c} : \A h \in Files : k \in inFile'[h] => k \in inFile[h]
    BY <1>1 DEF Enter, ServerTyped, WindowsTyped
  <1>18. /\ \A k \in Clients \ {c} : knows[k] \subseteq knows'[k] /\ (k \in T => UserOf(c) \in knows'[k])
         /\ r = "done" => m.users \subseteq knows'[c]
    <2>1. PICK us : us = members[f] \cup {UserOf(c)}
      OBVIOUS
    <2>2. knows' = [k \in Clients |-> IF k = c /\ r = "done" THEN us
                                      ELSE IF k \in T THEN knows[k] \cup {UserOf(c)} ELSE knows[k]]
      BY <2>1 DEF Enter
    <2>3. QED
      BY <2>1, <2>2
  <1>7. Still(c)
    <2>1. ASSUME NEW k \in Clients \ {c}
          PROVE  /\ down'[k] \in Seq(Letters) /\ Onward(down[k], down'[k], 0, Notices(k))
                 /\ Onward(down[k], down'[k], 0, Tidings(k))
                 /\ down'[k] = down[k] \/ (Running(k) /\ entry[k] # 0 /\ gui[k].conn = "made")
      <3>1. /\ down'[k] \in Seq(Letters) /\ Onward(down[k], down'[k], 0, {n})
            /\ down'[k] = down[k] \/ (k \in T /\ Running(k))
        BY <1>1, ToldOthers
      <3>2. CASE down'[k] = down[k]
        <4>1. down[k] \in Seq(Letters)
          BY <1>1 DEF ClientTyped
        <4>2. QED
          BY <3>1, <3>2, <4>1 DEF Onward
      <3>3. CASE k \in T /\ Running(k)
        <4>1. k \in inFile[f] /\ entry[k] # 0 /\ rows[f] # {} /\ n = Joined(c)
          BY <3>3
        <4>2. n.kind = "JOINED" /\ n.users = {UserOf(c)}
          BY <4>1 DEF Joined, Bare, Msg
        <4>3. Haunted \/ open[k] # NoFile
          <5>1. Haunted \/ open[k] = f
            BY <4>1 DEF IInv, Seated, Haunted
          <5>2. QED
            BY <5>1, ClientViewAssumption
        <4>4. n \in Tidings(k) /\ n \in Notices(k)
          BY <1>18, <3>3, <4>2, <4>3 DEF Tidings, Notices
        <4>5. QED
          BY <3>1, <3>3, <4>1, <4>4, LinkedMade DEF Onward
      <3>4. QED
        BY <3>1, <3>2, <3>3
    <2>2. QED
      BY <1>4, <1>6, <1>18, <2>1 DEF Still, Aside
  <1>8. /\ Fault.kind = "ERROR" /\ Fault.kind \notin Covering \cup {"STRANGER"} /\ Fault.kind \in Releasing
        /\ m.kind \in Releasing /\ m.kind # "LOGIN" /\ m.kind # "STRANGER" /\ "ERROR" \notin Opening
        /\ m.kind # "ICON" /\ m.kind # "JOINED"
    BY PlainKinds DEF Releasing, Opening, Unasked
  <1>9. ClientParts(c)'
    <2>1. /\ \A x \in new : x.kind # "LOGIN" /\ (x.kind \in Opening => gui[c].token = entry[c])
          /\ \A x \in new : gui[c].logged \/ x.kind = "ERROR"
      BY <1>1, <1>2, <1>5, <1>8
    <2>2. server' # "up" \/ \E i \in At1(c)' : down'[c][i].kind \in Releasing
      BY <1>5, <1>8
    <2>3. Named(c)' \/ (g.fileId = gui[c].fileId /\ \A x \in new : x.kind # "GET")
      BY <1>5, <1>8 DEF Names
    <2>4. Covered(c)'
      <3>1. CASE Haunted
        BY <1>3, <3>1 DEF Covered
      <3>2. CASE \E i \in At1(c)' : down'[c][i] = m /\ i = Len(down'[c])
        <4>1. PICK i \in At1(c)' : down'[c][i] = m /\ i = Len(down'[c])
          BY <3>2
        <4>2. \A j \in At1(c)' : ~ (j > i)
          BY <1>5, <4>1 DEF At1
        <4>3. QED
          BY <1>6, <4>1, <4>2 DEF Covered
      <3>3. QED
        BY <1>5, <3>1, <3>2
    <2>7. Joining(c)'
      <3>1. /\ \A i \in At1(c)' : down'[c][i] \in new \/ (i \in At1(c) /\ down'[c][i] = down[c][i])
            /\ \A i \in At1(c) : i \in At1(c)' /\ down'[c][i] = down[c][i]
        BY <1>1, <1>5, OnwardZero DEF ClientTyped, At1
      <3>2. gui'[c].ended # "icon" /\ gui'[c].shown = gui[c].shown
        BY <1>2, <1>4 DEF Asker, Running
      <3>3. ASSUME NEW i \in At1(c)', down'[c][i] \in new
            PROVE  /\ down'[c][i].kind # "ICON" /\ down'[c][i].kind # "JOINED"
                   /\ down'[c][i].kind \in Opening => down'[c][i].users \subseteq knows'[c] /\ down'[c][i].file \in Files
        BY <1>5, <1>8, <1>18, <3>3
      <3>4. ASSUME NEW i \in At1(c), i \in At1(c)'
            PROVE  /\ down[c][i].kind = "ICON" => "switched" \in past'[c]
                   /\ down[c][i].kind \in Opening \cup {"JOINED"} => "switched" \in past'[c]
                   /\ down[c][i].kind \in Opening => down[c][i].file \in Files
                   /\ down[c][i].kind = "JOINED" =>
                        Haunted' \/ gui'[c].shown # NoFile \/ \E j \in 1 .. i : down'[c][j].kind \in Opening
        <4>1. \A j \in 1 .. i : j \in At1(c)
          BY <3>4 DEF At1
        <4>2. /\ down[c][i].kind = "ICON" => "switched" \in past[c]
              /\ down[c][i].kind \in Opening => down[c][i].file \in Files
              /\ down[c][i].kind = "JOINED" =>
                   Haunted \/ gui[c].shown # NoFile \/ \E j \in 1 .. i : down[c][j].kind \in Opening
          BY <1>1, <3>4 DEF ClientParts, Joining
        <4>3. QED
          BY <1>3, <3>1, <3>2, <3>4, <4>1, <4>2
      <3>5. Haunted' \/ \E i \in At1(c)' : down'[c][i].kind \in Opening
        BY <1>3, <1>5
      <3>6. ASSUME NEW i \in At1(c)'
            PROVE  /\ down'[c][i].kind = "ICON" => "switched" \in past'[c]
                   /\ down'[c][i].kind \in Opening \cup {"JOINED"} =>
                        down'[c][i].users \subseteq knows'[c] \/ "switched" \in past'[c]
                   /\ down'[c][i].kind \in Opening => down'[c][i].file \in Files
                   /\ down'[c][i].kind = "JOINED" =>
                        Haunted' \/ gui'[c].shown # NoFile \/ \E j \in 1 .. i : down'[c][j].kind \in Opening
        <4>1. CASE down'[c][i] \in new
          BY <3>3, <4>1
        <4>2. CASE i \in At1(c) /\ down'[c][i] = down[c][i]
          BY <3>4, <4>2
        <4>3. QED
          BY <3>1, <4>1, <4>2
      <3>7. QED
        BY <3>2, <3>5, <3>6 DEF Joining
    <2>5. /\ swept'[c] = swept[c] /\ entry'[c] = entry[c]
          /\ entry[c] # 0 => sessions'[entry[c]].active = sessions[entry[c]].active
      OBVIOUS
    <2>6. QED
      BY <1>1, <1>2, <1>3, <1>4, <1>5, <2>1, <2>2, <2>3, <2>4, <2>5, <2>7, RequestParts
  <1>10. SeatInv'
    BY SeatsTaken
  <1>11. \A k \in Clients : gui'[k].token = gui[k].token /\ (Running(k)' <=> Running(k))
    BY <1>4 DEF Asker, Running
  <1>12. \A k \in Clients \ {c} : Viewed(k)' \subseteq Viewed(k)
    BY <1>1, <1>7, AsideViews DEF Still
  <1>13. Viewed(c)' \subseteq Viewed(c) \cup {f}
    <2>1. \A i \in 1 .. Len(down'[c]) : down'[c][i] \in new \/ \E j \in 1 .. Len(down[c]) : down[c][j] = down'[c][i]
      BY <1>1, <1>5, OnwardOld DEF ClientTyped
    <2>2. \A x \in new : x.kind \in Opening => x.file = f
      BY <1>5, <1>8
    <2>3. gui'[c].win # "Editor"
      BY <1>2, <1>4 DEF Asker
    <2>4. QED
      BY <2>1, <2>2, <2>3 DEF Viewed, At1
  <1>14. MemberInv'
    <2>1. SUFFICES ASSUME NEW k \in Clients, Running(k)', NEW h \in Viewed(k)'
                   PROVE  /\ h \in born'
                          /\ Valid(Holds(k))' /\ UserOf(k)' \in rows'[h] =>
                               UserOf(k)' \in members'[h] \/ Haunted' \/ "linked" \in past'[k]
      BY DEF MemberInv
    <2>2. h \in Files /\ Running(k) /\ (h \in Viewed(k) \/ (k = c /\ h = f))
      BY <1>11, <1>12, <1>13, <2>1 DEF Viewed
    <2>3. (Valid(Holds(k))' <=> Valid(Holds(k))) /\ UserOf(k)' = UserOf(k)
      BY <1>11 DEF Valid, Holds, UserOf
    <2>4. past[k] \subseteq past'[k]
      BY DEF Remembers
    <2>5. h \in Viewed(k) =>
            /\ h \in born
            /\ Valid(Holds(k)) /\ UserOf(k) \in rows[h] =>
                 UserOf(k) \in members[h] \/ Haunted \/ "linked" \in past[k]
      BY <1>1, <2>2 DEF MemberInv
    <2>6. CASE h # f
      BY <1>3, <1>6, <2>2, <2>3, <2>4, <2>5, <2>6
    <2>7. CASE h = f
      <3>1. CASE UserOf(k) = UserOf(c)
        BY <1>6, <2>3, <2>7, <3>1
      <3>2. CASE UserOf(k) # UserOf(c)
        <4>1. h \in Viewed(k) /\ (UserOf(k) \in rows'[h] => UserOf(k) \in rows[h])
          BY <2>2, <2>7, <3>2
        <4>2. members[h] \subseteq members'[h]
          BY <1>6, <2>7
        <4>3. QED
          BY <1>3, <2>3, <2>4, <2>5, <4>1, <4>2
      <3>3. QED
        BY <3>1, <3>2
    <2>8. QED
      BY <2>6, <2>7
  <1>15. StrangerInv'
    <2>1. gui'[c].ended = gui[c].ended
      BY <1>4 DEF Asker
    <2>2. \A x \in new : x.kind # "STRANGER"
      BY <1>5, <1>8
    <2>3. QED
      BY <1>5, <1>7, <2>1, <2>2, NoStranger
  <1>16. WindowsTyped'
    <2>1. members' \in [Files -> SUBSET Users]
      BY <1>1 DEF Enter, WindowsTyped
    <2>2. knows' \in [Clients -> SUBSET Users]
      <3>1. PICK us : us = members[f] \cup {UserOf(c)}
        OBVIOUS
      <3>2. us \subseteq Users /\ knows \in [Clients -> SUBSET Users]
        BY <1>1, <3>1 DEF WindowsTyped
      <3>3. knows' = [k \in Clients |->
              IF k = c /\ r = "done" THEN us ELSE IF k \in T THEN knows[k] \cup {UserOf(c)} ELSE knows[k]]
        BY <3>1 DEF Enter
      <3>4. QED
        BY <1>1, <3>2, <3>3
    <2>3. QED
      BY <1>1, <1>2, <2>1, <2>2 DEF WindowsTyped
  <1>17. QED
    BY <1>2, <1>7, <1>9, <1>10, <1>14, <1>15, <1>16, Gathers DEF Still
-----------------------------------------------------------------------------
\* A file that is made: nobody shows it yet.
LEMMA NewFileViews ==
  ASSUME IInv, WInv, NEW c \in Clients, NEW f \in Files, NewFile(c, f)
  PROVE  WInv'
  <1>1. /\ ClientTyped /\ ServerTyped /\ MemberInv /\ LoggedAt(c, "Browser") /\ At(c, "Browser")
        /\ "Browser" \in Windows \ {"Connect"}
    BY DEF IInv, WInv, NewFile, LoggedAt, Windows
  <1>2. UNCHANGED <<entry, sessions, server, swept>>
    BY DEF NewFile
  <1>3. CASE ~ Valid(Holds(c))
    <2>1. /\ gui' = [gui EXCEPT ![c] = Freeze(gui[c])] /\ Delivers(c, <<Fault>>, {}, Fault)
          /\ UNCHANGED <<open, inFile, members, rows, born, knows, past>>
      BY <1>3 DEF NewFile, Asks
    <2>2. QED
      BY <1>1, <1>2, <2>1, RefusedViews
  <1>4. CASE Valid(Holds(c))
    <2>1. PICK u : u = UserOf(c)
      OBVIOUS
    <2>2. f \notin born /\ born' = born \cup {f} /\ rows' = [rows EXCEPT ![f] = {u}]
      BY <1>4, <2>1 DEF NewFile
    <2>3. rows[f] = {} /\ inFile[f] = {} /\ rows \in [Files -> SUBSET Users]
      BY <1>1, <2>2 DEF IInv, Seated, ServerTyped
    <2>4. rows'[f] = {u} /\ \A h \in Files \ {f} : rows'[h] = rows[h]
      BY <2>2, <2>3
    <2>5. /\ Remembers /\ \A k \in Clients \ {c} : past'[k] = past[k]
          /\ open[c] = NoFile =>
               "switched" \in past'[c] \/ \A i \in At1(c) : down[c][i].kind \notin Opening \cup {"JOINED"}
      <3>1. past' = past \/ past' = [past EXCEPT ![c] = @ \cup Switching(c)]
        BY <1>4 DEF NewFile
      <3>2. open[c] = NoFile => past' = [past EXCEPT ![c] = @ \cup Switching(c)]
        BY <1>4 DEF NewFile
      <3>3. Switching(c) \in SUBSET Causes
        BY <1>1, SwitchingSays
      <3>4. Remembers
        BY <1>1, <3>1, <3>3, PastKept
      <3>5. QED
        BY <1>1, <3>1, <3>2, <3>4, SwitchingSays DEF ClientTyped
    <2>6. PICK g : g = Freeze(gui[c])
      OBVIOUS
    <2>7. Asker(c, g) /\ g.fileId = gui[c].fileId
      BY <1>1, <2>6, Askers
    <2>8. CASE open[c] # NoFile
      <3>1. /\ gui' = [gui EXCEPT ![c] = g] /\ Delivers(c, <<Fault>>, {}, Fault)
            /\ UNCHANGED <<open, inFile, members, knows>>
        BY <1>4, <2>6, <2>8 DEF NewFile, Asks
      <3>2. \A h \in Files : rows[h] \subseteq rows'[h]
        BY <2>3, <2>4
      <3>3. \A k \in Clients : Running(k) => \A h \in Viewed(k) : rows'[h] = rows[h]
        BY <1>1, <2>2, <2>4 DEF MemberInv, Viewed
      <3>4. born \subseteq born'
        BY <2>2
      <3>5. QED
        BY <1>1, <1>2, <2>5, <2>7, <3>1, <3>2, <3>3, <3>4, RefusedTables
    <2>9. CASE open[c] = NoFile
      <3>1. PICK m : m = Msg("NEW_FILE", f)
        OBVIOUS
      <3>2. m \in Letters /\ m.kind \in Opening /\ m.file = f /\ m.kind # "GET" /\ m.users = {}
        BY <3>1, Plainness DEF Kinds, FileIds, Msg, Opening
      <3>3. /\ gui' = [gui EXCEPT ![c] = g] /\ Delivers(c, <<m>>, {}, Fault) /\ Enter(c, f, "done", {})
        BY <1>4, <2>6, <2>9, <3>1 DEF NewFile, Asks
      <3>4. PICK r, T : r = "done" /\ r \in {"done", "refused", "fallen"} /\ T = {} /\ T = Others(c, f)
        BY <2>3 DEF Others
      <3>5. /\ Delivers(c, CASE r = "done" -> <<m>> [] r = "refused" -> <<Fault>> [] r = "fallen" -> << >>, T, Fault)
            /\ server' = IF r = "fallen" THEN "fallen" ELSE server
            /\ Enter(c, f, r, T) /\ Fault \in Letters
        BY <1>2, <3>3, <3>4, PlainKinds
      <3>6. /\ UserOf(c) \in rows'[f] /\ rows'[f] \subseteq rows[f] \cup {UserOf(c)}
            /\ (\A h \in Files : rows[h] \subseteq rows'[h]) /\ (\A h \in Files \ {f} : rows'[h] = rows[h])
        BY <2>1, <2>3, <2>4
      <3>7. Names(c, g, m) /\ m.users \subseteq members[f] \cup {UserOf(c)}
        BY <2>7, <3>2 DEF Names
      <3>8. QED
        BY <1>1, <1>2, <1>4, <2>2, <2>5, <2>7, <2>9, <3>2, <3>3, <3>4, <3>5, <3>6, <3>7, EnteringViews
    <2>10. QED
      BY <2>8, <2>9
  <1>5. QED
    BY <1>3, <1>4

\* A link that is followed: a row more, and the file if none is open.
LEMMA LinkViews ==
  ASSUME IInv, WInv, NEW c \in Clients, NEW f \in Files, ActivateLink(c, f)
  PROVE  WInv'
  <1>1. /\ ClientTyped /\ ServerTyped /\ MemberInv /\ LoggedAt(c, "Browser") /\ rows[f] # {}
        /\ "linked" \in Causes
    BY DEF IInv, WInv, ActivateLink, Causes
  <1>2. UNCHANGED <<entry, sessions, born, swept>> /\ f \in born
    BY <1>1 DEF ActivateLink, IInv, Seated
  <1>3. PICK new \in BOOLEAN : new = (Valid(Holds(c)) /\ UserOf(c) \notin rows[f])
    OBVIOUS
  <1>4. PICK free \in BOOLEAN : free = (entry[c] # 0 /\ open[c] = NoFile)
    OBVIOUS
  <1>5. PICK g : g = Freeze(gui[c])
    OBVIOUS
  <1>6. Asker(c, g) /\ g.fileId = gui[c].fileId
    BY <1>1, <1>5, Askers
  <1>7. PICK m : m = Answering("ACTIVATE_LINK", c, f)
    OBVIOUS
  <1>8. Valid(Holds(c)) => /\ m \in Letters /\ m.kind \in Opening /\ m.file = f /\ m.kind # "GET"
                           /\ m.users \subseteq members[f] /\ Joined(c) \in Letters
    <2>1. "ACTIVATE_LINK" \in Opening
      BY DEF Opening
    <2>2. QED
      BY <1>7, <2>1, TokenEntry, AnsweringIs
  <1>9. /\ rows' = IF new THEN [rows EXCEPT ![f] = @ \cup {UserOf(c)}] ELSE rows
        /\ past' = [past EXCEPT ![c] = @ \cup (IF ~ new THEN {} ELSE IF free THEN Switching(c) ELSE {"linked"})]
        /\ IF new /\ free
           THEN Enters(c, f, "ACTIVATE_LINK", g)
           ELSE /\ Asks(c, "FILE", "ACTIVATE_LINK", g, <<Fault>>)
                /\ UNCHANGED <<open, inFile, members, knows, server>>
    BY <1>3, <1>4, <1>5, <1>7 DEF ActivateLink
  <1>10. /\ Remembers /\ (\A k \in Clients \ {c} : past'[k] = past[k])
         /\ new /\ ~ free => "linked" \in past'[c]
         /\ new /\ free =>
              "switched" \in past'[c] \/ \A i \in At1(c) : down[c][i].kind \notin Opening \cup {"JOINED"}
    <2>1. PICK xs : xs = IF ~ new THEN {} ELSE IF free THEN Switching(c) ELSE {"linked"}
      OBVIOUS
    <2>2. past' = [past EXCEPT ![c] = @ \cup xs] /\ xs \in SUBSET Causes
      BY <1>1, <1>9, <2>1, SwitchingSays
    <2>3. Remembers
      BY <1>1, <2>2, PastKept
    <2>4. past'[c] = past[c] \cup xs /\ \A k \in Clients \ {c} : past'[k] = past[k]
      BY <1>1, <2>2 DEF ClientTyped
    <2>5. QED
      BY <1>1, <2>1, <2>3, <2>4, SwitchingSays
  <1>11. /\ \A h \in Files : rows[h] \subseteq rows'[h]
         /\ \A h \in Files \ {f} : rows'[h] = rows[h]
         /\ rows'[f] \subseteq rows[f] \cup {UserOf(c)} /\ (new => UserOf(c) \in rows'[f])
         /\ ~ new => rows' = rows
    BY <1>1, <1>9 DEF ServerTyped
  <1>12. CASE new /\ free
    <2>1. PICK r, T : /\ r \in Relayed(c, f) /\ T \in Told(c, f, r)
                      /\ Relays(c, "FILE", "ACTIVATE_LINK", g, r, <<m>>, T, Joined(c)) /\ Enter(c, f, r, T)
      BY <1>7, <1>9, <1>12 DEF Enters
    <2>2. /\ r \in {"done", "refused", "fallen"} /\ (r # "done" => Haunted)
          /\ r = "done" => T = Others(c, f)
          /\ \A k \in T : k \in inFile[f] /\ entry[k] # 0
      BY <1>1, <2>1, RelayHaunted, RelayedAre, ToldSeated
    <2>3. /\ gui' = [gui EXCEPT ![c] = g]
          /\ Delivers(c, CASE r = "done" -> <<m>> [] r = "refused" -> <<Fault>> [] r = "fallen" -> << >>, T, Joined(c))
          /\ server' = IF r = "fallen" THEN "fallen" ELSE server
      BY <2>1 DEF Relays
    <2>4. Enter(c, f, r, T) /\ Valid(Holds(c)) /\ born' = born \cup {f}
      BY <1>2, <1>3, <1>9, <1>12, <2>1
    <2>5. /\ Names(c, g, m) /\ m \in Letters /\ m.kind \in Opening /\ m.file = f
          /\ m.users \subseteq members[f] \cup {UserOf(c)} /\ Joined(c) \in Letters
      BY <1>6, <1>8, <2>4 DEF Names
    <2>6. /\ UserOf(c) \in rows'[f] /\ rows'[f] \subseteq rows[f] \cup {UserOf(c)}
          /\ (\A h \in Files : rows[h] \subseteq rows'[h]) /\ (\A h \in Files \ {f} : rows'[h] = rows[h])
      BY <1>11, <1>12
    <2>7. /\ Remembers /\ \A k \in Clients \ {c} : past'[k] = past[k]
          /\ "switched" \in past'[c] \/ \A i \in At1(c) : down[c][i].kind \notin Opening \cup {"JOINED"}
      BY <1>10, <1>12
    <2>8. /\ IInv /\ WInv /\ LoggedAt(c, "Browser") /\ Asker(c, g) /\ UNCHANGED <<entry, sessions, swept>>
          /\ Haunted \/ (r = "done" /\ T = Others(c, f))
          /\ T = {} \/ rows[f] # {}
          /\ \A k \in T : k \in inFile[f] /\ entry[k] # 0
      BY <1>1, <1>2, <1>6, <2>2
    <2>9. PICK n \in Letters : n = Joined(c)
      BY <2>5
    <2>10. /\ Delivers(c, CASE r = "done" -> <<m>> [] r = "refused" -> <<Fault>> [] r = "fallen" -> << >>, T, n)
           /\ T = {} \/ n = Joined(c)
      BY <2>3, <2>9
    <2>11. QED
      BY <2>2, <2>3, <2>4, <2>5, <2>6, <2>7, <2>8, <2>10, EnteringViews
  <1>13. CASE ~ (new /\ free)
    <2>1. /\ gui' = [gui EXCEPT ![c] = g] /\ Delivers(c, <<Fault>>, {}, Fault)
          /\ UNCHANGED <<open, inFile, members, knows, server>>
      BY <1>9, <1>13 DEF Asks
    <2>2. ASSUME NEW k \in Clients, Running(k), NEW h \in Viewed(k), Valid(Holds(k)), UserOf(k) \in rows'[h]
          PROVE  UserOf(k) \in rows[h] \/ "linked" \in past'[k]
      <3>1. CASE h # f \/ ~ new
        BY <1>11, <2>2, <3>1 DEF Viewed
      <3>2. CASE h = f /\ new
        <4>1. CASE k = c
          BY <1>10, <1>13, <3>2, <4>1
        <4>2. CASE k # c
          <5>1. entry[k] # 0 /\ sessions[entry[k]].user = UserOf(k)
            BY <2>2, TokenEntry
          <5>2. UserOf(k) # UserOf(c)
            BY <1>3, <3>2, <4>2, <5>1, OtherUser
          <5>3. QED
            BY <1>11, <2>2, <3>2, <5>2
        <4>3. QED
          BY <4>1, <4>2
      <3>3. QED
        BY <3>1, <3>2
    <2>3. born \subseteq born'
      BY <1>2
    <2>4. QED
      BY <1>1, <1>2, <1>6, <1>10, <1>11, <2>1, <2>2, <2>3, RefusedTables
  <1>14. QED
    BY <1>12, <1>13
-----------------------------------------------------------------------------
\* The file that was clicked is the one the answer is about, unless another was on its way.
LEMMA Clicked ==
  ASSUME ClientTyped, NEW c \in Clients, NEW f \in Files, gui'[c].win = "Browser", gui'[c].fileId = f,
         "crossed" \in past'[c] \/ \A i \in At1(c) : down[c][i].kind \notin Opening,
         down'[c] = down[c] \/ \E m \in Letters : (m.kind = "GET" => m.file = f) /\ down'[c] = Append(down[c], m)
  PROVE  Named(c)'
  <1>1. down[c] \in Seq(Letters)
    BY DEF ClientTyped
  <1>2. SUFFICES ASSUME \A i \in At1(c) : down[c][i].kind \notin Opening,
                        NEW i \in At1(c)', down'[c][i].kind = "GET"
                 PROVE  /\ down'[c][i].file = f
                        /\ \A j \in At1(c)' : j < i => down'[c][j].kind \notin Opening
    BY DEF Named
  <1>3. "GET" \in Opening
    BY DEF Opening
  <1>4. CASE down'[c] = down[c]
    BY <1>2, <1>3, <1>4 DEF At1
  <1>5. ASSUME NEW m \in Letters, m.kind = "GET" => m.file = f, down'[c] = Append(down[c], m)
        PROVE  /\ down'[c][i].file = f
               /\ \A j \in At1(c)' : j < i => down'[c][j].kind \notin Opening
    <2>3. \A j \in At1(c)' : \/ j \in At1(c) /\ down'[c][j] = down[c][j]
                             \/ j = Len(down[c]) + 1 /\ down'[c][j] = m
      BY <1>1, <1>5 DEF At1
    <2>4. i = Len(down[c]) + 1 /\ down'[c][i] = m
      BY <1>2, <1>3, <2>3
    <2>5. \A j \in At1(c)' : j < i => j \in At1(c) /\ down'[c][j] = down[c][j]
      BY <1>1, <2>3, <2>4 DEF At1
    <2>6. QED
      BY <1>2, <1>5, <2>4, <2>5
  <1>6. QED
    BY <1>4, <1>5

\* A file is clicked in the browser.
LEMMA OpenViews ==
  ASSUME IInv, WInv, NEW c \in Clients, NEW f \in Files, Open(c, f)
  PROVE  WInv'
  <1>1. /\ ClientTyped /\ ServerTyped /\ LoggedAt(c, "Browser") /\ gui[c].win = "Browser"
        /\ "crossed" \in Causes /\ gui[c] \in Guis /\ down[c] \in Seq(Letters)
    BY DEF IInv, Open, Causes, LoggedAt, At, ClientTyped
  <1>2. UNCHANGED <<entry, sessions, rows, born, swept>>
    BY DEF Open
  <1>3. PICK h : h = Freeze(gui[c])
    OBVIOUS
  <1>4. PICK g : g = [h EXCEPT !.fileId = f]
    OBVIOUS
  <1>5. Asker(c, g) /\ g.fileId = f /\ g.win = "Browser"
    <2>1. h \in Guis /\ Asker(c, h)
      BY <1>1, <1>3, Askers
    <2>2. QED
      BY <1>1, <1>4, <2>1 DEF Asker, Guis
  <1>6. PICK m : m = Answering("GET", c, f)
    OBVIOUS
  <1>7. /\ Fault \in Letters /\ Fault.kind # "GET"
        /\ Valid(Holds(c)) => /\ m \in Letters /\ m.kind \in Opening /\ m.file = f
                              /\ m.users \subseteq members[f] /\ Joined(c) \in Letters
    <2>1. "GET" \in Opening
      BY DEF Opening
    <2>2. QED
      BY <1>6, <2>1, PlainKinds, TokenEntry, AnsweringIs
  <1>8. IF Reaches(c, f) /\ entry[c] # 0 /\ open[c] = NoFile
        THEN Enters(c, f, "GET", g)
        ELSE Asks(c, "FILE", "GET", g, <<Fault>>) /\ UNCHANGED <<open, inFile, members, knows, server>>
    BY <1>3, <1>4 DEF Open
  <1>9. /\ Remembers /\ (\A k \in Clients \ {c} : past'[k] = past[k])
        /\ "crossed" \in past'[c] \/ \A i \in At1(c) : down[c][i].kind \notin Opening
        /\ Reaches(c, f) /\ entry[c] # 0 /\ open[c] = NoFile =>
             "switched" \in past'[c] \/ \A i \in At1(c) : down[c][i].kind \notin Opening \cup {"JOINED"}
    <2>1. PICK xs, ys : /\ xs = IF Awaits(c, Opening) THEN {"crossed"} ELSE {}
                        /\ ys = IF Reaches(c, f) /\ entry[c] # 0 /\ open[c] = NoFile THEN Switching(c) ELSE {}
      OBVIOUS
    <2>2. past' = [past EXCEPT ![c] = @ \cup xs \cup ys] /\ xs \cup ys \in SUBSET Causes
      BY <1>1, <2>1, SwitchingSays DEF Open
    <2>3. past' = [past EXCEPT ![c] = @ \cup (xs \cup ys)]
      BY <1>1, <2>2 DEF ClientTyped
    <2>4. Remembers
      BY <1>1, <2>2, <2>3, PastKept
    <2>5. past'[c] = past[c] \cup xs \cup ys /\ \A k \in Clients \ {c} : past'[k] = past[k]
      BY <1>1, <2>2 DEF ClientTyped
    <2>6. DOMAIN down[c] = At1(c)
      BY <1>1 DEF At1
    <2>7. "crossed" \in xs \/ \A i \in At1(c) : down[c][i].kind \notin Opening
      BY <2>1, <2>6 DEF Awaits
    <2>8. Reaches(c, f) /\ entry[c] # 0 /\ open[c] = NoFile =>
            "switched" \in ys \/ \A i \in At1(c) : down[c][i].kind \notin Opening \cup {"JOINED"}
      BY <1>1, <2>1, SwitchingSays
    <2>9. QED
      BY <2>4, <2>5, <2>7, <2>8
  <1>10. ASSUME NEW answers, answers \in {<<Fault>>, << >>} \/ (Valid(Holds(c)) /\ answers = <<m>>),
                NEW T, NEW n, Delivers(c, answers, T, n), gui' = [gui EXCEPT ![c] = g]
         PROVE  Named(c)'
    <2>1. gui'[c] = g /\ down'[c] = down[c] \o answers
      BY <1>1, <1>10 DEF Delivers, ClientTyped
    <2>2. /\ Valid(Holds(c)) => down[c] \o <<m>> = Append(down[c], m)
          /\ down[c] \o <<Fault>> = Append(down[c], Fault)
          /\ down[c] \o << >> = down[c]
      BY <1>1, <1>7
    <2>3. down'[c] = down[c] \/ \E x \in Letters : (x.kind = "GET" => x.file = f) /\ down'[c] = Append(down[c], x)
      BY <1>7, <1>10, <2>1, <2>2
    <2>4. QED
      BY <1>1, <1>5, <1>9, <2>1, <2>3, Clicked
  <1>11. CASE Reaches(c, f) /\ entry[c] # 0 /\ open[c] = NoFile
    <2>1. PICK r, T : /\ r \in Relayed(c, f) /\ T \in Told(c, f, r)
                      /\ Relays(c, "FILE", "GET", g, r, <<m>>, T, Joined(c)) /\ Enter(c, f, r, T)
      BY <1>6, <1>8, <1>11 DEF Enters
    <2>2. rows[f] # {} /\ f \in born /\ Valid(Holds(c)) /\ UserOf(c) \in rows[f]
      BY <1>11 DEF Reaches, IInv, Seated
    <2>3. /\ r \in {"done", "refused", "fallen"} /\ (r # "done" => Haunted)
          /\ r = "done" => T = Others(c, f)
          /\ \A k \in T : k \in inFile[f] /\ entry[k] # 0
      BY <2>1, <2>2, RelayHaunted, RelayedAre, ToldSeated
    <2>4. PICK answers : answers = CASE r = "done" -> <<m>> [] r = "refused" -> <<Fault>> [] r = "fallen" -> << >>
      OBVIOUS
    <2>5. /\ gui' = [gui EXCEPT ![c] = g] /\ Delivers(c, answers, T, Joined(c))
          /\ server' = IF r = "fallen" THEN "fallen" ELSE server
      BY <2>1, <2>4 DEF Relays
    <2>6. Delivers(c, CASE r = "done" -> <<m>> [] r = "refused" -> <<Fault>> [] r = "fallen" -> << >>, T, Joined(c))
      BY <2>4, <2>5
    <2>7. answers \in {<<Fault>>, << >>} \/ answers = <<m>>
      BY <2>3, <2>4
    <2>8. /\ Names(c, g, m) /\ m \in Letters /\ m.kind \in Opening /\ m.file = f
          /\ m.users \subseteq members[f] \cup {UserOf(c)} /\ Joined(c) \in Letters
      BY <1>7, <1>10, <2>2, <2>5, <2>7 DEF Names
    <2>9. /\ Enter(c, f, r, T) /\ born' = born \cup {f} /\ UserOf(c) \in rows'[f]
          /\ rows'[f] \subseteq rows[f] \cup {UserOf(c)}
          /\ (\A x \in Files : rows[x] \subseteq rows'[x]) /\ (\A x \in Files \ {f} : rows'[x] = rows[x])
      BY <1>2, <1>11, <2>1, <2>2
    <2>10. "switched" \in past'[c] \/ \A i \in At1(c) : down[c][i].kind \notin Opening \cup {"JOINED"}
      BY <1>9, <1>11
    <2>11. QED
      BY <1>1, <1>2, <1>5, <1>9, <2>2, <2>3, <2>5, <2>6, <2>8, <2>9, <2>10, EnteringViews
  <1>12. CASE ~ (Reaches(c, f) /\ entry[c] # 0 /\ open[c] = NoFile)
    <2>1. /\ gui' = [gui EXCEPT ![c] = g] /\ Delivers(c, <<Fault>>, {}, Fault)
          /\ UNCHANGED <<open, inFile, members, knows, server>>
      BY <1>8, <1>12 DEF Asks
    <2>2. Named(c)'
      BY <1>10, <2>1
    <2>3. /\ born \subseteq born' /\ (\A x \in Files : rows[x] \subseteq rows'[x])
          /\ \A k \in Clients : Running(k) => \A x \in Viewed(k) : Valid(Holds(k)) /\ UserOf(k) \in rows'[x] =>
               UserOf(k) \in rows[x] \/ "linked" \in past'[k]
      BY <1>2
    <2>4. QED
      BY <1>1, <1>2, <1>5, <1>9, <2>1, <2>2, <2>3, RefusedTables
  <1>13. QED
    BY <1>11, <1>12
-----------------------------------------------------------------------------
\* Those that have a file open with c list the user of c.
LEMMA AllList ==
  ASSUME IInv, WInv, NEW c \in Clients, NEW f \in Files, open[c] = f,
         NEW k \in Clients, k \in inFile[f], sessions[entry[c]].user \notin knows[k]
  PROVE  Excuse
  <1>1. SUFFICES ASSUME ~ Haunted PROVE FALSE
    BY DEF Haunted, Excuse
  <1>2. sessions[entry[c]].user \in rows[f] \cap members[f]
    BY <1>1 DEF WInv, SeatInv
  <1>3. open[k] = f
    BY <1>1, <1>2 DEF IInv, Seated, Haunted
  <1>4. members[f] \subseteq knows[k]
    BY <1>1, <1>3 DEF WInv, SeatInv
  <1>5. QED
    BY <1>2, <1>4

\* Where nobody is told, it is of nothing.
LEMMA ToldNobody ==
  ASSUME NEW c \in Clients, NEW answers, NEW m, NEW n, Delivers(c, answers, {}, m)
  PROVE  Delivers(c, answers, {}, n)
  BY DEF Delivers

\* The notice that someone has left, as it is sent.
LEMMA StrangerIs ==
  /\ Stranger \in Letters /\ Stranger.kind = "STRANGER"
  /\ \A k \in Clients : Stranger \in Notices(k) /\ Stranger \in Greetings(k)
  <1>1. Stranger \in Letters /\ Stranger.kind = "STRANGER"
    BY Plainness DEF Kinds, FileIds, Stranger, Bare, Msg
  <1>2. QED
    BY <1>1 DEF Notices, Greetings

\* The client c leaves its file, and may sign off. Those of S are told, who are in a
\* list and end over it.
LEMMA LeavingViews ==
  ASSUME IInv, WInv, NEW c \in Clients,
         \A k \in Clients \ {c} : gui'[k] = gui[k] /\ past'[k] = past[k],
         NEW answers, NEW S, Delivers(c, answers, S, Stranger),
         \A k \in S : \E h \in Files : k \in inFile[h], S = {} \/ Excuse,
         entry' = entry \/ entry' = [entry EXCEPT ![c] = 0], open' = [open EXCEPT ![c] = NoFile],
         \A h \in Files : inFile[h] \ {c} \subseteq inFile'[h] /\ inFile'[h] \subseteq inFile[h],
         \/ sessions' = sessions
         \/ entry[c] # 0 /\ sessions' = [sessions EXCEPT ![entry[c]].active = FALSE],
         UNCHANGED <<rows, members, knows, born, swept>>, server' \in {server, "fallen"}, Remembers,
         gui'[c].token = gui[c].token, gui'[c].ended = gui[c].ended,
         \/ gui'[c].win # "Editor"
         \/ gui'[c].win = gui[c].win /\ gui'[c].shown = gui[c].shown,
         NEW new, Onward(down[c], down'[c], 0, new), down'[c] \in Seq(Letters),
         \A m \in new : m.kind \notin Opening, \A m \in new : m.kind # "STRANGER",
         ClientParts(c)'
  PROVE  WInv'
  <1>1. /\ ClientTyped /\ ServerTyped /\ WindowsTyped /\ SeatInv /\ MemberInv
    BY DEF IInv, WInv
  <1>2. Haunted => Haunted'
    BY DEF Haunted, Remembers
  <1>3. /\ \A k \in Clients \ {c} : entry'[k] = entry[k] /\ open'[k] = open[k]
        /\ open'[c] = NoFile
    BY <1>1 DEF ServerTyped
  <1>4. \A t \in 1 .. Len(sessions) :
          /\ sessions'[t].user = sessions[t].user /\ (sessions'[t].active => sessions[t].active)
          /\ t # entry[c] => sessions'[t] = sessions[t]
    <2>1. CASE sessions' = sessions
      BY <2>1
    <2>2. CASE entry[c] # 0 /\ sessions' = [sessions EXCEPT ![entry[c]].active = FALSE]
      <3>1. PICK e : e = entry[c]
        OBVIOUS
      <3>2. /\ sessions \in Seq(Sessions) /\ sessions' = [sessions EXCEPT ![e].active = FALSE]
            /\ \A t \in 1 .. Len(sessions) : sessions[t] \in Sessions
        BY <1>1, <2>2, <3>1 DEF ServerTyped
      <3>3. PICK r : r = [sessions[e] EXCEPT !.active = FALSE]
        OBVIOUS
      <3>4. sessions' = [sessions EXCEPT ![e] = r] /\ sessions \in [1 .. Len(sessions) -> Sessions]
        BY <3>2, <3>3
      <3>5. \A t \in 1 .. Len(sessions) : sessions'[t] = IF t = e THEN r ELSE sessions[t]
        BY <3>4
      <3>6. e \in 1 .. Len(sessions) => r.user = sessions[e].user /\ ~ r.active
        BY <3>2, <3>3 DEF Sessions
      <3>7. QED
        BY <3>1, <3>5, <3>6
    <2>3. QED
      BY <2>1, <2>2
  <1>5. \A k \in Clients : gui[k].token \in 0 .. Len(sessions) /\ entry[k] \in 0 .. Len(sessions)
    BY DEF IInv, Tokens, Held
  <1>6. \A k \in Clients \ {c} : entry[k] # 0 => sessions'[entry[k]] = sessions[entry[k]]
    <2>1. ASSUME NEW k \in Clients \ {c}, entry[k] # 0
          PROVE  entry[k] # entry[c]
      BY <2>1 DEF IInv, SessionsMatch
    <2>2. \A k \in Clients : entry[k] # 0 => entry[k] \in 1 .. Len(sessions)
      BY <1>1, <1>5 DEF ServerTyped
    <2>3. QED
      BY <1>4, <2>1, <2>2
  <1>14. \A k \in Clients \ {c} :
           /\ down'[k] \in Seq(Letters) /\ Onward(down[k], down'[k], 0, {Stranger})
           /\ down'[k] = down[k] \/ (k \in S /\ Running(k))
    BY <1>1, StrangerIs, ToldOthers
  <1>7. Aside(c)
    <2>1. ASSUME NEW k \in Clients \ {c}
          PROVE  /\ down'[k] \in Seq(Letters) /\ Onward(down[k], down'[k], 0, Notices(k))
                 /\ Onward(down[k], down'[k], 0, Greetings(k))
                 /\ down'[k] = down[k] \/ (Running(k) /\ gui[k].conn = "made")
      <3>1. Stranger \in Notices(k) /\ Stranger \in Greetings(k)
        BY StrangerIs
      <3>2. Onward(down[k], down'[k], 0, Notices(k)) /\ Onward(down[k], down'[k], 0, Greetings(k))
        BY <1>14, <3>1 DEF Onward
      <3>3. QED
        BY <1>14, <3>2, LinkedMade
    <2>2. \A k \in Clients \ {c} : \A h \in Files : k \in inFile'[h] => k \in inFile[h]
      OBVIOUS
    <2>3. QED
      BY <1>3, <1>6, <2>1, <2>2 DEF Aside
  <1>8. SeatInv'
    <2>1. SUFFICES ASSUME ~ Haunted, NEW k \in Clients, NEW h \in Files, open'[k] = h
                   PROVE  /\ k \in inFile'[h] /\ entry'[k] # 0
                          /\ sessions'[entry'[k]].user \in rows[h] \cap members[h]
                          /\ members[h] \subseteq knows[k]
      BY <1>2 DEF SeatInv
    <2>2. k # c /\ open[k] = h
      BY <1>3, <2>1, ClientViewAssumption
    <2>3. /\ k \in inFile[h] /\ entry[k] # 0 /\ sessions[entry[k]].user \in rows[h] \cap members[h]
          /\ members[h] \subseteq knows[k]
      BY <1>1, <2>1, <2>2 DEF SeatInv
    <2>4. QED
      BY <1>3, <1>6, <2>2, <2>3
  <1>9. \A k \in Clients : Viewed(k)' \subseteq Viewed(k) /\ gui'[k].token = gui[k].token /\ (Running(k)' <=> Running(k))
    <2>1. \A k \in Clients \ {c} :
            Viewed(k)' \subseteq Viewed(k) /\ gui'[k].token = gui[k].token /\ (Running(k)' <=> Running(k))
      BY <1>1, <1>7, AsideViews
    <2>2. Viewed(c)' \subseteq Viewed(c)
      BY <1>1, ViewedStays DEF ClientTyped
    <2>3. Running(c)' <=> Running(c)
      BY DEF Running
    <2>4. QED
      BY <2>1, <2>2, <2>3
  <1>10. MemberInv'
    <2>1. SUFFICES ASSUME NEW k \in Clients, Running(k)', NEW h \in Viewed(k)'
                   PROVE  /\ h \in born
                          /\ Valid(Holds(k))' /\ UserOf(k)' \in rows[h] =>
                               UserOf(k)' \in members[h] \/ Haunted' \/ "linked" \in past'[k]
      BY DEF MemberInv
    <2>2. h \in Viewed(k) /\ Running(k)
      BY <1>9, <2>1
    <2>3. ASSUME Valid(Holds(k))'
          PROVE  Valid(Holds(k)) /\ UserOf(k)' = UserOf(k)
      <3>1. gui'[k].token = gui[k].token /\ gui[k].token # 0
        BY <1>9, <2>3 DEF Valid, Holds
      <3>2. gui[k].token \in 1 .. Len(sessions)
        BY <1>1, <1>5, <3>1 DEF ServerTyped
      <3>3. QED
        BY <1>4, <2>3, <3>1, <3>2 DEF Valid, Holds, UserOf
    <2>4. past[k] \subseteq past'[k]
      BY DEF Remembers
    <2>5. QED
      BY <1>1, <1>2, <2>2, <2>3, <2>4 DEF MemberInv
  <1>11. StrangerInv'
    <2>1. ASSUME NEW k \in Clients, \E i \in At1(k)' : down'[k][i].kind = "STRANGER"
          PROVE  Excuse \/ \E i \in At1(k) : down[k][i].kind = "STRANGER"
      <3>1. CASE k = c
        <4>1. \A l \in 1 .. Len(down'[c]) : down'[c][l] \in new \/ \E j \in 1 .. Len(down[c]) : down[c][j] = down'[c][l]
          BY <1>1, OnwardOld DEF ClientTyped
        <4>2. QED
          BY <2>1, <3>1, <4>1 DEF At1
      <3>2. CASE k # c
        BY <1>14, <2>1, <3>2 DEF At1
      <3>3. QED
        BY <3>1, <3>2
    <2>2. \A k \in Clients : gui'[k].ended = gui[k].ended
      OBVIOUS
    <2>3. StrangerInv
      BY DEF WInv
    <2>4. QED
      BY <2>1, <2>2, <2>3, StrangersStay
  <1>12. WindowsTyped'
    BY <1>1 DEF WindowsTyped
  <1>13. QED
    BY <1>7, <1>8, <1>10, <1>11, <1>12, Gathers

\* Those who are told that c has left, by its entry: all of them are in the list of its
\* file, and there are some only for a cause.
LEMMA LeftTold ==
  ASSUME IInv, WInv, NEW c \in Clients, NEW S, S = NotListing(sessions[entry[c]].user, Left(c))
  PROVE  (\A k \in S : \E h \in Files : k \in inFile[h]) /\ (S = {} \/ Excuse)
  <1>1. open[c] \in FileIds /\ inFile \in [Files -> SUBSET Clients]
    BY DEF IInv, ServerTyped
  <1>2. CASE open[c] = NoFile
    BY <1>2 DEF NotListing, Left
  <1>3. CASE open[c] # NoFile
    <2>1. PICK f \in Files : open[c] = f
      BY <1>1, <1>3 DEF FileIds
    <2>2. \A k \in S : k \in inFile[f] /\ k \in Clients /\ sessions[entry[c]].user \notin knows[k]
      BY <1>1, <1>3, <2>1 DEF NotListing, Left
    <2>3. QED
      BY <2>1, <2>2, AllList
  <1>4. QED
    BY <1>2, <1>3

\* The server notices that a client is gone.
LEMMA GoneViews ==
  ASSUME IInv, WInv, NEW c \in Clients, Gone(c)
  PROVE  WInv'
  <1>1. /\ ClientTyped /\ ServerTyped /\ ClientParts(c) /\ ~ Running(c) /\ entry[c] # 0 /\ SignOff(c)
        /\ Delivers(c, << >>, NotListing(sessions[entry[c]].user, Left(c)), Stranger)
        /\ UNCHANGED <<gui, rows, members, born, knows, server, swept, past>>
    BY DEF IInv, WInv, Gone, history
  <1>2. Remembers
    BY <1>1, PastKept
  <1>3. /\ entry' = [entry EXCEPT ![c] = 0] /\ open' = [open EXCEPT ![c] = NoFile]
        /\ sessions' = [sessions EXCEPT ![entry[c]].active = FALSE]
        /\ \A h \in Files : inFile[h] \ {c} \subseteq inFile'[h] /\ inFile'[h] \subseteq inFile[h]
    BY <1>1 DEF SignOff
  <1>12. down'[c] = down[c] /\ down[c] \in Seq(Letters)
    BY <1>1, Answered, PlainKinds DEF ClientTyped
  <1>4. down[c] = << >> /\ entry'[c] = 0 /\ open'[c] = NoFile /\ ~ Running(c)'
    BY <1>1, <1>3 DEF ClientParts, Linked, Running, ServerTyped
  <1>5. \A i : i \notin At1(c)'
    BY <1>4, <1>12 DEF At1
  <1>6. Linked(c)' /\ Unlogged(c)'
    BY <1>1, <1>4, <1>5, <1>12 DEF ClientParts, Linked, Unlogged
  <1>7. Entered(c)' /\ Frozen(c)' /\ Named(c)' /\ Covered(c)'
    BY <1>4, <1>5 DEF Entered, Frozen, Named, Covered
  <1>13. Joining(c)'
    BY <1>1, <1>4, <1>5 DEF ClientParts, Joining
  <1>8. ClientParts(c)'
    BY <1>6, <1>7, <1>13 DEF ClientParts
  <1>9. PICK new : new = {} /\ down'[c] \in Seq(Letters) /\ Onward(down[c], down'[c], 0, new)
    <2>2. Onward(down[c], down'[c], 0, {})
      BY <1>12 DEF Onward
    <2>3. QED
      BY <1>12, <2>2
  <1>10. /\ (\A m \in new : m.kind \notin Opening) /\ (\A m \in new : m.kind # "STRANGER")
         /\ gui'[c].token = gui[c].token /\ gui'[c].ended = gui[c].ended
         /\ gui'[c].win = gui[c].win /\ gui'[c].shown = gui[c].shown
         /\ server' \in {server, "fallen"}
         /\ \A k \in Clients \ {c} : gui'[k] = gui[k] /\ past'[k] = past[k]
    BY <1>1, <1>9
  <1>14. PICK S : S = NotListing(sessions[entry[c]].user, Left(c))
    OBVIOUS
  <1>15. (\A k \in S : \E h \in Files : k \in inFile[h]) /\ (S = {} \/ Excuse)
    BY <1>1, <1>14, LeftTold
  <1>16. Delivers(c, << >>, S, Stranger)
    BY <1>1, <1>14
  <1>11. QED
    BY <1>1, <1>2, <1>3, <1>8, <1>9, <1>10, <1>15, <1>16, LeavingViews
-----------------------------------------------------------------------------
\* The window that is shown at once, whatever the answer: nothing that was on its
\* way is lost, and at most one refusal is added.
LEMMA TurningParts ==
  ASSUME ClientTyped, NEW c \in Clients, ClientParts(c), NEW g, gui'[c] = g,
         g.ended = gui[c].ended, g.conn = gui[c].conn, g.timer = gui[c].timer, g.token = gui[c].token,
         g.frozen = gui[c].frozen, g.win # "Editor", g.fileId = gui[c].fileId, g.shown = gui[c].shown,
         server = "up", Running(c), gui[c].conn = "made", gui[c].win \notin gui[c].frozen,
         NEW new, Onward(down[c], down'[c], 0, new), down'[c] \in Seq(Letters), new \subseteq {Fault},
         past[c] \subseteq past'[c], swept'[c] = swept[c]
  PROVE  /\ Linked(c)' /\ Frozen(c)' /\ Named(c)' /\ (Running(c)' <=> Running(c))
         /\ entry'[c] = entry[c] /\ (entry[c] # 0 => sessions'[entry[c]].active = sessions[entry[c]].active) =>
              Entered(c)'
         /\ (Haunted => Haunted') /\ open'[c] = open[c]
              /\ (Covered(c) => Haunted \/ gui[c].win # "Editor" \/ gui[c].shown # open[c] \/ open[c] = NoFile
                                \/ past[c] \cap {"returned", "covered", "crossed"} # {}
                                \/ \E i \in At1(c) : down[c][i].kind \in Covering) =>
              Covered(c)'
         /\ knows[c] \subseteq knows'[c] /\ open'[c] \in {open[c], NoFile} /\ (Haunted => Haunted') => Joining(c)'
  <1>1. down \in [Clients -> Seq(Letters)] /\ Linked(c) /\ Entered(c) /\ Frozen(c) /\ Named(c) /\ Covered(c)
    BY DEF ClientTyped, ClientParts
  <1>2. /\ \A m \in new : m.kind # "LOGIN" /\ (m.kind \in Opening => gui[c].token = entry[c])
        /\ \A m \in new : m.kind # "GET"
        /\ \A m \in new : m.kind \notin Covering
    BY PlainKinds DEF Covering, Opening
  <1>3. Running(c)' <=> Running(c)
    BY DEF Running
  <1>4. Linked(c)'
    BY <1>1, <1>3 DEF Linked, Running
  <1>10. ASSUME knows[c] \subseteq knows'[c], open'[c] \in {open[c], NoFile}, Haunted => Haunted'
         PROVE  Joining(c)'
    <2>1. Joining(c) /\ \A m \in new : m.kind \notin Opening /\ m.kind # "ICON" /\ m.kind # "JOINED"
      BY PlainKinds DEF Covering, Unasked, ClientParts
    <2>2. (0 = 1 => down[c][1].kind \notin Opening) /\ (Running(c)' => Running(c))
      BY <1>3
    <2>3. QED
      BY <1>1, <1>10, <2>1, <2>2, JoiningStays
  <1>5. Frozen(c)'
    BY <1>1, FrozenAsked
  <1>6. Named(c)'
    BY <1>1, <1>2, <1>3, NamedStays
  <1>7. ASSUME entry'[c] = entry[c], entry[c] # 0 => sessions'[entry[c]].active = sessions[entry[c]].active
        PROVE  Entered(c)'
    <2>1. 0 = 1 => down[c][1].kind # "LOGIN"
      OBVIOUS
    <2>2. QED
      BY <1>1, <1>2, <1>3, <1>7, <2>1, EnteredStays
  <1>8. ASSUME Haunted => Haunted', open'[c] = open[c],
               \/ Haunted \/ gui[c].win # "Editor" \/ gui[c].shown # open[c] \/ open[c] = NoFile
               \/ past[c] \cap {"returned", "covered", "crossed"} # {}
               \/ \E i \in At1(c) : down[c][i].kind \in Covering
        PROVE  Covered(c)'
    <2>1. CASE Haunted \/ open[c] = NoFile \/ past[c] \cap {"returned", "covered", "crossed"} # {}
      BY <1>8, <2>1 DEF Covered
    <2>2. CASE gui[c].win # "Editor" \/ \E i \in At1(c) : down[c][i].kind \in Covering
      <3>1. (0 = 1 => down[c][1].kind \notin Opening) /\ open'[c] \in {open[c], NoFile}
        BY <1>8
      <3>2. QED
        BY <1>1, <1>2, <1>3, <1>8, <2>2, <3>1, CoveredStays
    <2>3. CASE /\ gui[c].shown # open[c] /\ ~ Haunted /\ open[c] # NoFile
               /\ past[c] \cap {"returned", "covered", "crossed"} = {}
      <3>1. \E i \in At1(c) : down[c][i].kind \in Covering
        BY <1>1, <2>3 DEF Covered, Covering
      <3>2. QED
        BY <2>2, <3>1
    <2>4. QED
      BY <1>8, <2>1, <2>2, <2>3
  <1>9. QED
    BY <1>1, <1>3, <1>4, <1>5, <1>6, <1>7, <1>8, <1>10

\* The client has the file of its editor open at the server, and no login is on its
\* way: its token is that of its entry.
LEMMA OwnToken ==
  ASSUME IInv, WInv, NEW c \in Clients, Running(c), ~ Haunted, open[c] # NoFile,
         \A i \in At1(c) : down[c][i].kind # "LOGIN"
  PROVE  /\ open[c] \in Files /\ Valid(Holds(c)) /\ entry[c] # 0 /\ UserOf(c) \in rows[open[c]]
  <1>1. open[c] \in Files
    BY DEF IInv, ServerTyped, FileIds
  <1>2. entry[c] # 0 /\ sessions[entry[c]].user \in rows[open[c]]
    BY <1>1 DEF WInv, SeatInv
  <1>3. gui[c].token = entry[c] /\ sessions[entry[c]].active
    BY <1>2 DEF WInv, ClientParts, Entered
  <1>4. QED
    BY <1>1, <1>2, <1>3 DEF Valid, Holds, UserOf
-----------------------------------------------------------------------------
\* What is sent to none but c, a refusal or nothing.
LEMMA FaultAtMost ==
  ASSUME ClientTyped, NEW c \in Clients, NEW g, gui' = [gui EXCEPT ![c] = g],
         Delivers(c, <<Fault>>, {}, Fault) \/ Delivers(c, << >>, {}, Fault)
  PROVE  /\ gui'[c] = g /\ \A k \in Clients \ {c} : gui'[k] = gui[k] /\ down'[k] = down[k]
         /\ \E new \in SUBSET {Fault} : Onward(down[c], down'[c], 0, new) /\ down'[c] \in Seq(Letters)
         /\ \A m \in {Fault} : m.kind \notin Opening /\ m.kind # "STRANGER"
  <1>1. gui'[c] = g /\ \A k \in Clients \ {c} : gui'[k] = gui[k] /\ down'[k] = down[k]
    BY DEF ClientTyped, Delivers
  <1>2. Fault \in Letters /\ Fault.kind \notin Covering \cup Unasked
    BY PlainKinds
  <1>3. \E new \in SUBSET {Fault} : Onward(down[c], down'[c], 0, new) /\ down'[c] \in Seq(Letters)
    <2>1. CASE Delivers(c, <<Fault>>, {}, Fault)
      <3>1. Onward(down[c], down'[c], 0, {Fault}) /\ down'[c] \in Seq(Letters)
        BY <1>2, <2>1, Answered
      <3>2. QED
        BY <3>1
    <2>2. CASE Delivers(c, << >>, {}, Fault)
      <3>1. Onward(down[c], down'[c], 0, {}) /\ down'[c] \in Seq(Letters)
        BY <1>2, <2>2, Answered
      <3>2. QED
        BY <3>1
    <2>3. QED
      BY <2>1, <2>2
  <1>4. QED
    BY <1>1, <1>2, <1>3 DEF Covering, Unasked

\* The same of c, whoever else is sent something.
LEMMA FaultOwn ==
  ASSUME ClientTyped, NEW c \in Clients, NEW g, gui' = [gui EXCEPT ![c] = g], NEW S, NEW n,
         Delivers(c, <<Fault>>, S, n) \/ Delivers(c, << >>, S, n)
  PROVE  /\ gui'[c] = g /\ \A k \in Clients \ {c} : gui'[k] = gui[k]
         /\ \E new \in SUBSET {Fault} : Onward(down[c], down'[c], 0, new) /\ down'[c] \in Seq(Letters)
         /\ \A m \in {Fault} : m.kind \notin Opening /\ m.kind # "STRANGER"
  <1>1. gui'[c] = g /\ \A k \in Clients \ {c} : gui'[k] = gui[k]
    BY DEF ClientTyped
  <1>2. Fault \in Letters /\ Fault.kind \notin Covering \cup Unasked
    BY PlainKinds
  <1>3. \E new \in SUBSET {Fault} : Onward(down[c], down'[c], 0, new) /\ down'[c] \in Seq(Letters)
    <2>1. CASE Delivers(c, <<Fault>>, S, n)
      <3>1. Onward(down[c], down'[c], 0, {Fault}) /\ down'[c] \in Seq(Letters)
        BY <1>2, <2>1, Answered
      <3>2. QED
        BY <3>1
    <2>2. CASE Delivers(c, << >>, S, n)
      <3>1. Onward(down[c], down'[c], 0, {}) /\ down'[c] \in Seq(Letters)
        BY <1>2, <2>2, Answered
      <3>2. QED
        BY <3>1
    <2>3. QED
      BY <2>1, <2>2
  <1>4. QED
    BY <1>1, <1>2, <1>3 DEF Covering, Unasked

\* The browser or the login is shown and the server refuses: nothing at the server is other.
LEMMA RefusedTurn ==
  ASSUME IInv, WInv, NEW c \in Clients, NEW g, gui' = [gui EXCEPT ![c] = g], Delivers(c, <<Fault>>, {}, Fault),
         ClientParts(c)', g.ended = gui[c].ended, g.token = gui[c].token, g.win # "Editor",
         Remembers, \A k \in Clients \ {c} : past'[k] = past[k],
         UNCHANGED <<entry, open, inFile, rows, members, knows, sessions, born, server, swept>>
  PROVE  WInv'
  <1>1. ClientTyped
    BY DEF IInv
  <1>2. /\ gui'[c] = g /\ \A k \in Clients \ {c} : gui'[k] = gui[k] /\ down'[k] = down[k]
        /\ \A m \in {Fault} : m.kind \notin Opening /\ m.kind # "STRANGER"
    BY <1>1, FaultAtMost
  <1>3. PICK new \in SUBSET {Fault} : Onward(down[c], down'[c], 0, new) /\ down'[c] \in Seq(Letters)
    BY <1>1, FaultAtMost
  <1>4. Asked(c, g, new) /\ Rest(c)
    BY <1>2, <1>3 DEF Asked, Rest
  <1>5. Still(c)
    BY <1>1, <1>4, AskedStill
  <1>6. (\A m \in new : m.kind \notin Opening) /\ (\A m \in new : m.kind # "STRANGER")
    BY <1>2
  <1>7. Viewed(c)' \subseteq Viewed(c)
    BY <1>1, <1>2, <1>3, <1>6, ViewedStays DEF ClientTyped
  <1>8. (\E i \in At1(c)' : down'[c][i].kind = "STRANGER") => \E i \in At1(c) : down[c][i].kind = "STRANGER"
    <2>1. \A l \in 1 .. Len(down'[c]) : down'[c][l] \in new \/ \E j \in 1 .. Len(down[c]) : down[c][j] = down'[c][l]
      BY <1>1, <1>3, OnwardOld DEF ClientTyped
    <2>2. QED
      BY <1>6, <2>1 DEF At1
  <1>9. /\ Running(c)' => Running(c) /\ Viewed(c)' \subseteq Viewed(c) /\ gui'[c].token = gui[c].token
        /\ gui'[c].ended = gui[c].ended
    BY <1>2, <1>7 DEF Running
  <1>10. swept' \in [Clients -> SUBSET Windows] /\ server' \in {server, "fallen"}
    BY DEF WInv, WindowsTyped
  <1>11. QED
    BY <1>5, <1>8, <1>9, <1>10, ServerStays

\* A file that is closed from its editor is the one the server keeps open.
LEMMA CloseViews ==
  ASSUME IInv, WInv, NEW c \in Clients, EditorClose(c)
  PROVE  WInv'
  <1>1. /\ ClientTyped /\ ServerTyped /\ ClientParts(c) /\ gui[c] \in Guis /\ "Browser" \in Windows
    BY DEF IInv, WInv, ClientTyped, Windows
  <1>2. /\ server = "up" /\ Running(c) /\ gui[c].conn = "made" /\ gui[c].win = "Editor"
        /\ gui[c].win \notin gui[c].frozen /\ gui[c].logged
    BY DEF EditorClose, LoggedAt, At
  <1>3. UNCHANGED <<entry, sessions, rows, members, born, knows, swept, past>> /\ Remembers
    <2>1. UNCHANGED <<entry, store, knows, history>>
      BY DEF EditorClose
    <2>2. UNCHANGED <<entry, sessions, rows, members, born, knows, swept, past>>
      BY <2>1 DEF store, history
    <2>3. QED
      BY <1>1, <2>2, PastKept
  <1>4. PICK f : f = gui[c].fileId
    OBVIOUS
  <1>5. PICK g : g = Show(gui[c], "Browser")
    OBVIOUS
  <1>6. /\ g.frozen = gui[c].frozen /\ g.win = "Browser" /\ g.ended = gui[c].ended
        /\ g.conn = gui[c].conn /\ g.timer = gui[c].timer /\ g.token = gui[c].token
        /\ g.logged = gui[c].logged /\ g.fileId = gui[c].fileId /\ g.shown = gui[c].shown
    BY <1>1, <1>5, GuiFields
  <1>7. IF Reaches(c, f) /\ entry[c] # 0 /\ open[c] = f
        THEN /\ Leaves(c, f, g)
             /\ inFile' = [inFile EXCEPT ![f] = @ \ {c}] /\ open' = [open EXCEPT ![c] = NoFile]
        ELSE Asks(c, "FILE", "CLOSE", g, <<Fault>>) /\ UNCHANGED <<inFile, open, server>>
    BY <1>4, <1>5 DEF EditorClose
  <1>8. ASSUME gui' = [gui EXCEPT ![c] = g], Covered(c)', open'[c] \in {open[c], NoFile}, NEW S, NEW n,
               Delivers(c, <<Fault>>, S, n) \/ Delivers(c, << >>, S, n)
        PROVE  ClientParts(c)'
    <2>1. gui'[c] = g
      BY <1>1, <1>8, FaultOwn
    <2>2. PICK new \in SUBSET {Fault} : Onward(down[c], down'[c], 0, new) /\ down'[c] \in Seq(Letters)
      BY <1>1, <1>8, FaultOwn
    <2>3. g.win # "Editor" /\ new \subseteq {Fault} /\ past[c] \subseteq past'[c] /\ swept'[c] = swept[c]
      BY <1>3, <1>6, <2>2
    <2>4. Linked(c)' /\ Frozen(c)' /\ Named(c)' /\ Entered(c)'
      <3>1. entry'[c] = entry[c] /\ (entry[c] # 0 => sessions'[entry[c]].active = sessions[entry[c]].active)
        BY <1>3
      <3>2. QED
        BY <1>1, <1>2, <1>6, <2>1, <2>2, <2>3, <3>1, TurningParts
    <2>5. Unlogged(c)'
      BY <1>2, <1>6, <2>1 DEF Unlogged, Running
    <2>7. Joining(c)'
      <3>1. knows[c] \subseteq knows'[c] /\ (Haunted => Haunted')
        BY <1>3 DEF Haunted
      <3>2. QED
        BY <1>1, <1>2, <1>6, <1>8, <2>1, <2>2, <2>3, <3>1, TurningParts
    <2>6. QED
      BY <1>8, <2>4, <2>5, <2>7 DEF ClientParts
  <1>9. CASE Reaches(c, f) /\ entry[c] # 0 /\ open[c] = f
    <2>1. PICK r, T : /\ r \in Relayed(c, f) /\ T \in Told(c, f, r)
                      /\ Relays(c, "FILE", "CLOSE", g, r, << >>, NotListing(UserOf(c), T), Stranger)
      BY <1>7, <1>9 DEF Leaves
    <2>2. r \in {"done", "refused", "fallen"} /\ f \in Files /\ Valid(Holds(c))
      BY <1>1, <1>9, <2>1 DEF Relayed, Reaches, ServerTyped, FileIds
    <2>3. PICK S : S = NotListing(UserOf(c), T)
      OBVIOUS
    <2>11. /\ gui' = [gui EXCEPT ![c] = g] /\ server' \in {server, "fallen"}
           /\ Delivers(c, CASE r = "done" -> << >> [] r = "refused" -> <<Fault>> [] r = "fallen" -> << >>, S, Stranger)
      BY <2>1, <2>2, <2>3 DEF Relays
    <2>12. PICK answers : /\ Delivers(c, answers, S, Stranger)
                          /\ answers = <<Fault>> \/ answers = << >>
      BY <2>2, <2>11
    <2>13. Delivers(c, <<Fault>>, S, Stranger) \/ Delivers(c, << >>, S, Stranger)
      BY <2>12
    <2>14. (\A k \in S : \E h \in Files : k \in inFile[h]) /\ (S = {} \/ Excuse)
      <3>1. \A k \in T : k \in Clients /\ k \in inFile[f]
        BY <2>1, <2>2, ToldSeated
      <3>2. sessions[entry[c]].user = UserOf(c)
        BY <2>2, TokenEntry
      <3>3. \A k \in S : k \in T /\ UserOf(c) \notin knows[k]
        BY <2>3 DEF NotListing
      <3>4. ASSUME NEW k \in S
            PROVE  Excuse
        <4>1. k \in Clients /\ k \in inFile[f] /\ sessions[entry[c]].user \notin knows[k]
          BY <3>1, <3>2, <3>3
        <4>2. QED
          BY <1>9, <2>2, <4>1, AllList
      <3>5. QED
        BY <2>2, <3>1, <3>3, <3>4
    <2>4. /\ open' = [open EXCEPT ![c] = NoFile]
          /\ \A h \in Files : inFile[h] \ {c} \subseteq inFile'[h] /\ inFile'[h] \subseteq inFile[h]
      <3>1. /\ open' = [open EXCEPT ![c] = NoFile] /\ inFile' = [inFile EXCEPT ![f] = @ \ {c}]
            /\ inFile \in [Files -> SUBSET Clients]
        BY <1>1, <1>7, <1>9 DEF ServerTyped
      <3>2. \A h \in Files : inFile'[h] = IF h = f THEN inFile[f] \ {c} ELSE inFile[h]
        BY <2>2, <3>1
      <3>3. QED
        BY <3>1, <3>2
    <2>5. Covered(c)' /\ open'[c] = NoFile
      BY <1>1, <2>4 DEF Covered, ServerTyped
    <2>6. ClientParts(c)'
      BY <1>8, <2>5, <2>11, <2>13
    <2>7. /\ gui'[c] = g /\ \A k \in Clients \ {c} : gui'[k] = gui[k]
          /\ \A m \in {Fault} : m.kind \notin Opening /\ m.kind # "STRANGER"
      BY <1>1, <2>11, <2>13, FaultOwn
    <2>8. PICK new \in SUBSET {Fault} : Onward(down[c], down'[c], 0, new) /\ down'[c] \in Seq(Letters)
      BY <1>1, <2>11, <2>13, FaultOwn
    <2>9. /\ (\A m \in new : m.kind \notin Opening) /\ (\A m \in new : m.kind # "STRANGER")
          /\ gui'[c].token = gui[c].token /\ gui'[c].ended = gui[c].ended /\ gui'[c].win # "Editor"
          /\ \A k \in Clients \ {c} : gui'[k] = gui[k] /\ past'[k] = past[k]
      BY <1>3, <1>6, <2>7, <2>8
    <2>10. QED
      BY <1>3, <2>4, <2>6, <2>8, <2>9, <2>11, <2>12, <2>14, LeavingViews
  <1>10. CASE ~ (Reaches(c, f) /\ entry[c] # 0 /\ open[c] = f)
    <2>1. gui' = [gui EXCEPT ![c] = g] /\ Delivers(c, <<Fault>>, {}, Fault) /\ UNCHANGED <<inFile, open, server>>
      BY <1>7, <1>10 DEF Asks
    <2>2. Covered(c)'
      <3>1. gui'[c] = g
        BY <1>1, <2>1, FaultAtMost
      <3>2. PICK new \in SUBSET {Fault} : Onward(down[c], down'[c], 0, new) /\ down'[c] \in Seq(Letters)
        BY <1>1, <2>1, FaultAtMost
      <3>3. /\ g.win # "Editor" /\ new \subseteq {Fault} /\ past[c] \subseteq past'[c] /\ swept'[c] = swept[c]
            /\ open'[c] = open[c] /\ (Haunted => Haunted')
        BY <1>3, <1>6, <2>1, <3>2 DEF Haunted
      <3>4. \/ Haunted \/ gui[c].shown # open[c] \/ open[c] = NoFile
            \/ past[c] \cap {"returned", "covered", "crossed"} # {}
            \/ \E i \in At1(c) : down[c][i].kind \in Covering
        <4>1. SUFFICES ASSUME ~ Haunted, gui[c].shown = open[c], open[c] # NoFile, "crossed" \notin past[c],
                              \A i \in At1(c) : down[c][i].kind \notin Covering
                       PROVE  FALSE
          OBVIOUS
        <4>2. \A i \in At1(c) : down[c][i].kind # "LOGIN"
          BY <4>1 DEF Covering
        <4>3. open[c] \in Files /\ Valid(Holds(c)) /\ entry[c] # 0 /\ UserOf(c) \in rows[open[c]]
          BY <1>2, <4>1, <4>2, OwnToken
        <4>4. f = open[c]
          BY <1>1, <1>2, <1>4, <4>1 DEF ClientParts, Named
        <4>5. QED
          BY <1>10, <4>1, <4>3, <4>4 DEF Reaches
      <3>5. QED
        BY <1>1, <1>2, <1>6, <3>1, <3>2, <3>3, <3>4, TurningParts
    <2>3. ClientParts(c)'
      BY <1>8, <2>1, <2>2
    <2>4. g.win # "Editor" /\ \A k \in Clients \ {c} : past'[k] = past[k]
      BY <1>3, <1>6
    <2>5. QED
      BY <1>3, <1>6, <2>1, <2>3, <2>4, RefusedTurn
  <1>11. QED
    BY <1>9, <1>10
-----------------------------------------------------------------------------
\* Who logs out leaves the file, whatever still arrives.
LEMMA LogoutViews ==
  ASSUME IInv, WInv, NEW c \in Clients, Logout(c)
  PROVE  WInv'
  <1>1. /\ ClientTyped /\ ServerTyped /\ ClientParts(c) /\ gui[c] \in Guis /\ "Login" \in Windows
    BY DEF IInv, WInv, ClientTyped, Windows
  <1>2. /\ server = "up" /\ Running(c) /\ gui[c].conn = "made"
        /\ gui[c].win \notin gui[c].frozen
    BY DEF Logout, LoggedAt, At
  <1>3. PICK g : g = Show(LogOut(gui[c]), "Login")
    OBVIOUS
  <1>4. /\ g.frozen = gui[c].frozen /\ g.win = "Login" /\ g.ended = gui[c].ended
        /\ g.conn = gui[c].conn /\ g.timer = gui[c].timer /\ g.token = gui[c].token
        /\ ~ g.logged /\ g.fileId = gui[c].fileId /\ g.win # "Editor" /\ g.shown = gui[c].shown
    <2>1. PICK h : h = LogOut(gui[c])
      OBVIOUS
    <2>2. /\ h.frozen = gui[c].frozen /\ h.ended = gui[c].ended
          /\ h.conn = gui[c].conn /\ h.timer = gui[c].timer /\ h.token = gui[c].token
          /\ ~ h.logged /\ h.fileId = gui[c].fileId /\ h \in Guis /\ h.shown = gui[c].shown
      BY <1>1, <2>1 DEF LogOut, Guis
    <2>3. g = Show(h, "Login")
      BY <1>3, <2>1
    <2>4. QED
      BY <2>2, <2>3 DEF Show, Guis
  <1>5. /\ UNCHANGED <<rows, members, born, knows, server, swept>> /\ Remembers
        /\ \A k \in Clients \ {c} : past'[k] = past[k]
        /\ "late" \notin past'[c] => down[c] = << >>
    <2>1. "late" \in Causes /\ (past' = past \/ past' = [past EXCEPT ![c] = @ \cup {"late"}])
      BY DEF Causes, Logout
    <2>2. Remembers
      BY <1>1, <2>1, PastKept
    <2>3. UNCHANGED <<rows, members, born, knows, server, swept>>
      <3>1. server' = server
        BY DEF Logout, Relays
      <3>2. QED
        BY <3>1 DEF Logout
    <2>4. past' = IF down[c] = << >> THEN past ELSE [past EXCEPT ![c] = @ \cup {"late"}]
      BY DEF Logout
    <2>5. "late" \notin past'[c] => down[c] = << >>
      BY <1>1, <2>4 DEF ClientTyped
    <2>6. \A k \in Clients \ {c} : past'[k] = past[k]
      BY <1>1, <2>1 DEF ClientTyped
    <2>7. QED
      BY <2>2, <2>3, <2>5, <2>6
  <1>17. PICK S : S = IF Valid(Holds(c)) THEN NotListing(UserOf(c), Left(c)) ELSE {}
    OBVIOUS
  <1>18. PICK n : n = IF Valid(Holds(c)) THEN Stranger ELSE Fault
    OBVIOUS
  <1>19. IF Valid(Holds(c))
         THEN Relays(c, "USER", "LOGOUT", g, "done", << >>, NotListing(UserOf(c), Left(c)), Stranger) /\ SignOff(c)
         ELSE Asks(c, "USER", "LOGOUT", g, <<Fault>>) /\ UNCHANGED <<entry, open, inFile, sessions, server>>
    BY <1>3 DEF Logout
  <1>6. /\ gui' = [gui EXCEPT ![c] = g]
        /\ IF Valid(Holds(c)) THEN Delivers(c, << >>, S, n) ELSE Delivers(c, <<Fault>>, {}, Fault)
        /\ Delivers(c, <<Fault>>, S, n) \/ Delivers(c, << >>, S, n)
    <2>1. CASE Valid(Holds(c))
      BY <1>17, <1>18, <1>19, <2>1 DEF Relays
    <2>2. CASE ~ Valid(Holds(c))
      BY <1>17, <1>18, <1>19, <2>2 DEF Asks
    <2>3. QED
      BY <2>1, <2>2
  <1>7. /\ gui'[c] = g /\ \A k \in Clients \ {c} : gui'[k] = gui[k]
        /\ \A m \in {Fault} : m.kind \notin Opening /\ m.kind # "STRANGER"
    BY <1>1, <1>6, FaultOwn
  <1>8. PICK new \in SUBSET {Fault} : Onward(down[c], down'[c], 0, new) /\ down'[c] \in Seq(Letters)
    BY <1>1, <1>6, FaultOwn
  <1>9. /\ (\A m \in new : m.kind \notin Opening) /\ (\A m \in new : m.kind # "STRANGER")
        /\ new \subseteq {Fault} /\ \A m \in new : m.kind = "ERROR"
    BY <1>7, <1>8, PlainKinds
  <1>10. past[c] \subseteq past'[c] /\ swept'[c] = swept[c] /\ (Haunted => Haunted')
    BY <1>5 DEF Remembers, Haunted
  <1>11. Linked(c)' /\ Frozen(c)' /\ Named(c)' /\ (Running(c)' <=> Running(c))
    BY <1>1, <1>2, <1>4, <1>7, <1>8, <1>9, <1>10, TurningParts
  <1>12. down[c] \in Seq(Letters) /\ Len(down[c]) \in Nat
    BY <1>1 DEF ClientTyped
  <1>20. open'[c] \in {open[c], NoFile} => Joining(c)'
    <2>1. knows[c] \subseteq knows'[c]
      BY <1>5
    <2>2. QED
      BY <1>1, <1>2, <1>4, <1>7, <1>8, <1>9, <1>10, <2>1, TurningParts
  <1>13. ASSUME entry'[c] # 0 => entry'[c] = entry[c] /\ ~ Valid(Holds(c))
         PROVE  Unlogged(c)'
    <2>1. gui'[c].ended # "notLogged"
      BY <1>2, <1>4, <1>7 DEF Running
    <2>2. SUFFICES ASSUME "late" \notin past'[c]
                   PROVE  entry'[c] = 0 /\ \A i \in At1(c)' : down'[c][i].kind \in Tokenless
      BY <1>4, <1>7, <2>1 DEF Unlogged
    <2>3. down[c] = << >>
      BY <1>5, <2>2
    <2>4. \A i \in At1(c)' : down'[c][i] \in new
      BY <1>8, <2>3 DEF At1, Onward
    <2>5. entry[c] # 0 => gui[c].token = entry[c] /\ sessions[entry[c]].active
      BY <1>1, <1>2, <2>3 DEF ClientParts, Entered, At1
    <2>6. entry'[c] = 0
      BY <1>13, <2>5 DEF Valid, Holds
    <2>7. QED
      BY <1>9, <2>4, <2>6 DEF Tokenless
  <1>14. CASE Valid(Holds(c))
    <2>1. Delivers(c, << >>, S, Stranger) /\ SignOff(c)
      BY <1>6, <1>14, <1>18, <1>19
    <2>2. down'[c] = down[c]
      BY <1>1, <2>1, Answered, PlainKinds
    <2>3. entry[c] # 0 /\ entry[c] = gui[c].token
      BY <1>14, TokenEntry
    <2>4. /\ entry' = [entry EXCEPT ![c] = 0] /\ open' = [open EXCEPT ![c] = NoFile]
          /\ sessions' = [sessions EXCEPT ![entry[c]].active = FALSE]
          /\ \A h \in Files : inFile[h] \ {c} \subseteq inFile'[h] /\ inFile'[h] \subseteq inFile[h]
      BY <1>1, <2>1, <2>3 DEF SignOff
    <2>5. entry'[c] = 0 /\ open'[c] = NoFile
      BY <1>1, <2>4 DEF ServerTyped
    <2>6. Unlogged(c)'
      BY <1>13, <2>5
    <2>7. Entered(c)'
      <3>1. \A i \in At1(c) : down[c][i].kind # "LOGIN"
        BY <1>1, <2>3 DEF ClientParts, Entered
      <3>2. QED
        BY <2>2, <2>5, <3>1 DEF Entered, At1
    <2>8. Covered(c)'
      BY <2>5 DEF Covered
    <2>9. ClientParts(c)'
      BY <1>11, <1>20, <2>5, <2>6, <2>7, <2>8 DEF ClientParts
    <2>12. (\A k \in S : \E h \in Files : k \in inFile[h]) /\ (S = {} \/ Excuse)
      <3>1. S = NotListing(sessions[entry[c]].user, Left(c))
        BY <1>14, <1>17, TokenEntry
      <3>2. QED
        BY <3>1, LeftTold
    <2>10. /\ gui'[c].token = gui[c].token /\ gui'[c].ended = gui[c].ended /\ gui'[c].win # "Editor"
           /\ server' \in {server, "fallen"}
           /\ \A k \in Clients \ {c} : gui'[k] = gui[k] /\ past'[k] = past[k]
      BY <1>4, <1>5, <1>7
    <2>11. QED
      BY <1>5, <1>8, <1>9, <2>1, <2>3, <2>4, <2>9, <2>10, <2>12, LeavingViews
  <1>15. CASE ~ Valid(Holds(c))
    <2>1. Delivers(c, <<Fault>>, {}, Fault) /\ UNCHANGED <<entry, open, inFile, sessions>>
      BY <1>6, <1>15, <1>19
    <2>2. Unlogged(c)'
      BY <1>13, <1>15, <2>1
    <2>3. entry'[c] = entry[c] /\ (entry[c] # 0 => sessions'[entry[c]].active = sessions[entry[c]].active)
      BY <2>1
    <2>4. Entered(c)'
      BY <1>1, <1>2, <1>4, <1>7, <1>8, <1>9, <1>10, <2>3, TurningParts
    <2>5. \/ Haunted \/ gui[c].win # "Editor" \/ gui[c].shown # open[c] \/ open[c] = NoFile
          \/ past[c] \cap {"returned", "covered", "crossed"} # {}
          \/ \E i \in At1(c) : down[c][i].kind \in Covering
      <3>1. SUFFICES ASSUME ~ Haunted, open[c] # NoFile, \A i \in At1(c) : down[c][i].kind \notin Covering
                     PROVE  FALSE
        OBVIOUS
      <3>2. \A i \in At1(c) : down[c][i].kind # "LOGIN"
        BY <3>1 DEF Covering
      <3>3. QED
        BY <1>2, <1>15, <3>1, <3>2, OwnToken
    <2>6. open'[c] = open[c]
      BY <2>1
    <2>7. Covered(c)'
      BY <1>1, <1>2, <1>4, <1>7, <1>8, <1>9, <1>10, <2>5, <2>6, TurningParts
    <2>8. ClientParts(c)'
      BY <1>11, <1>20, <2>2, <2>4, <2>6, <2>7 DEF ClientParts
    <2>9. QED
      BY <1>4, <1>5, <1>6, <2>1, <2>8, RefusedTurn
  <1>16. QED
    BY <1>14, <1>15

\* Who removes the account leaves the file, but not the list of its clients.
LEMMA DeleteAccountViews ==
  ASSUME IInv, WInv, NEW c \in Clients, DeleteAccount(c)
  PROVE  WInv'
  <1>1. /\ ClientTyped /\ ServerTyped /\ ClientParts(c) /\ gui[c] \in Guis
        /\ "Edit" \in Windows \ {"Connect"}
    BY DEF IInv, WInv, ClientTyped, Windows
  <1>2. /\ At(c, "Edit") /\ server = "up" /\ Running(c) /\ gui[c].conn = "made" /\ gui[c].win = "Edit"
        /\ gui[c].win \notin gui[c].frozen /\ gui[c].logged
    BY DEF DeleteAccount, LoggedAt, At
  <1>3. UNCHANGED <<inFile, rows, members, born, knows, server, swept>>
    BY DEF DeleteAccount
  <1>4. CASE ~ (Valid(Holds(c)) /\ entry[c] # 0)
    <2>1. /\ gui' = [gui EXCEPT ![c] = Freeze(gui[c])] /\ Delivers(c, <<Fault>>, {}, Fault)
          /\ UNCHANGED <<entry, open, sessions, past>>
      BY <1>4 DEF DeleteAccount, Asks
    <2>2. UNCHANGED <<entry, open, inFile, rows, members, knows, sessions, born, server, swept, past>>
      BY <1>3, <2>1
    <2>3. QED
      BY <1>1, <1>2, <2>1, <2>2, RefusedViews
  <1>5. CASE Valid(Holds(c)) /\ entry[c] # 0
    <2>1. PICK g : g = Freeze(gui[c])
      OBVIOUS
    <2>2. PICK m : m = Bare("DELETE_USER")
      OBVIOUS
    <2>3. entry[c] # 0 /\ entry[c] = gui[c].token
      BY <1>5, TokenEntry
    <2>4. /\ gui' = [gui EXCEPT ![c] = g] /\ Delivers(c, <<m>>, {}, Fault)
          /\ entry' = [entry EXCEPT ![c] = 0] /\ open' = [open EXCEPT ![c] = NoFile]
          /\ sessions' = [sessions EXCEPT ![entry[c]].active = FALSE]
          /\ past' = IF open[c] = NoFile THEN past ELSE [past EXCEPT ![c] = @ \cup {"haunting"}]
      BY <1>5, <2>1, <2>2, <2>3 DEF DeleteAccount, Asks, Holds
    <2>5. /\ m \in Letters /\ m.kind = "DELETE_USER" /\ m.kind \in Releasing
          /\ m.kind \notin Opening \cup {"LOGIN", "STRANGER", "GET", "ICON", "JOINED"}
      BY <2>2, Plainness DEF Kinds, FileIds, Bare, Msg, Releasing, Opening
    <2>6. Asker(c, g) /\ g.fileId = gui[c].fileId
      BY <1>1, <2>1, Askers
    <2>7. gui'[c] = g /\ \A k \in Clients \ {c} : gui'[k] = gui[k] /\ down'[k] = down[k]
      BY <1>1, <2>4 DEF ClientTyped, Delivers
    <2>8. /\ down'[c] \in Seq(Letters) /\ \E new : new = {m} /\ Onward(down[c], down'[c], 0, new)
          /\ \E i \in At1(c)' : down'[c][i] = m /\ i = Len(down'[c])
      BY <1>1, <2>4, <2>5, Answered
    <2>9. PICK new : new = {m} /\ Onward(down[c], down'[c], 0, new)
      BY <2>8
    <2>10. Remembers /\ \A k \in Clients \ {c} : past'[k] = past[k]
      <3>1. "haunting" \in Causes /\ (past' = past \/ past' = [past EXCEPT ![c] = @ \cup {"haunting"}])
        BY <2>4 DEF Causes
      <3>2. Remembers
        BY <1>1, <3>1, PastKept
      <3>3. QED
        BY <1>1, <3>1, <3>2 DEF ClientTyped
    <2>11. past[c] \subseteq past'[c] /\ swept'[c] = swept[c]
      BY <1>3, <2>10 DEF Remembers
    <2>12. entry'[c] = 0 /\ open'[c] = NoFile
      BY <1>1, <2>4 DEF ServerTyped
    <2>13. /\ (\A x \in new : x.kind \notin Opening) /\ (\A x \in new : x.kind # "STRANGER")
           /\ (\A x \in new : x.kind # "ICON") /\ (\A x \in new : x.kind # "JOINED")
           /\ (\A x \in new : x.kind # "GET") /\ \A x \in new : x.kind # "LOGIN"
      BY <2>5, <2>9
    <2>14. /\ g.ended = gui[c].ended /\ g.conn = gui[c].conn /\ g.win = gui[c].win /\ g.token = gui[c].token
           /\ g.logged /\ g.timer = gui[c].timer /\ g.fileOpen = gui[c].fileOpen /\ g.shown = gui[c].shown
           /\ g.frozen \subseteq gui[c].frozen \cup {gui[c].win} /\ g.win # "Editor" /\ g.win # "Connect"
      BY <1>2, <2>6 DEF Asker
    <2>15. Running(c)' <=> Running(c)
      BY <2>7, <2>14 DEF Running
    <2>16. Linked(c)'
      BY <1>1, <1>2, <1>3, <2>7, <2>11, <2>12, <2>14 DEF ClientParts, Linked, Running
    <2>17. Entered(c)'
      <3>1. \A i \in At1(c) : down[c][i].kind # "LOGIN"
        BY <1>1, <2>3 DEF ClientParts, Entered
      <3>2. \A i \in At1(c)' : down'[c][i].kind # "LOGIN"
        <4>1. down[c] \in Seq(Letters)
          BY <1>1 DEF ClientTyped
        <4>2. \A l \in 1 .. Len(down'[c]) :
                down'[c][l] \in new \/ \E j \in 1 .. Len(down[c]) : down[c][j] = down'[c][l]
          BY <2>8, <2>9, <4>1, OnwardOld
        <4>3. QED
          BY <2>13, <3>1, <4>2 DEF At1
      <3>3. QED
        BY <2>12, <3>2 DEF Entered
    <2>18. Unlogged(c)'
      BY <1>2, <2>7, <2>14 DEF Unlogged, Running
    <2>19. Frozen(c)'
      <3>1. \E i \in At1(c)' : down'[c][i].kind \in Releasing
        BY <2>5, <2>8
      <3>2. /\ gui'[c].frozen \subseteq gui[c].frozen \cup {gui[c].win}
            /\ gui'[c].win = gui[c].win /\ gui[c].win # "Connect" /\ swept[c] \subseteq swept'[c]
        BY <2>7, <2>11, <2>14
      <3>3. QED
        BY <1>1, <1>2, <3>1, <3>2, FrozenAsked DEF ClientParts
    <2>20. Named(c)'
      BY <1>1, <2>6, <2>7, <2>8, <2>9, <2>11, <2>13, <2>14, <2>15, NamedStays DEF ClientParts, ClientTyped
    <2>21. Covered(c)'
      BY <2>12 DEF Covered
    <2>25. Joining(c)'
      <3>1. /\ gui'[c].ended = gui[c].ended /\ knows[c] \subseteq knows'[c] /\ open'[c] \in {open[c], NoFile}
            /\ (Haunted => Haunted') /\ (Running(c)' => Running(c)) /\ gui'[c].shown = gui[c].shown
            /\ 0 = 1 => down[c][1].kind \notin Opening
        BY <1>3, <2>7, <2>10, <2>12, <2>14, <2>15 DEF Haunted, Remembers
      <3>2. QED
        BY <1>1, <2>8, <2>9, <2>11, <2>13, <3>1, JoiningStays DEF ClientParts, ClientTyped
    <2>22. ClientParts(c)'
      BY <2>16, <2>17, <2>18, <2>19, <2>20, <2>21, <2>25 DEF ClientParts
    <2>23. /\ gui'[c].token = gui[c].token /\ gui'[c].ended = gui[c].ended /\ gui'[c].win # "Editor"
           /\ server' \in {server, "fallen"}
           /\ \A k \in Clients \ {c} : gui'[k] = gui[k] /\ past'[k] = past[k]
      BY <1>3, <2>7, <2>10, <2>14
    <2>27. \A h \in Files : inFile[h] \ {c} \subseteq inFile'[h] /\ inFile'[h] \subseteq inFile[h]
      BY <1>3
    <2>28. PICK answers : answers = <<m>>
      OBVIOUS
    <2>26. PICK S : S = {} /\ Delivers(c, answers, S, Stranger)
      BY <2>4, <2>28, ToldNobody
    <2>29. (\A k \in S : \E h \in Files : k \in inFile[h]) /\ (S = {} \/ Excuse)
      BY <2>26
    <2>24. QED
      BY <1>3, <2>3, <2>4, <2>8, <2>9, <2>10, <2>13, <2>22, <2>23, <2>26, <2>27, <2>29, LeavingViews
  <1>6. QED
    BY <1>4, <1>5
-----------------------------------------------------------------------------
\* A folder is removed: who loses a file does not have it open any more, but for the
\* user of c, whose rows go while the list of the file stays.
LEMMA DeleteDirViews ==
  ASSUME IInv, WInv, NEW c \in Clients, DeleteDir(c)
  PROVE  WInv'
  <1>1. ClientTyped /\ ServerTyped /\ ClientParts(c) /\ WindowsTyped /\ SeatInv /\ MemberInv
    BY DEF IInv, WInv
  <1>2. /\ LoggedAt(c, "Browser") /\ server = "up" /\ Running(c) /\ gui[c].conn = "made" /\ gui[c].win = "Browser"
        /\ gui[c].win \notin gui[c].frozen /\ gui[c].logged /\ At(c, "Browser")
    BY DEF DeleteDir, LoggedAt, At
  <1>3. UNCHANGED <<entry, inFile, sessions, members, born, knows, server, swept>>
    BY DEF DeleteDir
  <1>4. Remembers /\ \A k \in Clients \ {c} : past'[k] = past[k]
    <2>1. past' = past \/ past' = [past EXCEPT ![c] = @ \cup {"strayed"}]
      BY DEF DeleteDir
    <2>2. "strayed" \in Causes
      BY DEF Causes
    <2>3. Remembers
      BY <1>1, <2>1, <2>2, PastKept
    <2>4. QED
      BY <1>1, <2>1, <2>3 DEF ClientTyped
  <1>5. (Haunted => Haunted') /\ past[c] \subseteq past'[c]
    BY <1>4 DEF Haunted, Remembers
  <1>6. CASE Asks(c, "FILESYSTEM", "DELETE_DIR", gui[c], <<Fault>>) /\ UNCHANGED <<rows, open, past>>
    <2>1. gui' = [gui EXCEPT ![c] = gui[c]] /\ Delivers(c, <<Fault>>, {}, Fault)
      BY <1>6 DEF Asks
    <2>2. PICK B \in BOOLEAN : B = FALSE
      OBVIOUS
    <2>3. PICK g : g = gui[c]
      OBVIOUS
    <2>4. Delivers(c, IF B THEN <<Bare("REFRESH")>> ELSE <<Fault>>, {}, Fault)
      BY <2>1, <2>2
    <2>5. /\ gui' = [gui EXCEPT ![c] = g]
          /\ gui[c].logged \/ ~ B
          /\ g = gui[c] \/ (g = Freeze(gui[c]) /\ (B => "REFRESH" = "DIALOG"))
          /\ UNCHANGED <<entry, open, inFile, rows, members, knows, sessions, born, server, swept>>
          /\ Rest(c) /\ "Browser" \in Windows \ {"Connect"}
      <3>1. Rest(c)
        BY <1>3, <1>4, <1>6 DEF Rest
      <3>2. QED
        BY <1>2, <1>3, <1>6, <2>1, <2>2, <2>3, <3>1 DEF Windows
    <2>6. QED
      BY <1>2, <1>4, <2>4, <2>5, InquiryViews
  <1>7. CASE ~ (Asks(c, "FILESYSTEM", "DELETE_DIR", gui[c], <<Fault>>) /\ UNCHANGED <<rows, open, past>>)
    <2>. DEFINE u == UserOf(c)
    <2>1. PICK S \in SUBSET {f \in Files : Reaches(c, f)} :
            LET shared     == {f \in S : u = Owner[f] /\ rows[f] # {u}}
                lost(k)    == {f \in shared : entry[k] # 0 /\ sessions[entry[k]].user \in rows[f]}
                notices(k) == [i \in 1 .. Cardinality(lost(k)) |-> Bare("FILE_DELETED")]
            IN  /\ gui' = gui /\ Valid(Holds(c))
                /\ rows' = [f \in Files |-> IF f \notin S THEN rows[f]
                                            ELSE IF u = Owner[f] THEN {} ELSE rows[f] \ {u}]
                /\ open' = [k \in Clients |->
                              IF \E f \in shared : k \in inFile[f] THEN NoFile ELSE open[k]]
                /\ down' = [k \in Clients |->
                              IF k = c THEN Append(down[k], Bare("REFRESH"))
                              ELSE IF Running(k) THEN down[k] \o notices(k) ELSE down[k]]
                /\ past' = IF open'[c] \in S THEN [past EXCEPT ![c] = @ \cup {"strayed"}] ELSE past
      BY <1>7 DEF DeleteDir
    <2>. DEFINE shared     == {f \in S : u = Owner[f] /\ rows[f] # {u}}
                lost(k)    == {f \in shared : entry[k] # 0 /\ sessions[entry[k]].user \in rows[f]}
                notices(k) == [i \in 1 .. Cardinality(lost(k)) |-> Bare("FILE_DELETED")]
    <2>2. /\ gui' = gui /\ Valid(Holds(c)) /\ \A h \in S : h \in Files /\ u \in rows[h]
          /\ rows' = [f \in Files |-> IF f \notin S THEN rows[f]
                                      ELSE IF u = Owner[f] THEN {} ELSE rows[f] \ {u}]
          /\ open' = [k \in Clients |-> IF \E f \in shared : k \in inFile[f] THEN NoFile ELSE open[k]]
          /\ open'[c] \in S => "strayed" \in past'[c]
      BY <1>1, <2>1 DEF ClientTyped, Reaches
    <2>3. /\ Bare("FILE_DELETED") \in Letters
          /\ \A k \in Clients : Bare("FILE_DELETED") \in Tidings(k) /\ Bare("FILE_DELETED") \in Notices(k)
      <3>1. Bare("FILE_DELETED") \in Letters /\ Bare("FILE_DELETED").kind = "FILE_DELETED"
        BY Plainness DEF Kinds, FileIds, Bare, Msg
      <3>2. QED
        BY <3>1 DEF Notices, Tidings
    <2>4. ASSUME NEW k \in Clients \ {c}
          PROVE  /\ down'[k] \in Seq(Letters) /\ Onward(down[k], down'[k], 0, {Bare("FILE_DELETED")})
                 /\ down'[k] = down[k] \/ (Running(k) /\ entry[k] # 0)
      <3>. DEFINE n == notices(k)
      <3>1. /\ n \in Seq(Letters) /\ Len(n) \in Nat /\ \A i \in 1 .. Len(n) : n[i] = Bare("FILE_DELETED")
            /\ entry[k] = 0 => n = << >>
        <4>1. lost(k) \in SUBSET Files /\ (entry[k] = 0 => lost(k) = {})
          OBVIOUS
        <4>. HIDE DEF lost
        <4>2. Cardinality(lost(k)) \in Nat /\ n \in Seq(Letters)
          BY <4>1, LostFew
        <4>3. n = [i \in 1 .. Cardinality(lost(k)) |-> Bare("FILE_DELETED")]
          OBVIOUS
        <4>4. entry[k] = 0 => Cardinality(lost(k)) = 0
          BY <4>1, FS_EmptySet
        <4>. HIDE DEF n
        <4>5. Len(n) = Cardinality(lost(k))
          BY <4>2, <4>3
        <4>6. QED
          BY <4>2, <4>3, <4>4, <4>5
      <3>2. down'[k] = IF Running(k) THEN down[k] \o n ELSE down[k]
        BY <2>1
      <3>3. down[k] \in Seq(Letters)
        BY <1>1 DEF ClientTyped
      <3>. HIDE DEF n
      <3>4. /\ down[k] \o n \in Seq(Letters) /\ Onward(down[k], down[k] \o n, 0, {Bare("FILE_DELETED")})
            /\ n = << >> => down[k] \o n = down[k]
        BY <3>1, <3>3 DEF Onward
      <3>5. Onward(down[k], down[k], 0, {Bare("FILE_DELETED")})
        BY <3>3 DEF Onward
      <3>6. QED
        BY <3>1, <3>2, <3>3, <3>4, <3>5
    <2>5. PICK m : m = Bare("REFRESH")
      OBVIOUS
    <2>6. m \in Letters /\ m.kind \notin Covering \cup Unasked
      BY <2>5, PlainKinds
    <2>7. PICK new : new = {m} /\ down'[c] \in Seq(Letters) /\ Onward(down[c], down'[c], 0, new)
      <3>1. down[c] \in Seq(Letters) /\ down'[c] = Append(down[c], m)
        BY <1>1, <2>1, <2>5 DEF ClientTyped
      <3>2. Append(down[c], m) \in Seq(Letters) /\ Onward(down[c], Append(down[c], m), 0, {m})
        BY <2>6, <3>1, Onwards
      <3>3. QED
        BY <3>1, <3>2
    <2>8. \A k \in Clients : open'[k] \in {open[k], NoFile}
      BY <2>2
    <2>9. Still(c)
      <3>1. ASSUME NEW k \in Clients \ {c}
            PROVE  /\ down'[k] \in Seq(Letters) /\ Onward(down[k], down'[k], 0, Notices(k))
                   /\ Onward(down[k], down'[k], 0, Tidings(k))
                   /\ down'[k] = down[k] \/ (Running(k) /\ entry[k] # 0 /\ gui[k].conn = "made")
        <4>1. Onward(down[k], down'[k], 0, Notices(k)) /\ Onward(down[k], down'[k], 0, Tidings(k))
          BY <2>3, <2>4 DEF Onward
        <4>2. QED
          BY <2>4, <4>1, LinkedMade
      <3>2. QED
        BY <1>3, <1>4, <2>2, <2>8, <3>1 DEF Still, Aside
    <2>10. ClientParts(c)'
      <3>1. Asker(c, gui[c]) /\ gui'[c] = gui[c] /\ server' \in {"up", "fallen"} /\ gui[c].win # "Connect"
        BY <1>1, <1>2, <1>3, <2>2, Askers
      <3>2. /\ \A x \in new : x.kind # "LOGIN" /\ (x.kind \in Opening => gui[c].token = entry[c])
            /\ \A x \in new : gui[c].logged \/ x.kind = "ERROR"
            /\ \A x \in new : x.kind # "GET"
            /\ \A x \in new : x.kind \notin Covering
            /\ knows[c] \subseteq knows'[c] /\ \A x \in new : x.kind \notin Opening \cup Unasked
        BY <1>2, <1>3, <2>6, <2>7 DEF Opening, Covering
      <3>3. /\ open'[c] \in {open[c], NoFile} /\ swept'[c] = swept[c] /\ entry'[c] = entry[c]
            /\ entry[c] # 0 => sessions'[entry[c]].active = sessions[entry[c]].active
        BY <1>3, <2>8
      <3>4. PICK g : g = gui[c] /\ g.frozen = gui[c].frozen /\ g.fileId = gui[c].fileId
        OBVIOUS
      <3>5. QED
        BY <1>1, <1>2, <1>5, <2>7, <3>1, <3>2, <3>3, <3>4, RequestParts
    <2>11. WindowsTyped'
      BY <1>1, <1>3 DEF WindowsTyped
    <2>12. /\ \A h \in Files : rows'[h] \subseteq rows[h]
           /\ \A h \in Files \ S : rows'[h] = rows[h]
           /\ \A h \in S : h \notin shared => rows[h] \ {u} \subseteq rows'[h]
      <3>1. \A h \in Files : rows'[h] = IF h \notin S THEN rows[h] ELSE IF u = Owner[h] THEN {} ELSE rows[h] \ {u}
        BY <2>2
      <3>2. \A h \in S : h \notin shared => u # Owner[h] \/ rows[h] = {u}
        OBVIOUS
      <3>. HIDE DEF shared
      <3>3. QED
        BY <2>2, <3>1, <3>2
    <2>13. SeatInv'
      <3>. HIDE DEF shared
      <3>1. SUFFICES ASSUME ~ Haunted', NEW k \in Clients, NEW h \in Files, open'[k] = h
                     PROVE  /\ k \in inFile[h] /\ entry[k] # 0
                            /\ sessions[entry[k]].user \in rows'[h] \cap members[h]
                            /\ members[h] \subseteq knows[k]
        BY <1>3 DEF SeatInv
      <3>2. open[k] = h /\ ~ Haunted
        BY <1>5, <2>8, <3>1, ClientViewAssumption
      <3>3. /\ k \in inFile[h] /\ entry[k] # 0 /\ sessions[entry[k]].user \in rows[h] \cap members[h]
            /\ members[h] \subseteq knows[k]
        BY <1>1, <3>1, <3>2 DEF SeatInv
      <3>4. CASE h \notin S
        BY <2>12, <3>3, <3>4
      <3>5. CASE h \in S
        <4>1. k # c
          BY <2>2, <3>1, <3>5 DEF Haunted
        <4>2. sessions[entry[k]].user # u
          BY <2>2, <3>3, <4>1, OtherUser
        <4>3. h \notin shared
          BY <2>2, <3>1, <3>3, ClientViewAssumption
        <4>4. QED
          BY <2>12, <3>3, <3>5, <4>2, <4>3
      <3>6. QED
        BY <3>4, <3>5
    <2>. HIDE DEF shared
    <2>14. \A k \in Clients : Viewed(k)' \subseteq Viewed(k) /\ gui'[k].token = gui[k].token /\ (Running(k)' <=> Running(k))
      <3>1. \A k \in Clients \ {c} :
              Viewed(k)' \subseteq Viewed(k) /\ gui'[k].token = gui[k].token /\ (Running(k)' <=> Running(k))
        BY <1>1, <2>9, AsideViews DEF Still
      <3>2. \A x \in new : x.kind \notin Opening
        BY <2>6, <2>7 DEF Covering
      <3>3. gui'[c].win = gui[c].win /\ gui'[c].shown = gui[c].shown
        BY <2>2
      <3>4. Viewed(c)' \subseteq Viewed(c)
        BY <1>1, <2>7, <3>2, <3>3, ViewedStays DEF ClientTyped
      <3>5. gui'[c].token = gui[c].token /\ (Running(c)' <=> Running(c))
        BY <2>2 DEF Running
      <3>6. QED
        BY <3>1, <3>4, <3>5
    <2>15. MemberInv'
      <3>1. SUFFICES ASSUME NEW k \in Clients, Running(k)', NEW h \in Viewed(k)'
                     PROVE  /\ h \in born'
                            /\ Valid(Holds(k))' /\ UserOf(k)' \in rows'[h] =>
                                 UserOf(k)' \in members'[h] \/ Haunted' \/ "linked" \in past'[k]
        BY DEF MemberInv
      <3>2. h \in Viewed(k) /\ Running(k) /\ h \in Files
        BY <2>14, <3>1 DEF Viewed
      <3>3. (Valid(Holds(k))' <=> Valid(Holds(k))) /\ UserOf(k)' = UserOf(k)
        BY <1>3, <2>14 DEF Valid, Holds, UserOf
      <3>4. /\ h \in born
            /\ Valid(Holds(k)) /\ UserOf(k) \in rows[h] =>
                 UserOf(k) \in members[h] \/ Haunted \/ "linked" \in past[k]
        BY <1>1, <3>2 DEF MemberInv
      <3>5. past[k] \subseteq past'[k]
        BY <1>4 DEF Remembers
      <3>6. QED
        BY <1>3, <1>5, <2>12, <3>2, <3>3, <3>4, <3>5
    <2>16. StrangerInv'
      <3>1. gui'[c].ended = gui[c].ended /\ \A x \in new : x.kind # "STRANGER"
        BY <2>2, <2>6, <2>7 DEF Unasked
      <3>2. QED
        BY <1>4, <2>7, <2>9, <3>1, NoStranger
    <2>17. server' \in {server, "fallen"}
      BY <1>3
    <2>18. QED
      BY <1>4, <2>9, <2>10, <2>11, <2>13, <2>15, <2>16, <2>17, Gathers DEF Still
  <1>8. QED
    BY <1>6, <1>7
-----------------------------------------------------------------------------
\* At the start no window shows a file, none is frozen, and nothing is on its way.
LEMMA InitViews ==
  ASSUME Init
  PROVE  WInv
  <1>1. ASSUME NEW k \in Clients
        PROVE  /\ gui[k].ended = "no" /\ ~ gui[k].timer /\ gui[k].frozen = {} /\ ~ gui[k].logged
               /\ gui[k].conn \in {"none", "made"} /\ gui[k].win \in {"Connect", "Login"}
    BY DEF Init, Started
  <1>9. \A f \in Files : inFile[f] = {}
    BY DEF Init
  <1>2. /\ server = "up" /\ \A k \in Clients : entry[k] = 0 /\ open[k] = NoFile /\ At1(k) = {} /\ down[k] = << >>
    BY DEF Init, At1
  <1>3. WindowsTyped
    BY DEF Init, WindowsTyped
  <1>4. ASSUME NEW k \in Clients
        PROVE  ClientParts(k)
    <2>1. Linked(k) /\ Entered(k) /\ Unlogged(k)
      BY <1>1, <1>2, <1>9 DEF Linked, Entered, Unlogged
    <2>2. Frozen(k) /\ Named(k) /\ Covered(k) /\ Joining(k)
      BY <1>1, <1>2 DEF Frozen, Named, Covered, Joining
    <2>3. QED
      BY <2>1, <2>2 DEF ClientParts
  <1>5. SeatInv
    BY <1>2, ClientViewAssumption DEF SeatInv
  <1>6. MemberInv
    <2>1. \A k \in Clients : Viewed(k) = {}
      BY <1>1, <1>2 DEF Viewed
    <2>2. QED
      BY <2>1 DEF MemberInv
  <1>7. StrangerInv
    BY <1>1, <1>2 DEF StrangerInv
  <1>8. QED
    BY <1>3, <1>4, <1>5, <1>6, <1>7 DEF WInv

\* Nothing happens.
LEMMA StillViews ==
  ASSUME WInv, UNCHANGED vars
  PROVE  WInv'
  <1>1. UNCHANGED <<gui, down, entry, open, inFile, sessions, rows, members, born, knows, server, swept, past>>
    BY DEF vars, manager, store, history
  <1>2. (Haunted' <=> Haunted) /\ (Excuse' <=> Excuse)
    BY <1>1 DEF Haunted, Excuse
  <1>3. ASSUME NEW k \in Clients
        PROVE  ClientParts(k)'
    <2>1. At1(k)' = At1(k) /\ (Running(k)' <=> Running(k)) /\ ClientParts(k)
      BY <1>1 DEF At1, Running, WInv
    <2>2. Linked(k)' /\ Entered(k)' /\ Unlogged(k)'
      BY <1>1, <2>1 DEF ClientParts, Linked, Entered, Unlogged
    <2>3. Frozen(k)' /\ Named(k)'
      BY <1>1, <2>1 DEF ClientParts, Frozen, Named
    <2>4. Covered(k)'
      BY <1>1, <1>2, <2>1 DEF ClientParts, Covered
    <2>6. Joining(k)'
      BY <1>1, <1>2, <2>1 DEF ClientParts, Joining
    <2>5. QED
      BY <2>2, <2>3, <2>4, <2>6 DEF ClientParts
  <1>4. SeatInv'
    BY <1>1, <1>2 DEF WInv, SeatInv
  <1>5. MemberInv'
    <2>1. \A k \in Clients :
            Viewed(k)' = Viewed(k) /\ (Running(k)' <=> Running(k))
            /\ (Valid(Holds(k))' <=> Valid(Holds(k))) /\ UserOf(k)' = UserOf(k)
      BY <1>1 DEF Viewed, At1, Running, Valid, Holds, UserOf
    <2>2. QED
      BY <1>1, <1>2, <2>1 DEF WInv, MemberInv
  <1>6. StrangerInv'
    BY <1>1, <1>2 DEF WInv, StrangerInv, At1
  <1>7. WindowsTyped'
    BY <1>1 DEF WInv, WindowsTyped
  <1>8. QED
    BY <1>3, <1>4, <1>5, <1>6, <1>7 DEF WInv

\* Every step keeps WInv.
LEMMA NextViews ==
  ASSUME IInv, WInv, [Next]_vars
  PROVE  WInv'
  <1>1. CASE UNCHANGED vars
    BY <1>1, StillViews
  <1>2. CASE Next
    <2>1. PICK c \in Clients :
            \/ Sitting(c) \/ Receiving(c) \/ Gone(c)
            \/ SocketConnected(c) \/ Connected(c) \/ CheckConnection(c) \/ ConnectionLost(c)
      BY <1>2 DEF Next
    <2>2. CASE Sitting(c)
      <3>1. \/ Connect(c) \/ Quit(c) \/ GoRegister(c) \/ Cancel(c) \/ EditAccount(c) \/ EditCancel(c)
            \/ \E u \in SignsAs[c] : Login(c, u) \/ Signup(c, u)
            \/ Logout(c) \/ EditSave(c) \/ DeleteAccount(c)
            \/ \E f \in Files : NewFile(c, f) \/ Open(c, f) \/ ActivateLink(c, f) \/ DeleteFile(c, f) \/ BrowserInfo(c, f)
            \/ Alter(c) \/ DeleteDir(c) \/ GetAllDirs(c) \/ BrowserShare(c)
            \/ EditorInquiry(c) \/ EditorRemove(c) \/ EditorRename(c) \/ EditorClose(c)
            \/ EditorEdit(c) \/ EditorMove(c) \/ ActUnlogged(c)
        BY <2>2 DEF Sitting
      <3>2. CASE Connect(c)
        BY <3>2, ConnectionViews
      <3>3. CASE Quit(c) \/ ActUnlogged(c)
        BY <3>3, EndingViews
      <3>4. CASE GoRegister(c) \/ Cancel(c) \/ EditAccount(c) \/ EditCancel(c)
        BY <3>4, TurnViews
      <3>5. CASE \E u \in SignsAs[c] : Login(c, u) \/ Signup(c, u)
        BY <3>5, SigningViews
      <3>6. CASE Logout(c) \/ EditSave(c) \/ DeleteAccount(c)
        BY <3>6, LogoutViews, SaveViews, DeleteAccountViews
      <3>7. CASE \E f \in Files : NewFile(c, f) \/ Open(c, f) \/ ActivateLink(c, f)
        BY <3>7, NewFileViews, OpenViews, LinkViews
      <3>8. CASE EditorRemove(c) \/ \E f \in Files : DeleteFile(c, f)
        BY <3>8, RemoveViews
      <3>9. CASE \/ Alter(c) \/ GetAllDirs(c) \/ EditorRename(c) \/ EditorInquiry(c)
                 \/ \E f \in Files : BrowserInfo(c, f)
        BY <3>9, QuietViews
      <3>10. CASE BrowserShare(c) \/ EditorClose(c)
        BY <3>10, ShareViews, CloseViews
      <3>11. CASE EditorEdit(c) \/ EditorMove(c)
        BY <3>11, TypesViews
      <3>12. CASE DeleteDir(c)
        BY <3>12, DeleteDirViews
      <3>13. QED
        BY <3>1, <3>2, <3>3, <3>4, <3>5, <3>6, <3>7, <3>8, <3>9, <3>10, <3>11, <3>12
    <2>3. CASE Receiving(c)
      BY <2>3, ReceivingViews
    <2>4. CASE Gone(c)
      BY <2>4, GoneViews
    <2>5. CASE SocketConnected(c) \/ Connected(c) \/ CheckConnection(c)
      BY <2>5, ConnectionViews
    <2>6. CASE ConnectionLost(c)
      BY <2>6, EndingViews
    <2>7. QED
      BY <2>1, <2>2, <2>3, <2>4, <2>5, <2>6
  <1>3. QED
    BY <1>1, <1>2
-----------------------------------------------------------------------------
\* In every state what is on the way to each client, its windows and what the server
\* keeps for it fit together as WInv says (GuiManager, User and MessageManager).
THEOREM WindowsInductive == Spec => [](IInv /\ WInv)
  <1>1. Init => IInv /\ WInv
    BY InitHolds, InitViews
  <1>2. IInv /\ WInv /\ [Next]_vars => (IInv /\ WInv)'
    BY NextKeeps, NextViews
  <1>3. QED
    BY <1>1, <1>2, PTL DEF Spec

\* A frozen window is always released by something that is on its way, unless a
\* notice of a removal replaced it (freezeWindow, unfreezeWindow, serverErrorResponse).
THEOREM FrozenAreAwaited == Spec => []FrozenMeansAwaited
  <1>1. IInv /\ WInv => FrozenMeansAwaited
    <2>1. ASSUME IInv, WInv, server = "up", NEW k \in Clients, Running(k), NEW w \in gui[k].frozen \ swept[k]
          PROVE  /\ w = gui[k].win
                 /\ IF w = "Connect" THEN gui[k].timer \/ gui[k].conn # "none" ELSE Awaits(k, Releasing)
      <3>1. down[k] \in Seq(Letters)
        BY <2>1 DEF IInv, ClientTyped
      <3>2. DOMAIN down[k] = At1(k)
        BY <3>1 DEF At1
      <3>3. Frozen(k)
        BY <2>1 DEF WInv, ClientParts
      <3>4. QED
        BY <2>1, <3>2, <3>3 DEF Frozen, Awaits
    <2>2. QED
      BY <2>1 DEF FrozenMeansAwaited
  <1>2. QED
    BY <1>1, WindowsInductive, PTL

\* The id the editor sends is that of the file it shows, unless another file was
\* clicked while one was on its way (User::openFile, docsBrowserGetFile).
THEOREM EditorsNameTheirFile == Spec => []EditorNamesItsFile
  <1>1. IInv /\ WInv => EditorNamesItsFile
    BY DEF WInv, ClientParts, Named, EditorNamesItsFile
  <1>2. QED
    BY <1>1, WindowsInductive, PTL

\* Once nothing is on its way to a client, the file the server keeps open for it is
\* in its editor, but for the causes named (getFile, closeFile, clientDisconnected).
THEOREM OpenFilesAreShown == Spec => []OpenIsShown
  <1>1. IInv /\ WInv => OpenIsShown
    <2>1. ASSUME WInv, NEW k \in Clients, Running(k), down[k] = << >>, open[k] # NoFile
          PROVE  \/ gui[k].win = "Editor" /\ gui[k].shown = open[k]
                 \/ past[k] \cap {"returned", "covered", "crossed"} # {}
                 \/ Haunted
      <3>1. At1(k) = {}
        BY <2>1 DEF At1
      <3>2. Covered(k)
        BY <2>1 DEF WInv, ClientParts
      <3>3. QED
        BY <2>1, <3>1, <3>2 DEF Covered
    <2>2. QED
      BY <2>1 DEF OpenIsShown, Haunted
  <1>2. QED
    BY <1>1, WindowsInductive, PTL

\* A client ends of itself only for the causes named: a connection lost, an answer
\* behind a logout, an icon that comes after another file, an edit or the leaving of a
\* user its editor has not been told of (connectionLost, getToken, setUserIcon,
\* remoteInsert, userDisconnected).
THEOREM EndsHaveCauses == Spec => []EndsOnlyByCause
  <1>1. IInv /\ WInv => EndsOnlyByCause
    <2>1. ASSUME WInv, NEW k \in Clients
          PROVE  /\ gui[k].ended = "lost" => server = "fallen" \/ "raced" \in past[k]
                 /\ gui[k].ended = "notLogged" => "late" \in past[k]
                 /\ gui[k].ended = "icon" => "switched" \in past[k]
                 /\ gui[k].ended = "stranger" => Excuse
      <3>1. Linked(k) /\ Unlogged(k) /\ Joining(k) /\ StrangerInv
        BY <2>1 DEF WInv, ClientParts
      <3>2. QED
        BY <3>1 DEF Linked, Unlogged, Joining, StrangerInv
    <2>2. QED
      BY <2>1 DEF EndsOnlyByCause, Excuse
  <1>2. QED
    BY <1>1, WindowsInductive, PTL

-----------------------------------------------------------------------------
(***************************************************************************)
(* The tables of the two sides fit (Wire): what is asked has a case at the   *)
(* server, and its keys; what is answered or passed on has one at the        *)
(* client. So every request conforms, whoever makes it and in which state.   *)
(***************************************************************************)
\* The messages of an action have the keys that are always set.
LEMMA VersionsHave ==
  ASSUME NEW type, NEW action, NEW status, NEW en, NEW m \in Versions(type, action, status, en)
  PROVE  /\ m.type = type /\ m.action = action /\ m.status = status
         /\ en.must \subseteq m.data
  BY DEF Versions, Message

\* A request fits the server, its answer the client.
RequestFits(type, action) ==
  /\ type \in DOMAIN Cases /\ action \in Cases[type]
  /\ Reads[type][action] \subseteq Queries[type][action].must
AnswerFits(type, action) ==
  type \in DOMAIN Answers /\ action \in DOMAIN Answers[type] =>
    /\ type \in DOMAIN Status /\ action \in DOMAIN Status[type]
    /\ Status[type][action] = "RESPONSE"
    /\ Needs[type][action] \subseteq Answers[type][action].must
NoticesFit(type, action) == \A m \in NoticesOf(type, action) : Understood(m)

\* Then it conforms, as an error does.
LEMMA FittingConforms ==
  ASSUME NEW type, NEW action, RequestFits(type, action), AnswerFits(type, action), NoticesFit(type, action)
  PROVE  Conform(type, action)
<1>1. ASSUME NEW q \in QueriesOf(type, action)
      PROVE  Dispatched(q) /\ Readable(q)
  <2>1. /\ q.type = type /\ q.action = action /\ q.status = "QUERY"
        /\ Queries[type][action].must \subseteq q.data
    BY VersionsHave DEF QueriesOf
  <2>2. QED
    BY <2>1 DEF RequestFits, Dispatched, Readable
<1>2. ASSUME NEW m \in AnswersOf(type, action)
      PROVE  Understood(m)
  <2>1. /\ type \in DOMAIN Answers /\ action \in DOMAIN Answers[type]
        /\ m \in Versions(type, action, "RESPONSE", Answers[type][action])
    BY DEF AnswersOf
  <2>2. /\ m.type = type /\ m.action = action /\ m.status = "RESPONSE"
        /\ Answers[type][action].must \subseteq m.data
    BY <2>1, VersionsHave
  <2>3. /\ type \in DOMAIN Status /\ action \in DOMAIN Status[type]
        /\ Status[type][action] = "RESPONSE"
        /\ Needs[type][action] \subseteq Answers[type][action].must
    BY <2>1 DEF AnswerFits
  <2>4. QED
    BY <2>2, <2>3 DEF Understood
<1>3. Understood(Error)
  BY DEF Understood, Error, Message
<1>4. QED
  BY <1>1, <1>2, <1>3 DEF Conform, NoticesFit

\* Those who are told of a user or of a deletion understand it.
LEMMA NoticesUnderstood ==
  Understood(UserConnected) /\ Understood(UserDisconnected) /\ Understood(FileDeleted)
BY DEF Understood, UserConnected, UserDisconnected, FileDeleted, Message, Status, Needs,
       EditStatus, EditNeeds, FileStatus, FileNeeds, Peer

\* Accounts.
LEMMA UserFits ==
  ASSUME NEW action \in DOMAIN UserQueries
  PROVE  Conform("USER", action)
<1>1. RequestFits("USER", action)
  BY DEF RequestFits, Cases, Reads, Queries, UserCases, UserReads, UserQueries, Plain, Entry
<1>2. AnswerFits("USER", action)
  BY DEF AnswerFits, Answers, Status, Needs, UserStatus, UserNeeds, Plain, Entry
<1>3. NoticesFit("USER", action)
  BY NoticesUnderstood DEF NoticesFit, NoticesOf
<1>4. QED
  BY <1>1, <1>2, <1>3, FittingConforms

\* Files.
LEMMA FileFits ==
  ASSUME NEW action \in DOMAIN FileQueries
  PROVE  Conform("FILE", action)
<1>1. RequestFits("FILE", action)
  BY DEF RequestFits, Cases, Reads, Queries, FileCases, FileReads, FileQueries, OnFile, Plain, Entry
<1>2. AnswerFits("FILE", action)
  BY DEF AnswerFits, Answers, Status, Needs, FileStatus, FileNeeds, Plain, Entry
<1>3. NoticesFit("FILE", action)
  BY NoticesUnderstood DEF NoticesFit, NoticesOf
<1>4. QED
  BY <1>1, <1>2, <1>3, FittingConforms

\* Edits, which are passed on under another name and without the token.
LEMMA EditFits ==
  ASSUME NEW action \in DOMAIN EditQueries
  PROVE  Conform("FILE_EDIT", action)
<1>1. RequestFits("FILE_EDIT", action)
  BY DEF RequestFits, Cases, Reads, Queries, EditCases, EditReads, EditQueries, OnFile, Plain, Entry
<1>2. AnswerFits("FILE_EDIT", action)
  BY DEF AnswerFits, Answers, Status, Needs, Plain, Entry
<1>3. NoticesFit("FILE_EDIT", action)
  <2>1. ASSUME NEW q \in QueriesOf("FILE_EDIT", action) PROVE Understood(PassedOn(q))
    <3>1. q.type = "FILE_EDIT" /\ q.action = action /\ EditQueries[action].must \subseteq q.data
      BY VersionsHave DEF QueriesOf, Queries
    <3>2. /\ PassedOn(q).type = "FILE_EDIT" /\ PassedOn(q).action = Remote[action]
          /\ PassedOn(q).status = "QUERY"
          /\ (EditQueries[action].must \ {"token"}) \cup {"userId"} \subseteq PassedOn(q).data
      BY <3>1 DEF PassedOn, Message
    <3>3. /\ Remote[action] \in DOMAIN EditStatus /\ EditStatus[Remote[action]] = "QUERY"
          /\ EditNeeds[Remote[action]] \subseteq
                (EditQueries[action].must \ {"token"}) \cup {"userId"}
      BY DEF Remote, EditStatus, EditNeeds, EditQueries, Plain, Entry, OnFile, Peer
    <3>4. QED
      BY <3>2, <3>3 DEF Understood, Status, Needs
  <2>2. QED
    BY <2>1 DEF NoticesFit, NoticesOf
<1>4. QED
  BY <1>1, <1>2, <1>3, FittingConforms

\* Comments, likewise.
LEMMA CommentFits ==
  ASSUME NEW action \in DOMAIN CommentQueries
  PROVE  Conform("COMMENT", action)
<1>1. RequestFits("COMMENT", action)
  BY DEF RequestFits, Cases, Reads, Queries, CommentCases, CommentReads, CommentQueries, OnFile, Plain, Entry
<1>2. AnswerFits("COMMENT", action)
  BY DEF AnswerFits, Answers, Status, Needs, Plain, Entry
<1>3. NoticesFit("COMMENT", action)
  <2>1. ASSUME NEW q \in QueriesOf("COMMENT", action) PROVE Understood(PassedOn(q))
    <3>1. q.type = "COMMENT" /\ q.action = action /\ CommentQueries[action].must \subseteq q.data
      BY VersionsHave DEF QueriesOf, Queries
    <3>2. /\ PassedOn(q).type = "COMMENT" /\ PassedOn(q).action = Remote[action]
          /\ PassedOn(q).status = "QUERY"
          /\ (CommentQueries[action].must \ {"token"}) \cup {"userId"} \subseteq PassedOn(q).data
      BY <3>1 DEF PassedOn, Message
    <3>3. /\ Remote[action] \in DOMAIN CommentStatus /\ CommentStatus[Remote[action]] = "QUERY"
          /\ CommentNeeds[Remote[action]] \subseteq
                (CommentQueries[action].must \ {"token"}) \cup {"userId"}
      BY DEF Remote, CommentStatus, CommentNeeds, CommentQueries, Plain, Entry, OnFile, Peer
    <3>4. QED
      BY <3>2, <3>3 DEF Understood, Status, Needs
  <2>2. QED
    BY <2>1 DEF NoticesFit, NoticesOf
<1>4. QED
  BY <1>1, <1>2, <1>3, FittingConforms

\* Folders.
LEMMA FileSystemFits ==
  ASSUME NEW action \in DOMAIN FileSystemQueries
  PROVE  Conform("FILESYSTEM", action)
<1>1. RequestFits("FILESYSTEM", action)
  BY DEF RequestFits, Cases, Reads, Queries, FileSystemCases, FileSystemReads, FileSystemQueries, OnFile, Plain, Entry
<1>2. AnswerFits("FILESYSTEM", action)
  BY DEF AnswerFits, Answers, Status, Needs, FileSystemStatus, FileSystemNeeds, Plain, Entry
<1>3. NoticesFit("FILESYSTEM", action)
  BY NoticesUnderstood DEF NoticesFit, NoticesOf
<1>4. QED
  BY <1>1, <1>2, <1>3, FittingConforms

\* Every request there is conforms.
LEMMA AllConform ==
  ASSUME NEW type \in DOMAIN Queries, NEW action \in DOMAIN Queries[type]
  PROVE  <<type, action>> \in Conforming
<1>1. Conform(type, action)
  BY UserFits, FileFits, EditFits, CommentFits, FileSystemFits DEF Queries
<1>2. QED
  BY <1>1 DEF Conforming

\* The requests there are.
LEMMA RequestsConform ==
  /\ \A action \in DOMAIN UserQueries : <<"USER", action>> \in Conforming
  /\ \A action \in DOMAIN FileQueries : <<"FILE", action>> \in Conforming
  /\ \A action \in DOMAIN FileSystemQueries : <<"FILESYSTEM", action>> \in Conforming
  /\ Edits \subseteq Conforming /\ Alters \subseteq Conforming
<1>1. /\ \A action \in DOMAIN UserQueries : <<"USER", action>> \in Conforming
      /\ \A action \in DOMAIN FileQueries : <<"FILE", action>> \in Conforming
      /\ \A action \in DOMAIN FileSystemQueries : <<"FILESYSTEM", action>> \in Conforming
      /\ \A action \in DOMAIN EditQueries : <<"FILE_EDIT", action>> \in Conforming
      /\ \A action \in DOMAIN CommentQueries : <<"COMMENT", action>> \in Conforming
  BY AllConform DEF Queries
<1>2. Edits \subseteq Conforming
  BY <1>1 DEF Edits
<1>3. /\ \A action \in {"NEW_DIR", "EDIT_DIR", "GET_DIR", "GET_PATH", "SEARCH"} :
            action \in DOMAIN FileSystemQueries
      /\ "EDIT" \in DOMAIN FileQueries /\ "GET_USER_ICON" \in DOMAIN UserQueries
  BY DEF FileSystemQueries, FileQueries, UserQueries
<1>4. Alters \subseteq Conforming
  BY <1>1, <1>3 DEF Alters
<1>5. QED
  BY <1>1, <1>2, <1>4

\* One request, with whatever comes of it.
LEMMA AskingConforms ==
  ASSUME conforms = TRUE, NEW c \in Clients, NEW type, NEW action, <<type, action>> \in Conforming,
         \/ Sends({<<type, action>>})
         \/ \E g, answers : Asks(c, type, action, g, answers)
         \/ \E g, r, answers, S, m : Relays(c, type, action, g, r, answers, S, m)
  PROVE  conforms' = TRUE
<1>1. Sends({<<type, action>>})
  BY DEF Asks, Relays
<1>2. QED
  BY <1>1 DEF Sends

\* A user's request keeps it.
LEMMA SittingConforms ==
  ASSUME conforms = TRUE, NEW c \in Clients, Sitting(c)
  PROVE  conforms' = TRUE
<1>1. /\ \A action \in {"LOGIN", "NEW_USER", "LOGOUT", "EDIT", "DELETE"} :
            <<"USER", action>> \in Conforming
      /\ \A action \in {"NEW_FILE", "GET", "ACTIVATE_LINK", "DELETE", "FILE_INFO", "GET_LINK",
                        "EDIT", "CLOSE"} : <<"FILE", action>> \in Conforming
      /\ \A action \in {"GET_ALL_DIRS", "DELETE_DIR"} : <<"FILESYSTEM", action>> \in Conforming
  BY RequestsConform DEF UserQueries, FileQueries, FileSystemQueries
<1>2. CASE Connect(c) \/ Quit(c) \/ GoRegister(c) \/ Cancel(c) \/ EditAccount(c) \/ EditCancel(c)
           \/ ActUnlogged(c)
  BY <1>2 DEF Connect, Quit, GoRegister, Cancel, EditAccount, EditCancel, Turn, ActUnlogged
<1>3. ASSUME NEW u \in SignsAs[c], Login(c, u) \/ Signup(c, u) PROVE conforms' = TRUE
  <2>1. CASE Login(c, u)
    BY <1>1, <2>1, AskingConforms DEF Login
  <2>2. CASE Signup(c, u)
    BY <1>1, <2>2, AskingConforms DEF Signup
  <2>3. QED
    BY <1>3, <2>1, <2>2
<1>4. CASE Logout(c)
  BY <1>1, <1>4, AskingConforms DEF Logout
<1>5. CASE EditSave(c) \/ DeleteAccount(c)
  BY <1>1, <1>5, AskingConforms DEF EditSave, DeleteAccount
<1>6. ASSUME NEW f \in Files,
             NewFile(c, f) \/ Open(c, f) \/ ActivateLink(c, f) \/ DeleteFile(c, f) \/ BrowserInfo(c, f)
      PROVE  conforms' = TRUE
  <2>1. CASE NewFile(c, f)
    BY <1>1, <2>1, AskingConforms DEF NewFile
  <2>2. CASE Open(c, f)
    BY <1>1, <2>2, AskingConforms DEF Open, Enters
  <2>3. CASE ActivateLink(c, f)
    BY <1>1, <2>3, AskingConforms DEF ActivateLink, Enters
  <2>4. CASE DeleteFile(c, f)
    BY <1>1, <2>4, AskingConforms DEF DeleteFile, Remove
  <2>5. CASE BrowserInfo(c, f)
    BY <1>1, <2>5, AskingConforms DEF BrowserInfo, Dialog
  <2>6. QED
    BY <1>6, <2>1, <2>2, <2>3, <2>4, <2>5
<1>7. CASE Alter(c) \/ EditorEdit(c) \/ EditorMove(c)
  BY <1>7, RequestsConform DEF Alter, EditorEdit, EditorMove, Types, Sends
<1>8. CASE GetAllDirs(c)
  BY <1>1, <1>8, AskingConforms DEF GetAllDirs
<1>9. CASE BrowserShare(c) \/ EditorInquiry(c)
  <2>1. conforms' = conforms \/ \E a \in {"FILE_INFO", "GET_LINK"} : \E f : Dialog(c, a, f)
    BY <1>9 DEF BrowserShare, EditorInquiry
  <2>2. ASSUME NEW a \in {"FILE_INFO", "GET_LINK"}, NEW f, Dialog(c, a, f) PROVE conforms' = TRUE
    BY <1>1, <2>2, AskingConforms DEF Dialog
  <2>3. QED
    BY <2>1, <2>2
<1>10. CASE EditorRemove(c)
  BY <1>1, <1>10, AskingConforms DEF EditorRemove, Remove
<1>11. CASE EditorRename(c)
  BY <1>1, <1>11, AskingConforms DEF EditorRename
<1>12. CASE EditorClose(c)
  BY <1>1, <1>12, AskingConforms DEF EditorClose, Leaves
<1>13. CASE DeleteDir(c)
  <2>1. Sends({<<"FILESYSTEM", "DELETE_DIR">>})
    BY <1>13 DEF DeleteDir, Asks
  <2>2. QED
    BY <1>1, <2>1, AskingConforms
<1>14. QED
  BY <1>2, <1>3, <1>4, <1>5, <1>6, <1>7, <1>8, <1>9, <1>10, <1>11, <1>12, <1>13 DEF Sitting

\* What arrives keeps it: a file that is shown is followed by requests for icons, the
\* dialog with the folders by a move.
LEMMA ReceivingConforms ==
  ASSUME conforms = TRUE, NEW c \in Clients, Receiving(c)
  PROVE  conforms' = TRUE
<1>1. ASSUME NEW g, NEW a, NEW b, Becomes(c, g, a, b) PROVE conforms' = TRUE
  BY <1>1 DEF Becomes
<1>2. CASE ServerGetAllDirs(c)
  <2>1. <<"FILESYSTEM", "MOVE_FILE">> \in Conforming
    BY RequestsConform DEF FileSystemQueries
  <2>2. QED
    BY <1>1, <1>2, <2>1, AskingConforms DEF ServerGetAllDirs
<1>3. CASE ServerRelease(c) \/ ServerLogin(c) \/ ServerEditUser(c) \/ ServerDeleteUser(c)
  BY <1>1, <1>3 DEF ServerRelease, ServerLogin, ServerEditUser, ServerDeleteUser
<1>6. CASE ServerNewFile(c) \/ ServerGetFile(c) \/ ServerJoined(c) \/ ServerIcon(c)
  <2>1. <<"USER", "GET_USER_ICON">> \in Conforming
    BY RequestsConform DEF UserQueries
  <2>2. \/ Sends({<<"USER", "GET_USER_ICON">>})
        \/ conforms' = conforms
    BY <1>6 DEF ServerNewFile, ServerGetFile, ServerJoined, ServerIcon, Displays
  <2>3. QED
    BY <2>1, <2>2, AskingConforms
<1>4. CASE ServerDeletedFile(c) \/ ServerDeleteFile(c) \/ ServerRefresh(c) \/ ServerStranger(c)
  BY <1>1, <1>4 DEF ServerDeletedFile, ServerDeleteFile, ServerRefresh, ServerStranger
<1>5. QED
  BY <1>2, <1>3, <1>4, <1>6 DEF Receiving

ConformInv == conforms = TRUE

\* Neither side ever meets a message it has no case for, or one without a key it
\* reads, whatever any number of clients ask in any state (message_manager.cpp of
\* the client, server_message_processor.cpp, process_data on both sides).
THEOREM NobodyIsCutOff == Spec => []NeverCutOff
<1>1. Init => ConformInv
  BY DEF Init, ConformInv
<1>2. ConformInv /\ [Next]_vars => ConformInv'
  <2>1. SUFFICES ASSUME conforms = TRUE, [Next]_vars PROVE conforms' = TRUE
    BY DEF ConformInv
  <2>2. CASE UNCHANGED vars
    BY <2>1, <2>2 DEF vars
  <2>3. CASE Next
    <3>1. PICK c \in Clients :
            \/ Sitting(c) \/ Receiving(c) \/ Gone(c)
            \/ SocketConnected(c) \/ Connected(c) \/ CheckConnection(c) \/ ConnectionLost(c)
      BY <2>3 DEF Next
    <3>2. CASE Gone(c) \/ SocketConnected(c) \/ Connected(c) \/ CheckConnection(c) \/ ConnectionLost(c)
      BY <2>1, <3>2 DEF Gone, SocketConnected, Connected, CheckConnection, ConnectionLost
    <3>3. QED
      BY <2>1, <3>1, <3>2, SittingConforms, ReceivingConforms
  <2>4. QED
    BY <2>1, <2>2, <2>3
<1>3. ConformInv => NeverCutOff
  BY DEF NeverCutOff, ConformInv
<1>4. QED
  BY <1>1, <1>2, <1>3, PTL DEF Spec
=============================================================================
