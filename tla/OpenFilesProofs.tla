--------------------------- MODULE OpenFilesProofs ---------------------------
(***************************************************************************)
(* For every set of users and files, every capacity and every bound: the     *)
(* types of OpenFiles' state, and the agreement of the two maps of the        *)
(* MessageManager. ManagerInv is inductive.                                  *)
(*                                                                         *)
(* The server ends on an exception of its own only after its FifoMap has     *)
(* dropped a file that was in use or not yet saved, and until then every     *)
(* client in a file is shown as online in it, and every edit that was accepted *)
(* is kept. HurtInv is inductive; that it implies the agreement of the two maps *)
(* is what LeaveFile's lookups rest on. StoreInv adds what the files hold.   *)
(***************************************************************************)
EXTENDS OpenFiles, FiniteSetTheorems, TLAPS

\* The part of the types that the operations on _openFiles change.
CacheOK ==
  /\ loaded \subseteq Files /\ mem \in [Files -> Entries] /\ hurt \subseteq Files
  /\ queue \in Seq(Files) /\ \A i \in 1 .. Len(queue) : queue[i] \in loaded
  /\ \A i, j \in 1 .. Len(queue) : queue[i] = queue[j] => i = j

\* The part that the operations on _clients and _fileClients change.
ClientsOK ==
  /\ logged \subseteq Users /\ open \in [Users -> Files \cup {NoFile}]
  /\ fileClients \in [Files -> SUBSET Users]
  /\ view \in [Users -> Files \cup {NoFile, LoggedOut}] /\ notices \in [Users -> SUBSET Files]
  /\ stray \in [Users -> Files \cup {NoFile}]

\* The part that is written to disk and to the database.
StoreOK ==
  /\ disk \in [Files -> Images] /\ rows \in [Files -> SUBSET Users] /\ born \subseteq Files

\* The rest.
OtherOK ==
  /\ server \in {"up", "down", "aborted"}
  /\ accepted \in [Files -> SUBSET Nat]
  /\ opens \in Nat /\ edits \in Nat /\ crashes \in Nat

QueueSome == loaded # {} \/ (\E u \in Users : open[u] # NoFile) => queue # << >>

\* What the operations on the two maps keep, the disk aside.
Kept == CacheOK /\ ClientsOK /\ MapsAgree /\ UnbornInv /\ SessionInv /\ QueueSome

\* The parts are the whole.
LEMMA Parts == ManagerInv <=> Kept /\ StoreOK /\ OtherOK
  BY DEF ManagerInv, TypeOK, QueueInv, QueueSome, Kept, CacheOK, ClientsOK, StoreOK, OtherOK

\* The same of the next state.
LEMMA PartsNext == Kept' /\ StoreOK' /\ OtherOK' => ManagerInv'
  BY DEF ManagerInv, TypeOK, QueueInv, QueueSome, Kept, CacheOK, ClientsOK, StoreOK, OtherOK

\* The empty user map, and the entries a handler may find or put in the map.
LEMMA BlankOK ==
  /\ Nobody \in UserMaps /\ Blank \in Entries /\ Phantom \in Entries
  /\ Missing \in Images /\ Torn \in Images
<1>1. Nobody \in UserMaps
  BY DEF Nobody, UserMaps
<1>2. QED
  BY <1>1 DEF Blank, Phantom, Missing, Torn, Entries, Images

\* A file read from disk is an entry.
LEMMA LoadedEntryOK ==
  ASSUME CacheOK, StoreOK, NEW f \in Files
  PROVE  LoadedEntry(f) \in Entries
<1>1. disk[f] \in Images /\ mem[f] \in Entries
  BY DEF CacheOK, StoreOK
<1>2. QED
  BY <1>1 DEF LoadedEntry, Entries, Images

\* What FifoMap::insert drops is in the map, and its queue is not empty then:
\* a map that has reached its capacity is not empty.
LEMMA VictimsOK ==
  ASSUME CacheOK, loaded # {} => queue # << >>, NEW f \in Files
  PROVE  /\ Victims(f) = {} \/ (Victims(f) = {queue[1]} /\ queue # << >> /\ f \notin loaded)
         /\ Victims(f) \subseteq loaded
<1>1. CASE f \notin loaded /\ Cardinality(loaded) = Capacity
  <2>1. loaded # {}
    BY <1>1, FS_EmptySet, CapacityAssumption
  <2>2. queue # << >> /\ Len(queue) \in Nat /\ Len(queue) > 0
    BY <2>1 DEF CacheOK
  <2>3. Head(queue) = queue[1] /\ queue[1] \in loaded
    BY <2>2 DEF CacheOK
  <2>4. QED
    BY <1>1, <2>2, <2>3 DEF Victims
<1>2. CASE ~ (f \notin loaded /\ Cardinality(loaded) = Capacity)
  BY <1>2 DEF Victims
<1>3. QED
  BY <1>1, <1>2

\* Tail of a queue whose elements are distinct and in S holds no head.
LEMMA TailOfQueue ==
  ASSUME NEW S, NEW q \in Seq(S), q # << >>,
         \A i, j \in 1 .. Len(q) : q[i] = q[j] => i = j
  PROVE  /\ Tail(q) \in Seq(S) /\ Len(Tail(q)) = Len(q) - 1
         /\ \A i \in 1 .. Len(Tail(q)) : Tail(q)[i] = q[i + 1] /\ Tail(q)[i] # q[1]
<1>1. Len(q) \in Nat /\ Len(q) > 0
  OBVIOUS
<1>2. Tail(q) \in Seq(S) /\ Len(Tail(q)) = Len(q) - 1
  OBVIOUS
<1>3. ASSUME NEW i \in 1 .. Len(Tail(q))
      PROVE  Tail(q)[i] = q[i + 1] /\ i + 1 \in 1 .. Len(q) /\ 1 \in 1 .. Len(q) /\ i + 1 # 1
  BY <1>1, <1>2
<1>4. QED
  BY <1>2, <1>3

\* loadFile and the insertion keep map and queue together.
LEMMA LoadOK ==
  ASSUME CacheOK, loaded # {} => queue # << >>,
         NEW f \in Files, NEW e \in Entries, Load(f, e)
  PROVE  CacheOK' /\ loaded' # {} /\ queue' # << >>
<1>. DEFINE V == Victims(f)
           q == IF V = {} THEN queue ELSE Tail(queue)
<1>1. /\ V = {} \/ (V = {queue[1]} /\ queue # << >> /\ f \notin loaded)
      /\ V \subseteq loaded
  BY VictimsOK
<1>2. /\ loaded' = (loaded \ V) \cup {f}
      /\ mem' = [g \in Files |-> IF g = f THEN e ELSE IF g \in V THEN Blank ELSE mem[g]]
      /\ queue' = IF f \in loaded THEN queue ELSE Append(q, f)
      /\ hurt' = hurt \cup {g \in V : (Live(g) /\ mem[g].dirty) \/ \E u \in Users : open[u] = g}
  BY DEF Load
<1>3. loaded' \subseteq Files /\ hurt' \subseteq Files /\ f \in loaded'
  BY <1>1, <1>2 DEF CacheOK
<1>4. mem' \in [Files -> Entries]
  BY <1>2, BlankOK DEF CacheOK
<1>5. CASE f \in loaded
  <2>1. V = {} /\ queue' = queue /\ loaded' = loaded
    BY <1>1, <1>2, <1>5
  <2>2. QED
    BY <1>3, <1>4, <1>5, <2>1 DEF CacheOK
<1>6. CASE f \notin loaded
  <2>1. /\ q \in Seq(Files) /\ Len(q) \in Nat
        /\ \A i \in 1 .. Len(q) : q[i] \in loaded \ V /\ q[i] # f
        /\ \A i, j \in 1 .. Len(q) : q[i] = q[j] => i = j
    <3>1. CASE V = {}
      BY <1>6, <3>1 DEF CacheOK
    <3>2. CASE V # {}
      <4>1. V = {queue[1]} /\ queue # << >> /\ q = Tail(queue)
        BY <1>1, <3>2
      <4>2. /\ q \in Seq(Files) /\ Len(q) = Len(queue) - 1
            /\ \A i \in 1 .. Len(q) : q[i] = queue[i + 1] /\ q[i] # queue[1]
        BY <4>1, TailOfQueue DEF CacheOK
      <4>3. \A i \in 1 .. Len(q) : i + 1 \in 1 .. Len(queue)
        BY <4>2 DEF CacheOK
      <4>4. \A i \in 1 .. Len(q) : q[i] \in loaded \ V /\ q[i] # f
        <5>1. ASSUME NEW i \in 1 .. Len(q)
              PROVE  q[i] \in loaded /\ q[i] # queue[1]
          BY <4>2, <4>3 DEF CacheOK
        <5>2. QED
          BY <1>6, <4>1, <5>1
      <4>5. \A i, j \in 1 .. Len(q) : q[i] = q[j] => i = j
        <5>1. ASSUME NEW i \in 1 .. Len(q), NEW j \in 1 .. Len(q), q[i] = q[j]
              PROVE  i = j
          <6>1. queue[i + 1] = queue[j + 1]
            BY <4>2, <5>1
          <6>2. i + 1 = j + 1
            BY <4>3, <6>1 DEF CacheOK
          <6>3. QED
            BY <6>2
        <5>2. QED
          BY <5>1
      <4>6. QED
        <5>1. Len(q) \in Nat
          BY <4>2
        <5>2. QED
          BY <4>2, <4>4, <4>5, <5>1
    <3>3. QED
      BY <3>1, <3>2
  <2>. HIDE DEF q, V
  <2>2. queue' = Append(q, f)
    BY <1>2, <1>6
  <2>3. /\ queue' \in Seq(Files) /\ Len(queue') = Len(q) + 1 /\ queue' # << >>
        /\ \A i \in 1 .. Len(q) : queue'[i] = q[i]
        /\ queue'[Len(q) + 1] = f
    BY <2>1, <2>2
  <2>4. \A i \in 1 .. Len(queue') : i \in 1 .. Len(q) \/ i = Len(q) + 1
    BY <2>1, <2>3
  <2>5. \A i \in 1 .. Len(queue') : queue'[i] \in loaded'
    BY <1>2, <2>1, <2>3, <2>4
  <2>6. \A i, j \in 1 .. Len(queue') : queue'[i] = queue'[j] => i = j
    BY <2>1, <2>3, <2>4
  <2>7. QED
    BY <1>3, <1>4, <2>3, <2>5, <2>6 DEF CacheOK
<1>7. QED
  BY <1>5, <1>6

-----------------------------------------------------------------------------
\* What a handler may do to the rows before it leaves or enters a file: rows
\* are added, to files that are there or new.
RowsGrow ==
  /\ rows' \in [Files -> SUBSET Users]
  /\ \A f \in Files : rows[f] \subseteq rows'[f]
  /\ \A f \in Files : rows[f] = {} /\ rows'[f] # {} => f \notin born
  /\ \A f \in Files \ born' : rows'[f] = {} /\ f \notin born

\* closeFile keeps the cache's types; whatever it does, the queue stays.
LEMMA LeaveOK ==
  ASSUME CacheOK, ClientsOK, NEW u \in Users, NEW s \in {"absent", "offline"},
         LeaveFile(u, s), hurt' = hurt
  PROVE  /\ CacheOK' /\ queue' = queue
         /\ loaded' # {} => loaded # {} \/ open[u] # NoFile
         /\ fileClients' \in [Files -> SUBSET Users]
         /\ \A f \in Files : fileClients'[f] =
                             IF open[u] = f THEN fileClients[f] \ {u} ELSE fileClients[f]
<1>1. CASE open[u] = NoFile
  BY <1>1, NoFileAssumption DEF LeaveFile, cached, CacheOK, ClientsOK
<1>2. CASE open[u] # NoFile
  <2>. DEFINE f == open[u]
  <2>1. f \in Files
    BY <1>2 DEF ClientsOK
  <2>2. /\ fileClients' = [fileClients EXCEPT ![f] = @ \ {u}]
        /\ loaded' = loaded \cup {f} /\ queue' = queue
        /\ mem' = IF f \notin loaded THEN [mem EXCEPT ![f] = Phantom]
                  ELSE IF LeaveFails(u) THEN mem
                  ELSE [mem EXCEPT ![f].users[u] = s, ![f].dirty = TRUE]
    BY <1>2 DEF LeaveFile
  <2>3. mem' \in [Files -> Entries]
    <3>1. mem[f] \in Entries /\ mem \in [Files -> Entries]
      BY <2>1 DEF CacheOK
    <3>2. [mem[f] EXCEPT !.users[u] = s, !.dirty = TRUE] \in Entries
      BY <3>1 DEF Entries, UserMaps
    <3>3. [mem EXCEPT ![f].users[u] = s, ![f].dirty = TRUE] =
          [mem EXCEPT ![f] = [mem[f] EXCEPT !.users[u] = s, !.dirty = TRUE]]
      BY <2>1, <3>1 DEF Entries
    <3>4. QED
      BY <2>1, <2>2, <3>1, <3>2, <3>3, BlankOK
  <2>. HIDE DEF f
  <2>4. fileClients \in [Files -> SUBSET Users]
    BY DEF ClientsOK
  <2>5. \A g \in Files : fileClients'[g] = IF f = g THEN fileClients[g] \ {u} ELSE fileClients[g]
    BY <2>1, <2>2, <2>4
  <2>6. fileClients' \in [Files -> SUBSET Users]
    BY <2>1, <2>2, <2>4
  <2>7. CacheOK'
    BY <2>1, <2>2, <2>3 DEF CacheOK
  <2>8. QED
    BY <1>2, <2>2, <2>5, <2>6, <2>7 DEF f
<1>3. QED
  BY <1>1, <1>2

\* A process that ends leaves nothing that could disagree.
LEMMA DiesOK ==
  ASSUME NEW s \in {"down", "aborted"}, Dies(s), hurt \subseteq Files, hurt' = hurt, RowsGrow,
         stray \in [Users -> Files \cup {NoFile}], stray' = stray
  PROVE  Kept' /\ server' = s
<1>1. /\ logged' = {} /\ open' = [u \in Users |-> NoFile]
      /\ fileClients' = [f \in Files |-> {}]
      /\ loaded' = {} /\ mem' = [f \in Files |-> Blank] /\ queue' = << >>
      /\ view' = [u \in Users |-> LoggedOut] /\ notices' = [u \in Users |-> {}]
      /\ server' = s
  BY DEF Dies
<1>2. CacheOK'
  BY <1>1, BlankOK DEF CacheOK
<1>3. ClientsOK'
  BY <1>1 DEF ClientsOK
<1>4. MapsAgree'
  BY <1>1, NoFileAssumption DEF MapsAgree
<1>5. UnbornInv' /\ SessionInv' /\ QueueSome'
  BY <1>1, NoFileAssumption DEF UnbornInv, SessionInv, QueueSome, RowsGrow
<1>6. QED
  BY <1>1, <1>2, <1>3, <1>4, <1>5 DEF Kept

\* A client that leaves its file, and possibly the server, leaves both maps in
\* agreement.
LEMMA LeaveKept ==
  ASSUME Kept, NEW u \in Users, NEW s \in {"absent", "offline"}, LeaveFile(u, s), RowsGrow,
         logged' \in {logged, logged \ {u}},
         open' = [open EXCEPT ![u] = NoFile], stray' = stray,
         view' \in [Users -> Files \cup {NoFile, LoggedOut}], SessionInv',
         \A v \in Users \ {u} : view'[v] = view[v],
         notices' \in [Users -> SUBSET Files],
         hurt' = hurt
  PROVE  Kept'
<1>1. /\ CacheOK' /\ queue' = queue
      /\ loaded' # {} => loaded # {} \/ open[u] # NoFile
      /\ fileClients' \in [Files -> SUBSET Users]
      /\ \A f \in Files : fileClients'[f] =
                          IF open[u] = f THEN fileClients[f] \ {u} ELSE fileClients[f]
  BY LeaveOK DEF Kept
<1>2. /\ open \in [Users -> Files \cup {NoFile}] /\ fileClients \in [Files -> SUBSET Users]
      /\ open'[u] = NoFile
      /\ \A v \in Users \ {u} : open'[v] = open[v]
  BY DEF Kept, ClientsOK
<1>3. ClientsOK'
  BY <1>1, <1>2 DEF Kept, ClientsOK
<1>4. QueueSome'
  BY <1>1, <1>2 DEF Kept, QueueSome
<1>5. UnbornInv'
  BY <1>1, <1>2, NoFileAssumption DEF Kept, UnbornInv, RowsGrow
<1>6. MapsAgree'
  <2>1. ASSUME NEW v \in Users, NEW f \in Files, rows'[f] # {}
        PROVE  v \in fileClients'[f] <=> open'[v] = f
    <3>1. v \in fileClients[f] <=> open[v] = f
      <4>1. CASE rows[f] # {}
        BY <4>1 DEF Kept, MapsAgree, Live
      <4>2. CASE rows[f] = {}
        <5>1. fileClients[f] = {}
          BY <2>1, <4>2 DEF Kept, UnbornInv, RowsGrow
        <5>2. open[v] # f
          BY <2>1, <4>2 DEF Kept, UnbornInv, RowsGrow
        <5>3. QED
          BY <5>1, <5>2
      <4>3. QED
        BY <4>1, <4>2
    <3>2. QED
      BY <1>1, <1>2, <3>1, NoFileAssumption
  <2>2. ASSUME NEW v \in Users, open'[v] # NoFile
        PROVE  /\ v \in logged'
               /\ v \notin rows'[open'[v]] => stray'[v] = open'[v] /\ view'[v] = NoFile
    <3>1. v # u /\ open'[v] = open[v] /\ open[v] \in Files /\ view'[v] = view[v]
      BY <1>2, <2>2
    <3>2. v \in logged /\ (v \notin rows[open[v]] => stray[v] = open[v] /\ view[v] = NoFile)
      BY <2>2, <3>1 DEF Kept, MapsAgree
    <3>3. QED
      BY <3>1, <3>2 DEF RowsGrow
  <2>3. QED
    BY <2>1, <2>2 DEF MapsAgree, Live
<1>7. QED
  BY <1>1, <1>3, <1>4, <1>5, <1>6 DEF Kept

\* clientDisconnected, when it throws nothing.
LEMMA SignOffOK ==
  ASSUME Kept, NEW u \in Users, SignOff(u), RowsGrow, stray' = stray
  PROVE  Kept' /\ server' = server
<1>1. /\ LeaveFile(u, "offline")
      /\ logged' = logged \ {u}
      /\ open' = [open EXCEPT ![u] = NoFile]
      /\ view' = [view EXCEPT ![u] = LoggedOut]
      /\ notices' = [notices EXCEPT ![u] = {}]
      /\ server' = server /\ hurt' = hurt
  BY DEF SignOff, BackToLogin
<1>2. /\ notices' \in [Users -> SUBSET Files]
      /\ view' \in [Users -> Files \cup {NoFile, LoggedOut}]
      /\ SessionInv' /\ \A v \in Users \ {u} : view'[v] = view[v]
  BY <1>1 DEF Kept, ClientsOK, SessionInv
<1>3. QED
  BY <1>1, <1>2, LeaveKept

\* getFile of a client with no open file enters it in both maps.
LEMMA EnterOK ==
  ASSUME Kept, NEW u \in Users, NEW f \in Files, NEW was \in Entries,
         u \in logged, open[u] = NoFile, EnterFile(u, f, was), RowsGrow, u \in rows'[f],
         view[u] = NoFile, stray' = stray
  PROVE  Kept' /\ server' = server
<1>. DEFINE e == [was EXCEPT !.users[u] = "online", !.dirty = TRUE]
<1>1. /\ Load(f, e)
      /\ fileClients' = [fileClients EXCEPT ![f] = @ \cup {u}]
      /\ open' = [open EXCEPT ![u] = f]
      /\ \E x \in {f, NoFile} : view' = [view EXCEPT ![u] = x]
      /\ notices' \in {notices, [notices EXCEPT ![u] = {}]}
      /\ server' = server /\ logged' = logged
  BY DEF EnterFile, ShowFile, client, Kept, ClientsOK
<1>2. e \in Entries
  BY DEF Entries, UserMaps
<1>. HIDE DEF e
<1>3. CacheOK' /\ queue' # << >>
  BY <1>1, <1>2, LoadOK DEF Kept, QueueSome
<1>4. /\ open \in [Users -> Files \cup {NoFile}] /\ fileClients \in [Files -> SUBSET Users]
      /\ open'[u] = f /\ fileClients'[f] = fileClients[f] \cup {u}
      /\ \A v \in Users \ {u} : open'[v] = open[v]
      /\ \A g \in Files \ {f} : fileClients'[g] = fileClients[g]
  BY <1>1 DEF Kept, ClientsOK
<1>5. ClientsOK'
  BY <1>1 DEF Kept, ClientsOK
<1>6. UnbornInv' /\ SessionInv'
  <2>1. f \in born'
    BY DEF RowsGrow
  <2>2. QED
    BY <1>1, <1>4, <2>1 DEF Kept, UnbornInv, SessionInv, ClientsOK, RowsGrow
<1>7. MapsAgree'
  <2>1. ASSUME NEW v \in Users, NEW g \in Files, rows'[g] # {}
        PROVE  v \in fileClients'[g] <=> open'[v] = g
    <3>1. v \in fileClients[g] <=> open[v] = g
      <4>1. CASE rows[g] # {}
        BY <4>1 DEF Kept, MapsAgree, Live
      <4>2. CASE rows[g] = {}
        <5>1. fileClients[g] = {}
          BY <2>1, <4>2 DEF Kept, UnbornInv, RowsGrow
        <5>2. open[v] # g
          BY <2>1, <4>2 DEF Kept, UnbornInv, RowsGrow
        <5>3. QED
          BY <5>1, <5>2
      <4>3. QED
        BY <4>1, <4>2
    <3>2. QED
      BY <1>4, <3>1, NoFileAssumption
  <2>2. ASSUME NEW v \in Users, open'[v] # NoFile
        PROVE  /\ v \in logged'
               /\ v \notin rows'[open'[v]] => stray'[v] = open'[v] /\ view'[v] = NoFile
    <3>1. CASE v = u
      BY <1>1, <1>4, <3>1
    <3>2. CASE v # u
      <4>1. /\ v \in logged /\ open[v] \in Files /\ open'[v] = open[v]
            /\ v \notin rows[open[v]] => stray[v] = open[v] /\ view[v] = NoFile
            /\ view'[v] = view[v]
        BY <1>1, <1>4, <2>2, <3>2 DEF Kept, MapsAgree, ClientsOK
      <4>2. QED
        BY <1>1, <4>1 DEF RowsGrow
    <3>3. QED
      BY <3>1, <3>2
  <2>3. QED
    BY <2>1, <2>2 DEF MapsAgree, Live
<1>8. QED
  BY <1>1, <1>3, <1>5, <1>6, <1>7 DEF Kept, QueueSome

-----------------------------------------------------------------------------
\* The rows do not grow in most handlers.
LEMMA NoRowsGrow ==
  ASSUME Kept, StoreOK, rows' = rows, born' = born
  PROVE  RowsGrow
  BY DEF RowsGrow, StoreOK, Kept, UnbornInv

\* A step that touches none of what Kept speaks of.
LEMMA KeptStutter ==
  ASSUME Kept, UNCHANGED <<logged, open, fileClients, cached, hurt, stray, rows, born, client>>
  PROVE  Kept'
  BY DEF Kept, CacheOK, ClientsOK, MapsAgree, UnbornInv, SessionInv, QueueSome, Live, cached, client

\* A request that is refused, once its rows are written.
LEMMA RefuseOK ==
  ASSUME Kept, Refuse, RowsGrow, stray' = stray
  PROVE  Kept' /\ server' = server
<1>1. UNCHANGED <<server, logged, open, fileClients, loaded, mem, queue, view, notices, hurt>>
  BY DEF Refuse, manager, cached, client
<1>2. CacheOK' /\ ClientsOK' /\ QueueSome' /\ SessionInv'
  BY <1>1 DEF Kept, CacheOK, ClientsOK, QueueSome, SessionInv
<1>3. UnbornInv'
  BY <1>1 DEF Kept, UnbornInv, RowsGrow
<1>4. MapsAgree'
  <2>1. ASSUME NEW v \in Users, NEW g \in Files, rows'[g] # {}
        PROVE  v \in fileClients[g] <=> open[v] = g
    <3>1. CASE rows[g] # {}
      BY <3>1 DEF Kept, MapsAgree, Live
    <3>2. CASE rows[g] = {}
      <4>1. fileClients[g] = {}
        BY <2>1, <3>2 DEF Kept, UnbornInv, RowsGrow
      <4>2. open[v] # g
        BY <2>1, <3>2 DEF Kept, UnbornInv, RowsGrow
      <4>3. QED
        BY <4>1, <4>2
    <3>3. QED
      BY <3>1, <3>2
  <2>2. ASSUME NEW v \in Users, open[v] # NoFile
        PROVE  v \in logged /\ (v \notin rows'[open[v]] => stray[v] = open[v] /\ view[v] = NoFile)
    BY <2>2 DEF Kept, MapsAgree, ClientsOK, RowsGrow
  <2>3. QED
    BY <1>1, <2>1, <2>2 DEF MapsAgree, Live
<1>5. QED
  BY <1>1, <1>2, <1>3, <1>4 DEF Kept

\* The first state: no client, and the files the database knows.
LEMMA InitManager == Init => ManagerInv
<1>. SUFFICES ASSUME Init PROVE ManagerInv
  OBVIOUS
<1>1. CacheOK
  BY BlankOK DEF Init, CacheOK
<1>2. ClientsOK
  BY DEF Init, ClientsOK
<1>3. StoreOK
  <2>1. Image(Nobody, {}) \in Images /\ Missing \in Images
    BY BlankOK DEF Image, Images
  <2>2. QED
    BY <2>1, RowsAssumption DEF Init, StoreOK
<1>4. OtherOK
  BY DEF Init, OtherOK
<1>5. MapsAgree /\ UnbornInv /\ SessionInv /\ QueueSome
  BY NoFileAssumption, RowsAssumption DEF Init, MapsAgree, UnbornInv, SessionInv, QueueSome
<1>6. QED
  BY <1>1, <1>2, <1>3, <1>4, <1>5, Parts DEF Kept

\* login.
LEMMA LoginStep ==
  ASSUME ManagerInv, NEW u \in Users, Login(u)
  PROVE  ManagerInv'
<1>1. Kept /\ StoreOK /\ OtherOK
  BY Parts
<1>2. Kept'
  BY <1>1 DEF Login, Kept, CacheOK, ClientsOK, MapsAgree, UnbornInv, SessionInv, QueueSome, Live,
              cached, client, store
<1>3. StoreOK' /\ OtherOK'
  BY <1>1 DEF Login, StoreOK, OtherOK, store, history, bounds
<1>4. QED
  BY <1>2, <1>3, PartsNext

\* The connection ends.
LEMMA DisconnectedStep ==
  ASSUME ManagerInv, NEW u \in Users, Disconnected(u)
  PROVE  ManagerInv'
<1>1. Kept /\ StoreOK /\ OtherOK
  BY Parts
<1>2. RowsGrow
  BY <1>1, NoRowsGrow DEF Disconnected, store
<1>3. Kept' /\ server' \in {server, "aborted"}
  <2>1. CASE LeaveFails(u)
    BY <1>1, <1>2, <2>1, DiesOK DEF Disconnected, Kept, CacheOK, ClientsOK
  <2>2. CASE ~ LeaveFails(u)
    BY <1>1, <1>2, <2>2, SignOffOK DEF Disconnected, bounds
  <2>3. QED
    BY <2>1, <2>2
<1>4. StoreOK' /\ OtherOK'
  BY <1>1, <1>3 DEF Disconnected, StoreOK, OtherOK, store, bounds
<1>5. QED
  BY <1>3, <1>4, PartsNext

\* logout.
LEMMA LogoutStep ==
  ASSUME ManagerInv, NEW u \in Users, Logout(u)
  PROVE  ManagerInv'
<1>1. Kept /\ StoreOK /\ OtherOK
  BY Parts
<1>2. RowsGrow
  BY <1>1, NoRowsGrow DEF Logout, store
<1>3. Kept' /\ server' = server
  <2>1. CASE LeaveFails(u)
    <3>1. /\ LeaveFile(u, "offline")
          /\ open' = [open EXCEPT ![u] = NoFile]
          /\ view' = [view EXCEPT ![u] = LoggedOut]
          /\ notices' = [notices EXCEPT ![u] = {}]
          /\ UNCHANGED <<server, logged, hurt, stray>>
      BY <2>1 DEF Logout, BackToLogin
    <3>2. /\ notices' \in [Users -> SUBSET Files]
          /\ view' \in [Users -> Files \cup {NoFile, LoggedOut}]
          /\ SessionInv' /\ \A v \in Users \ {u} : view'[v] = view[v]
      BY <1>1, <3>1 DEF Kept, ClientsOK, SessionInv
    <3>3. QED
      BY <1>1, <1>2, <3>1, <3>2, LeaveKept
  <2>2. CASE ~ LeaveFails(u)
    BY <1>1, <1>2, <2>2, SignOffOK DEF Logout
  <2>3. QED
    BY <2>1, <2>2
<1>4. StoreOK' /\ OtherOK'
  BY <1>1, <1>3 DEF Logout, StoreOK, OtherOK, store, bounds
<1>5. QED
  BY <1>3, <1>4, PartsNext

\* getFile.
LEMMA GetFileStep ==
  ASSUME ManagerInv, NEW u \in Users, NEW f \in Files, GetFile(u, f)
  PROVE  ManagerInv'
<1>1. Kept /\ StoreOK /\ OtherOK
  BY Parts
<1>2. RowsGrow /\ rows' = rows
  BY <1>1, NoRowsGrow DEF GetFile, store
<1>3. Kept' /\ server' = server
  <2>1. CASE u \in rows[f] /\ open[u] = NoFile /\ Readable(f)
    <3>1. LoadedEntry(f) \in Entries
      BY <1>1, LoadedEntryOK DEF Kept
    <3>2. EnterFile(u, f, LoadedEntry(f)) /\ u \in logged
      BY <1>1, <2>1 DEF GetFile, Browses, Served, Kept, SessionInv
    <3>3. QED
      BY <1>1, <1>2, <2>1, <3>1, <3>2, EnterOK DEF GetFile, Browses
  <2>2. CASE ~ (u \in rows[f] /\ open[u] = NoFile /\ Readable(f))
    <3>1. Refuse /\ stray' = stray
      BY <2>2 DEF GetFile
    <3>2. QED
      BY <1>1, <1>2, <3>1, RefuseOK
  <2>3. QED
    BY <2>1, <2>2
<1>4. StoreOK' /\ OtherOK'
  BY <1>1, <1>3 DEF GetFile, Browses, StoreOK, OtherOK, store
<1>5. QED
  BY <1>3, <1>4, PartsNext

\* newFile.
LEMMA NewFileStep ==
  ASSUME ManagerInv, NEW u \in Users, NEW f \in Files, NewFile(u, f)
  PROVE  ManagerInv'
<1>1. Kept /\ StoreOK /\ OtherOK
  BY Parts
<1>2. /\ u \in logged /\ f \notin born /\ view[u] = NoFile
      /\ born' = born \cup {f}
      /\ rows' = [rows EXCEPT ![f] = {u}]
      /\ disk' = [disk EXCEPT ![f] = Image(Nobody, {})]
      /\ opens' = opens + 1 /\ UNCHANGED <<accepted, stray, edits, crashes>>
      /\ IF open[u] = NoFile THEN EnterFile(u, f, Blank) ELSE Refuse
  BY <1>1 DEF NewFile, Browses, Served, Kept, SessionInv
<1>3. RowsGrow /\ u \in rows'[f]
  BY <1>1, <1>2 DEF RowsGrow, StoreOK, Kept, UnbornInv
<1>4. Kept' /\ server' = server
  <2>1. CASE open[u] = NoFile
    BY <1>1, <1>2, <1>3, <2>1, BlankOK, EnterOK
  <2>2. CASE open[u] # NoFile
    <3>1. Refuse
      BY <1>2, <2>2
    <3>2. QED
      BY <1>1, <1>2, <1>3, <3>1, RefuseOK
  <2>3. QED
    BY <2>1, <2>2
<1>5. StoreOK'
  <2>1. Image(Nobody, {}) \in Images
    BY BlankOK DEF Image, Images
  <2>2. QED
    BY <1>1, <1>2, <2>1 DEF StoreOK
<1>6. OtherOK'
  BY <1>1, <1>2, <1>4 DEF OtherOK
<1>7. QED
  BY <1>4, <1>5, <1>6, PartsNext

\* activateLink.
LEMMA ActivateLinkStep ==
  ASSUME ManagerInv, NEW u \in Users, NEW f \in Files, ActivateLink(u, f)
  PROVE  ManagerInv'
<1>1. Kept /\ StoreOK /\ OtherOK
  BY Parts
<1>2. /\ u \in logged /\ rows[f] # {} /\ view[u] = NoFile
      /\ rows' = [rows EXCEPT ![f] = @ \cup {u}]
      /\ opens' = opens + 1 /\ UNCHANGED <<disk, born, accepted, stray, edits, crashes>>
      /\ IF open[u] = NoFile /\ Readable(f) THEN EnterFile(u, f, LoadedEntry(f)) ELSE Refuse
  BY <1>1 DEF ActivateLink, Browses, Served, Live, Kept, SessionInv
<1>3. RowsGrow /\ u \in rows'[f]
  BY <1>1, <1>2 DEF RowsGrow, StoreOK, Kept, UnbornInv
<1>4. Kept' /\ server' = server
  <2>1. CASE open[u] = NoFile /\ Readable(f)
    <3>1. LoadedEntry(f) \in Entries
      BY <1>1, LoadedEntryOK DEF Kept
    <3>2. EnterFile(u, f, LoadedEntry(f))
      BY <1>2, <2>1
    <3>3. QED
      BY <1>1, <1>2, <1>3, <2>1, <3>1, <3>2, EnterOK
  <2>2. CASE ~ (open[u] = NoFile /\ Readable(f))
    <3>1. Refuse
      BY <1>2, <2>2
    <3>2. QED
      BY <1>1, <1>2, <1>3, <3>1, RefuseOK
  <2>3. QED
    BY <2>1, <2>2
<1>5. StoreOK' /\ OtherOK'
  BY <1>1, <1>2, <1>4 DEF StoreOK, OtherOK
<1>6. QED
  BY <1>4, <1>5, PartsNext

\* The edits.
LEMMA EditStep ==
  ASSUME ManagerInv, NEW u \in Users, Edit(u)
  PROVE  ManagerInv'
<1>. DEFINE f == view[u]
<1>1. Kept /\ StoreOK /\ OtherOK
  BY Parts
<1>2. /\ f \in Files /\ edits' = edits + 1 /\ edits' \in Nat
      /\ UNCHANGED <<disk, rows, born, stray, opens, crashes>>
  BY <1>1 DEF Edit, Served, Kept, ClientsOK, OtherOK, store
<1>3. RowsGrow
  BY <1>1, <1>2, NoRowsGrow
<1>4. CASE Accepts(u) /\ Readable(f)
  <2>. DEFINE e == [LoadedEntry(f) EXCEPT !.text = @ \cup {edits'}, !.dirty = TRUE]
  <2>1. /\ Load(f, e)
        /\ accepted' = [accepted EXCEPT ![f] = @ \cup {edits'}]
        /\ UNCHANGED <<server, logged, open, fileClients, view, notices>>
    BY <1>4 DEF Edit, manager, client
  <2>2. e \in Entries
    <3>1. LoadedEntry(f) \in Entries
      BY <1>1, <1>2, LoadedEntryOK DEF Kept
    <3>2. QED
      BY <1>2, <3>1 DEF Entries
  <2>. HIDE DEF e
  <2>3. CacheOK' /\ queue' # << >>
    BY <1>1, <1>2, <2>1, <2>2, LoadOK DEF Kept, QueueSome
  <2>4. Kept'
    BY <1>1, <1>2, <2>1, <2>3 DEF Kept, ClientsOK, MapsAgree, UnbornInv, SessionInv, QueueSome, Live
  <2>5. StoreOK' /\ OtherOK'
    BY <1>1, <1>2, <2>1 DEF StoreOK, OtherOK
  <2>6. QED
    BY <2>4, <2>5, PartsNext
<1>5. CASE ~ (Accepts(u) /\ Readable(f))
  <2>1. Refuse /\ accepted' = accepted
    BY <1>5 DEF Edit
  <2>2. Kept' /\ server' = server
    BY <1>1, <1>2, <1>3, <2>1, RefuseOK
  <2>3. StoreOK' /\ OtherOK'
    BY <1>1, <1>2, <2>1, <2>2 DEF StoreOK, OtherOK
  <2>4. QED
    BY <2>2, <2>3, PartsNext
<1>6. QED
  BY <1>4, <1>5

\* closeFile.
LEMMA CloseStep ==
  ASSUME ManagerInv, NEW u \in Users, Close(u)
  PROVE  ManagerInv'
<1>1. Kept /\ StoreOK /\ OtherOK
  BY Parts
<1>2. RowsGrow
  BY <1>1, NoRowsGrow DEF Close, store
<1>3. /\ view' = [view EXCEPT ![u] = NoFile] /\ u \in logged
      /\ UNCHANGED <<server, logged, notices, hurt, stray>>
  BY <1>1 DEF Close, Served, Kept, SessionInv
<1>4. /\ notices' \in [Users -> SUBSET Files]
      /\ view' \in [Users -> Files \cup {NoFile, LoggedOut}]
      /\ SessionInv' /\ \A v \in Users \ {u} : view'[v] = view[v]
  BY <1>1, <1>3 DEF Kept, ClientsOK, SessionInv
<1>5. Kept'
  <2>1. CASE Accepts(u)
    <3>1. LeaveFile(u, "offline") /\ open' = [open EXCEPT ![u] = NoFile]
      BY <2>1 DEF Close
    <3>2. QED
      BY <1>1, <1>2, <1>3, <1>4, <3>1, LeaveKept
  <2>2. CASE ~ Accepts(u)
    <3>1. UNCHANGED <<fileClients, loaded, mem, queue, open, rows, born>>
      BY <2>2 DEF Close, cached, store
    <3>2. QED
      BY <1>1, <1>3, <1>4, <3>1 DEF Kept, CacheOK, ClientsOK, MapsAgree, UnbornInv, QueueSome, Live
  <2>3. QED
    BY <2>1, <2>2
<1>6. StoreOK' /\ OtherOK'
  BY <1>1, <1>3 DEF Close, StoreOK, OtherOK, store, bounds
<1>7. QED
  BY <1>5, <1>6, PartsNext

\* Deleting a row: when the owner deletes, every client of the file has its
\* fileIsOpen cleared, unless there is no link and so no other client.
LEMMA DeleteStep ==
  ASSUME ManagerInv, NEW u \in Users, NEW f \in Files, Delete(u, f)
  PROVE  ManagerInv'
<1>1. Kept /\ StoreOK /\ OtherOK
  BY Parts
<1>2. u \in rows[f] /\ UNCHANGED <<accepted, stray, opens, edits, crashes>>
  BY DEF Delete, bounds
<1>3. CASE open[u] = f /\ LeaveFails(u)
  <2>1. /\ LeaveFile(u, "absent")
        /\ open' = [open EXCEPT ![u] = NoFile]
        /\ UNCHANGED <<server, logged, view, notices, disk, rows, born, hurt>>
    BY <1>3 DEF Delete, store, client
  <2>2. RowsGrow
    BY <1>1, <2>1, NoRowsGrow
  <2>3. Kept'
    BY <1>1, <1>2, <2>1, <2>2, LeaveKept DEF Kept, ClientsOK, SessionInv
  <2>4. StoreOK' /\ OtherOK'
    BY <1>1, <1>2, <2>1, <2>3 DEF StoreOK, OtherOK
  <2>5. QED
    BY <2>3, <2>4, PartsNext
<1>4. CASE ~ (open[u] = f /\ LeaveFails(u))
  <2>1. /\ DeleteRow(u, f)
        /\ IF open[u] = f THEN LeaveFile(u, "absent") ELSE UNCHANGED <<fileClients, cached>>
    BY <1>4 DEF Delete
  <2>2. /\ view' = [view EXCEPT ![u] = NoFile]
        /\ UNCHANGED <<server, logged, born, hurt>>
    BY <2>1 DEF DeleteRow
  <2>3. /\ open \in [Users -> Files \cup {NoFile}] /\ fileClients \in [Files -> SUBSET Users]
        /\ rows \in [Files -> SUBSET Users] /\ notices \in [Users -> SUBSET Files]
        /\ disk \in [Files -> Images]
    BY <1>1 DEF Kept, ClientsOK, StoreOK
  <2>4. /\ CacheOK' /\ queue' = queue
        /\ loaded' # {} => loaded # {} \/ open[u] # NoFile
        /\ fileClients' \in [Files -> SUBSET Users]
        /\ \A g \in Files : fileClients'[g] =
                            IF g = f THEN fileClients[g] \ {u} ELSE fileClients[g]
    <3>1. u \in fileClients[f] <=> open[u] = f
      BY <1>1, <1>2 DEF Kept, MapsAgree, Live
    <3>2. CASE open[u] = f
      <4>1. LeaveFile(u, "absent")
        BY <2>1, <3>2
      <4>2. QED
        BY <1>1, <2>2, <3>2, <4>1, LeaveOK DEF Kept
    <3>3. CASE open[u] # f
      <4>1. UNCHANGED <<fileClients, loaded, mem, queue>>
        BY <2>1, <3>3 DEF cached
      <4>2. QED
        BY <1>1, <2>2, <2>3, <3>1, <3>3, <4>1 DEF Kept, CacheOK
    <3>4. QED
      BY <3>2, <3>3
  <2>5. /\ open' \in [Users -> Files \cup {NoFile}]
        /\ notices' \in [Users -> SUBSET Files]
        /\ rows' \in [Files -> SUBSET Users]
        /\ disk' \in [Files -> Images]
        /\ \A v \in Users : open'[v] = open[v] \/ (open[v] = f /\ open'[v] = NoFile)
        /\ open'[u] # f
        /\ \A g \in Files \ {f} : rows'[g] = rows[g]
        /\ \A v \in Users : open'[v] = f =>
              rows'[f] = rows[f] \ {u} \/ (stray[v] = f /\ view[v] = NoFile)
        /\ rows'[f] = {} \/ (rows'[f] = rows[f] \ {u} /\ \A v \in Users \ {u} : open'[v] = open[v])
    <3>1. CASE u = Owner[f]
      <4>1. /\ rows' = [rows EXCEPT ![f] = {}]
            /\ disk' = [disk EXCEPT ![f] = Missing]
            /\ open' = [v \in Users |->
                          IF open[v] = f /\ (v = u \/ Linkers(f) # {}) THEN NoFile ELSE open[v]]
            /\ notices' = [v \in Users |->
                             IF v \in Linkers(f) \cap InSession THEN notices[v] \cup {f}
                             ELSE notices[v]]
        BY <2>1, <3>1 DEF DeleteRow
      <4>2. ASSUME NEW v \in Users, open'[v] = f
            PROVE  v # u /\ stray[v] = f /\ view[v] = NoFile
        <5>1. v # u /\ open[v] = f /\ Linkers(f) = {}
          BY <4>1, <4>2, NoFileAssumption
        <5>2. v \notin rows[f]
          BY <3>1, <5>1 DEF Linkers
        <5>3. QED
          BY <1>1, <5>1, <5>2, NoFileAssumption DEF Kept, MapsAgree
      <4>3. open'[u] # f
        BY <4>2
      <4>4. open' \in [Users -> Files \cup {NoFile}] /\ notices' \in [Users -> SUBSET Files]
        BY <2>3, <4>1
      <4>5. rows' \in [Files -> SUBSET Users] /\ disk' \in [Files -> Images]
        BY <2>3, <4>1, BlankOK
      <4>6. QED
        BY <2>3, <4>1, <4>2, <4>3, <4>4, <4>5
    <3>2. CASE u # Owner[f]
      <4>1. /\ rows' = [rows EXCEPT ![f] = @ \ {u}]
            /\ open' = [open EXCEPT ![u] = IF @ = f THEN NoFile ELSE @]
            /\ UNCHANGED <<disk, notices>>
        BY <2>1, <3>2 DEF DeleteRow
      <4>2. QED
        BY <2>3, <4>1, NoFileAssumption
    <3>3. QED
      BY <3>1, <3>2
  <2>6. ClientsOK'
    BY <1>1, <1>2, <2>2, <2>4, <2>5 DEF Kept, ClientsOK
  <2>7. QueueSome'
    BY <1>1, <2>4, <2>5 DEF Kept, QueueSome
  <2>8. UnbornInv' /\ SessionInv'
    <3>1. view[u] # LoggedOut /\ u \in logged
      BY <1>1 DEF Delete, Served, Kept, SessionInv
    <3>2. QED
      BY <1>1, <2>2, <2>3, <2>4, <2>5, <3>1, NoFileAssumption
         DEF Kept, UnbornInv, SessionInv, ClientsOK
  <2>9. MapsAgree'
    <3>1. ASSUME NEW v \in Users, NEW g \in Files, rows'[g] # {}
          PROVE  v \in fileClients'[g] <=> open'[v] = g
      <4>1. rows[g] # {}
        BY <2>5, <3>1
      <4>2. v \in fileClients[g] <=> open[v] = g
        BY <1>1, <4>1 DEF Kept, MapsAgree, Live
      <4>3. QED
        BY <2>4, <2>5, <3>1, <4>2, NoFileAssumption
    <3>2. ASSUME NEW v \in Users, open'[v] # NoFile
          PROVE  /\ v \in logged'
                 /\ v \notin rows'[open'[v]] => stray'[v] = open'[v] /\ view'[v] = NoFile
      <4>1. /\ open'[v] = open[v] /\ v \in logged /\ open[v] \in Files /\ stray' = stray
            /\ v \notin rows[open[v]] => stray[v] = open[v] /\ view[v] = NoFile
        BY <1>1, <1>2, <2>3, <2>5, <3>2 DEF Kept, MapsAgree
      <4>2. view[v] = NoFile => view'[v] = NoFile
        BY <1>1, <2>2 DEF Kept, ClientsOK
      <4>3. CASE open[v] = f
        BY <2>2, <2>5, <4>1, <4>2, <4>3
      <4>4. CASE open[v] # f
        BY <2>2, <2>5, <4>1, <4>2, <4>4
      <4>5. QED
        BY <4>3, <4>4
    <3>3. QED
      BY <3>1, <3>2 DEF MapsAgree, Live
  <2>10. StoreOK' /\ OtherOK'
    BY <1>1, <1>2, <2>2, <2>5 DEF StoreOK, OtherOK
  <2>11. QED
    BY <2>4, <2>6, <2>7, <2>8, <2>9, <2>10, PartsNext DEF Kept
<1>5. QED
  BY <1>3, <1>4

\* Deleting a folder: the entry of a client that has deleted its own row without
\* leaving the file is in stray, and that client is in its browser.
LEMMA DeleteDirStep ==
  ASSUME ManagerInv, NEW u \in Users, NEW S \in SUBSET Files, DeleteDir(u, S)
  PROVE  ManagerInv'
<1>1. Kept /\ StoreOK /\ OtherOK
  BY Parts
<1>. DEFINE own == {f \in S : Owner[f] = u}
<1>2. /\ rows' = [f \in Files |-> IF f \in own THEN {} ELSE IF f \in S THEN rows[f] \ {u} ELSE rows[f]]
      /\ disk' = [f \in Files |-> IF f \in own THEN Missing ELSE disk[f]]
      /\ open' = [v \in Users |-> IF open[v] \in own /\ Linkers(open[v]) # {} THEN NoFile ELSE open[v]]
      /\ notices' = [v \in Users |->
                       notices[v] \cup {f \in own : v \in Linkers(f) \cap InSession}]
      /\ stray' = [stray EXCEPT ![u] = IF open'[u] \in S THEN open'[u] ELSE @]
      /\ view[u] = NoFile /\ \A f \in S : u \in rows[f] /\ f \in Files
      /\ UNCHANGED <<server, logged, fileClients, loaded, mem, queue, born, view, accepted, hurt,
                     opens, edits, crashes>>
  BY DEF DeleteDir, cached, bounds
<1>3. /\ open \in [Users -> Files \cup {NoFile}] /\ fileClients \in [Files -> SUBSET Users]
      /\ rows \in [Files -> SUBSET Users] /\ notices \in [Users -> SUBSET Files]
      /\ disk \in [Files -> Images] /\ stray \in [Users -> Files \cup {NoFile}]
  BY <1>1 DEF Kept, ClientsOK, StoreOK
<1>4. /\ \A f \in own : f \in Files /\ rows'[f] = {}
      /\ \A f \in Files \ own : rows'[f] = (IF f \in S THEN rows[f] \ {u} ELSE rows[f])
      /\ \A v \in Users : \/ open'[v] = open[v]
                          \/ open[v] \in own /\ open'[v] = NoFile
      /\ \A v \in Users : open[v] \in own /\ open'[v] = open[v] => Linkers(open[v]) = {}
      /\ \A f \in Files : rows'[f] \subseteq rows[f]
      /\ \A f \in own : Owner[f] = u
  BY <1>2, <1>3, NoFileAssumption
<1>5. /\ rows' \in [Files -> SUBSET Users] /\ notices' \in [Users -> SUBSET Files]
      /\ open' \in [Users -> Files \cup {NoFile}]
  BY <1>2, <1>3
<1>6. disk' \in [Files -> Images]
  BY <1>2, <1>3, BlankOK
<1>7. /\ stray' \in [Users -> Files \cup {NoFile}]
      /\ \A v \in Users \ {u} : stray'[v] = stray[v]
      /\ open'[u] \in S => stray'[u] = open'[u]
      /\ open'[u] \notin S => stray'[u] = stray[u]
  BY <1>2, <1>3, <1>5
<1>. HIDE DEF own
<1>8. CacheOK' /\ ClientsOK' /\ SessionInv'
  BY <1>1, <1>2, <1>5, <1>7 DEF Kept, CacheOK, ClientsOK, SessionInv
<1>9. QueueSome' /\ UnbornInv'
  BY <1>1, <1>2, <1>4, NoFileAssumption DEF Kept, QueueSome, UnbornInv
<1>10. MapsAgree'
  <2>1. ASSUME NEW v \in Users, NEW g \in Files, rows'[g] # {}
        PROVE  v \in fileClients'[g] <=> open'[v] = g
    <3>1. v \in fileClients[g] <=> open[v] = g
      BY <1>1, <1>4, <2>1 DEF Kept, MapsAgree, Live
    <3>2. QED
      BY <1>2, <1>4, <2>1, <3>1, NoFileAssumption
  <2>2. ASSUME NEW v \in Users, open'[v] # NoFile, v \notin rows'[open'[v]]
        PROVE  stray'[v] = open'[v] /\ view'[v] = NoFile
    <3>1. open'[v] = open[v] /\ open[v] \in Files
      BY <1>3, <1>4, <2>2
    <3>2. CASE v \notin rows[open[v]]
      <4>1. stray[v] = open[v] /\ view[v] = NoFile
        BY <1>1, <2>2, <3>1, <3>2 DEF Kept, MapsAgree
      <4>2. QED
        BY <1>2, <1>7, <3>1, <4>1
    <3>3. CASE v \in rows[open[v]]
      <4>1. v = u /\ open'[u] \in S
        <5>1. CASE open[v] \in own
          <6>1. v = Owner[open[v]]
            BY <1>4, <3>1, <3>3, <5>1 DEF Linkers
          <6>2. QED
            BY <1>4, <3>1, <5>1, <6>1 DEF own
        <5>2. CASE open[v] \notin own
          BY <1>4, <2>2, <3>1, <3>3, <5>2
        <5>3. QED
          BY <5>1, <5>2
      <4>2. QED
        BY <1>2, <1>7, <4>1
    <3>4. QED
      BY <3>2, <3>3
  <2>3. \A v \in Users : open'[v] # NoFile => v \in logged'
    BY <1>1, <1>2, <1>4 DEF Kept, MapsAgree
  <2>4. QED
    BY <2>1, <2>2, <2>3 DEF MapsAgree, Live
<1>11. StoreOK' /\ OtherOK'
  BY <1>1, <1>2, <1>5, <1>6 DEF StoreOK, OtherOK
<1>12. QED
  BY <1>8, <1>9, <1>10, <1>11, PartsNext DEF Kept

\* FILE_DELETED.
LEMMA NotifiedStep ==
  ASSUME ManagerInv, NEW u \in Users, Notified(u)
  PROVE  ManagerInv'
<1>1. Kept /\ StoreOK /\ OtherOK
  BY Parts
<1>2. Kept'
  BY <1>1 DEF Notified, Served, Kept, CacheOK, ClientsOK, MapsAgree, UnbornInv, SessionInv, QueueSome, Live,
              manager, cached, store, history
<1>3. StoreOK' /\ OtherOK'
  BY <1>1 DEF Notified, StoreOK, OtherOK, store, history, bounds
<1>4. QED
  BY <1>2, <1>3, PartsNext
-----------------------------------------------------------------------------
\* Storing entries leaves images on disk.
LEMMA StoredOK ==
  ASSUME StoreOK, NEW S, NEW m \in [Files -> Entries]
  PROVE  Stored(S, m) \in [Files -> Images]
<1>1. \A f \in Files : Image(m[f].users, m[f].text) \in Images
  BY DEF Image, Images, Entries
<1>2. QED
  BY <1>1 DEF Stored, StoreOK

\* DiskManager::save.
LEMMA SaveStep ==
  ASSUME ManagerInv, Save
  PROVE  ManagerInv'
<1>1. Kept /\ StoreOK /\ OtherOK
  BY Parts
<1>2. /\ disk' = Stored(Dirty, mem)
      /\ mem' = [f \in Files |-> [mem[f] EXCEPT !.dirty = FALSE]]
      /\ UNCHANGED <<server, manager, loaded, queue, rows, born, client, history, bounds>>
  BY DEF Save
<1>3. mem \in [Files -> Entries] /\ mem' \in [Files -> Entries]
  BY <1>1, <1>2 DEF Kept, CacheOK, Entries
<1>4. Kept'
  BY <1>1, <1>2, <1>3 DEF Kept, CacheOK, ClientsOK, MapsAgree, UnbornInv, SessionInv, QueueSome, Live,
                          manager, client, history
<1>5. StoreOK' /\ OtherOK'
  BY <1>1, <1>2, <1>3, StoredOK DEF StoreOK, OtherOK, history, bounds
<1>6. QED
  BY <1>4, <1>5, PartsNext

\* The process ends, with something readable or torn on disk.
LEMMA EndStep ==
  ASSUME ManagerInv, NEW s \in {"down", "aborted"}, Dies(s),
         disk' \in [Files -> Images], UNCHANGED <<rows, born, accepted, hurt, stray, opens, edits>>,
         crashes' \in Nat
  PROVE  ManagerInv'
<1>1. Kept /\ StoreOK /\ OtherOK
  BY Parts
<1>2. RowsGrow
  BY <1>1, NoRowsGrow
<1>3. Kept' /\ server' = s
  BY <1>1, <1>2, DiesOK DEF Kept, CacheOK, ClientsOK
<1>4. StoreOK' /\ OtherOK'
  BY <1>1, <1>3 DEF StoreOK, OtherOK
<1>5. QED
  BY <1>3, <1>4, PartsNext

\* The save that ends at an entry without a path.
LEMMA SaveThrowsStep ==
  ASSUME ManagerInv, SaveThrows
  PROVE  ManagerInv'
<1>1. Kept /\ StoreOK /\ OtherOK
  BY Parts
<1>2. PICK S \in SUBSET Dirty : disk' = Stored(S, mem)
  BY DEF SaveThrows
<1>3. disk' \in [Files -> Images]
  BY <1>1, <1>2, StoredOK DEF Kept, CacheOK
<1>4. Dies("aborted") /\ UNCHANGED <<rows, born, accepted, hurt, stray, opens, edits, crashes>>
  BY DEF SaveThrows, history, bounds
<1>5. QED
  BY <1>1, <1>3, <1>4, EndStep DEF OtherOK

\* The death of the process from outside.
LEMMA CrashStep ==
  ASSUME ManagerInv, Crash
  PROVE  ManagerInv'
<1>1. Kept /\ StoreOK /\ OtherOK
  BY Parts
<1>2. PICK S \in SUBSET Dirty, T \in SUBSET Dirty :
        disk' = [f \in Files |-> IF f \in T THEN Torn ELSE Stored(S, mem)[f]]
  BY DEF Crash
<1>3. Stored(S, mem) \in [Files -> Images]
  BY <1>1, StoredOK DEF Kept, CacheOK
<1>4. disk' \in [Files -> Images]
  BY <1>2, <1>3, BlankOK
<1>5. /\ Dies("down") /\ crashes' = crashes + 1
      /\ UNCHANGED <<rows, born, accepted, hurt, stray, opens, edits>>
  BY DEF Crash, history
<1>6. QED
  BY <1>1, <1>4, <1>5, EndStep DEF OtherOK

\* MessageManager::quit and the save after it.
LEMMA QuitStep ==
  ASSUME ManagerInv, Quit
  PROVE  ManagerInv'
<1>1. Kept /\ StoreOK /\ OtherOK
  BY Parts
<1>2. Closed \in [Files -> Entries]
  <2>1. ASSUME NEW f \in Files
        PROVE  [mem[f] EXCEPT
                 !.users = [u \in Users |-> IF open[u] = f THEN "offline" ELSE @[u]],
                 !.dirty = @ \/ \E u \in Users : open[u] = f] \in Entries
    <3>1. mem[f] \in Entries
      BY <1>1 DEF Kept, CacheOK
    <3>2. [u \in Users |-> IF open[u] = f THEN "offline" ELSE mem[f].users[u]] \in UserMaps
      BY <3>1 DEF Entries, UserMaps
    <3>3. (mem[f].dirty \/ \E u \in Users : open[u] = f) \in BOOLEAN
      OBVIOUS
    <3>4. QED
      BY <3>1, <3>2, <3>3 DEF Entries
  <2>2. QED
    BY <2>1 DEF Closed
<1>3. /\ \A S : Stored(S, Closed) \in [Files -> Images]
  BY <1>1, <1>2, StoredOK
<1>4. crashes' = crashes + 1 /\ UNCHANGED <<rows, born, accepted, hurt, stray, opens, edits>>
  BY DEF Quit, history
<1>5. CASE Unnamed # {} \/ \E u \in Users : LeaveFails(u)
  <2>1. Dies("aborted") /\ disk' \in [Files -> Images]
    BY <1>3, <1>5 DEF Quit
  <2>2. QED
    BY <1>1, <1>4, <2>1, EndStep DEF OtherOK
<1>6. CASE ~ (Unnamed # {} \/ \E u \in Users : LeaveFails(u))
  <2>1. Dies("down") /\ disk' \in [Files -> Images]
    BY <1>3, <1>6 DEF Quit
  <2>2. QED
    BY <1>1, <1>4, <2>1, EndStep DEF OtherOK
<1>7. QED
  BY <1>5, <1>6

\* The server comes up again.
LEMMA RestartStep ==
  ASSUME ManagerInv, Restart
  PROVE  ManagerInv'
<1>1. Kept /\ StoreOK /\ OtherOK
  BY Parts
<1>2. Kept'
  BY <1>1 DEF Restart, Kept, CacheOK, ClientsOK, MapsAgree, UnbornInv, SessionInv, QueueSome, Live,
              manager, cached, store, client
<1>3. StoreOK' /\ OtherOK'
  <2>1. \A f \in Files : disk[f].text \in SUBSET Nat
    BY <1>1 DEF StoreOK, Images
  <2>2. QED
    BY <1>1, <2>1 DEF Restart, StoreOK, OtherOK, store, bounds
<1>4. QED
  BY <1>2, <1>3, PartsNext

\* A step that changes nothing.
LEMMA StutterStep ==
  ASSUME ManagerInv, UNCHANGED vars
  PROVE  ManagerInv'
<1>1. Kept /\ StoreOK /\ OtherOK
  BY Parts
<1>2. Kept'
  BY <1>1, KeptStutter DEF vars, manager, store, history
<1>3. StoreOK' /\ OtherOK'
  BY <1>1 DEF vars, StoreOK, OtherOK, store, history, bounds
<1>4. QED
  BY <1>2, <1>3, PartsNext

\* Every step keeps the strengthened invariant.
LEMMA StepManager == ManagerInv /\ [Next]_vars => ManagerInv'
<1>. SUFFICES ASSUME ManagerInv, [Next]_vars PROVE ManagerInv'
  OBVIOUS
<1>1. ASSUME NEW u \in Users, Request(u)
      PROVE  ManagerInv'
  <2>1. CASE \/ Login(u) \/ Logout(u) \/ Disconnected(u)
             \/ Edit(u) \/ Close(u) \/ Notified(u)
    BY <2>1, LoginStep, LogoutStep, DisconnectedStep, EditStep, CloseStep, NotifiedStep
  <2>2. ASSUME NEW f \in Files,
               GetFile(u, f) \/ NewFile(u, f) \/ ActivateLink(u, f) \/ Delete(u, f)
        PROVE  ManagerInv'
    BY <2>2, GetFileStep, NewFileStep, ActivateLinkStep, DeleteStep
  <2>3. ASSUME NEW S \in SUBSET Files, DeleteDir(u, S)
        PROVE  ManagerInv'
    BY <2>3, DeleteDirStep
  <2>4. QED
    BY <1>1, <2>1, <2>2, <2>3 DEF Request
<1>2. CASE Save \/ SaveThrows \/ Crash \/ Quit \/ Restart
  BY <1>2, SaveStep, SaveThrowsStep, CrashStep, QuitStep, RestartStep
<1>3. CASE UNCHANGED vars
  BY <1>3, StutterStep
<1>4. QED
  BY <1>1, <1>2, <1>3 DEF Next

\* The two maps of the MessageManager agree on every file that is not deleted,
\* in every run of the server, for every number of users, files and cached
\* files (getFile, closeFile, clientDisconnected, fileDeleted, deleteDir, quit): a
\* client's entry without a row is that of a folder it has deleted itself.
THEOREM MapsAlwaysAgree == Spec => []MapsAgree
<1>1. ManagerInv => MapsAgree
  BY DEF ManagerInv
<1>2. QED
  BY <1>1, InitManager, StepManager, PTL DEF Spec

\* The state keeps its types, and every key in the FifoMap's queue is a key of
\* its map.
THEOREM StateTyped == Spec => []TypeOK
<1>1. ManagerInv => TypeOK
  BY DEF ManagerInv
<1>2. QED
  BY <1>1, InitManager, StepManager, PTL DEF Spec
-----------------------------------------------------------------------------
\* The part of HurtInv that speaks of the cache.
Entered == EntryInv /\ Unnamed \subseteq hurt

\* What loadFile and the insertion do to the other entries: each is kept, or
\* dropped and recorded if a client was in it.
LEMMA LoadKeeps ==
  ASSUME ManagerInv, NEW f \in Files, NEW e \in Entries, Load(f, e)
  PROVE  /\ f \in loaded' /\ mem'[f] = e
         /\ loaded' \subseteq loaded \cup {f} /\ hurt \subseteq hurt'
         /\ \A g \in loaded' \ {f} : mem'[g] = mem[g]
         /\ \A v \in Users : open[v] \in loaded /\ open[v] \notin hurt' => open[v] \in loaded'
         /\ \A g \in loaded \ loaded' : Live(g) /\ mem[g].dirty => g \in hurt'
<1>1. /\ loaded' = (loaded \ Victims(f)) \cup {f}
      /\ mem' = [g \in Files |-> IF g = f THEN e ELSE IF g \in Victims(f) THEN Blank ELSE mem[g]]
      /\ hurt' = hurt \cup
                 {g \in Victims(f) : (Live(g) /\ mem[g].dirty) \/ \E u \in Users : open[u] = g}
  BY DEF Load
<1>2. loaded \subseteq Files
  BY DEF ManagerInv, TypeOK
<1>3. QED
  BY <1>1, <1>2

\* A client that finds itself out of the map or out of the File's user map has
\* its file in hurt.
LEMMA LeaveFailsHurt ==
  ASSUME EntryInv, NEW u \in Users, LeaveFails(u)
  PROVE  open[u] \in hurt
  BY DEF EntryInv, LeaveFails

\* closeFile disturbs no other client's entry.
LEMMA LeaveEntered ==
  ASSUME ManagerInv, Entered, NEW u \in Users, NEW s \in {"absent", "offline"},
         LeaveFile(u, s), hurt' = hurt,
         \A v \in Users \ {u} : open'[v] \in {open[v], NoFile},
         open'[u] = NoFile \/ (open'[u] = open[u] /\ open[u] = NoFile)
  PROVE  Entered'
<1>1. CASE open[u] = NoFile
  <2>1. UNCHANGED <<loaded, mem, hurt>>
    BY <1>1 DEF LeaveFile, cached
  <2>2. \A v \in Users : open'[v] \in {open[v], NoFile}
    OBVIOUS
  <2>3. EntryInv'
    BY <2>1, <2>2 DEF Entered, EntryInv
  <2>4. QED
    BY <2>1, <2>3 DEF Entered, Unnamed
<1>2. CASE open[u] # NoFile
  <2>. DEFINE f == open[u]
  <2>1. /\ f \in Files /\ mem \in [Files -> Entries] /\ loaded \subseteq Files
        /\ open \in [Users -> Files \cup {NoFile}]
    BY <1>2 DEF ManagerInv, TypeOK
  <2>2. /\ loaded' = loaded \cup {f}
        /\ mem' = IF f \notin loaded THEN [mem EXCEPT ![f] = Phantom]
                  ELSE IF LeaveFails(u) THEN mem
                  ELSE [mem EXCEPT ![f].users[u] = s, ![f].dirty = TRUE]
    BY <1>2 DEF LeaveFile
  <2>3. \A g \in Files \ {f} : mem'[g] = mem[g]
    BY <2>1, <2>2
  <2>4. f \in loaded => /\ mem'[f].named = mem[f].named
                        /\ \A v \in Users \ {u} : mem'[f].users[v] = mem[f].users[v]
    <3>1. mem[f] \in Entries
      BY <2>1
    <3>2. QED
      BY <2>1, <2>2, <3>1 DEF Entries, UserMaps
  <2>5. f \notin loaded => f \in hurt
    BY <1>2, LeaveFailsHurt DEF LeaveFails, Entered
  <2>. HIDE DEF f
  <2>6. EntryInv'
    <3>1. ASSUME NEW v \in Users, open'[v] # NoFile, open'[v] \notin hurt'
          PROVE  open'[v] \in loaded' /\ mem'[open'[v]].users[v] = "online"
      <4>1. v # u /\ open'[v] = open[v] /\ open[v] \in Files
        BY <1>2, <2>1, <3>1
      <4>2. open[v] \in loaded /\ mem[open[v]].users[v] = "online"
        BY <3>1, <4>1 DEF Entered, EntryInv
      <4>3. QED
        BY <2>2, <2>3, <2>4, <4>1, <4>2
    <3>2. QED
      BY <3>1 DEF EntryInv
  <2>7. (Unnamed \subseteq hurt)'
    BY <2>1, <2>2, <2>3, <2>4, <2>5 DEF Entered, Unnamed
  <2>8. QED
    BY <2>6, <2>7 DEF Entered
<1>3. QED
  BY <1>1, <1>2

\* The process ends, with an empty map.
LEMMA DiesEntered ==
  ASSUME NEW s, Dies(s)
  PROVE  Entered' /\ DownInv'
  BY DEF Dies, Entered, EntryInv, Unnamed, DownInv

\* A client that leaves takes nothing of the others with it.
LEMMA SignOffEntered ==
  ASSUME HurtInv, NEW u \in Users, SignOff(u)
  PROVE  Entered' /\ server' = server /\ hurt' = hurt
<1>1. /\ LeaveFile(u, "offline") /\ open' = [open EXCEPT ![u] = NoFile]
      /\ UNCHANGED <<server, hurt>>
  BY DEF SignOff
<1>2. open \in [Users -> Files \cup {NoFile}]
  BY DEF HurtInv, ManagerInv, TypeOK
<1>3. QED
  BY <1>1, <1>2, LeaveEntered DEF HurtInv, Entered

\* clientDisconnected throws only for a file in hurt.
LEMMA DisconnectedEntered ==
  ASSUME HurtInv, NEW u \in Users, Disconnected(u)
  PROVE  Entered' /\ DownInv' /\ AbortsOnlyIfHurt'
<1>1. server = "up"
  BY DEF Disconnected
<1>2. CASE LeaveFails(u)
  <2>1. Dies("aborted") /\ hurt' = hurt
    BY <1>2 DEF Disconnected
  <2>2. hurt # {}
    BY <1>2, LeaveFailsHurt DEF HurtInv
  <2>3. QED
    BY <2>1, <2>2, DiesEntered DEF AbortsOnlyIfHurt
<1>3. CASE ~ LeaveFails(u)
  <2>1. SignOff(u)
    BY <1>3 DEF Disconnected
  <2>2. QED
    BY <1>1, <2>1, SignOffEntered DEF DownInv, AbortsOnlyIfHurt
<1>4. QED
  BY <1>2, <1>3

\* A refused request changes nothing of what is kept.
LEMMA RefuseEntered ==
  ASSUME HurtInv, server = "up", Refuse
  PROVE  Entered' /\ DownInv' /\ AbortsOnlyIfHurt'
<1>1. UNCHANGED <<server, open, loaded, mem, hurt>>
  BY DEF Refuse, manager, cached
<1>2. QED
  BY <1>1 DEF HurtInv, Entered, EntryInv, Unnamed, DownInv, AbortsOnlyIfHurt

\* A client enters a file: was is its entry, or the file is new.
LEMMA EnterEntered ==
  ASSUME HurtInv, server = "up", NEW u \in Users, NEW f \in Files, NEW was \in Entries,
         EnterFile(u, f, was),
         (f \in loaded /\ was = mem[f]) \/ \A v \in Users : open[v] = f => f \in hurt,
         was.named \/ f \in hurt
  PROVE  Entered' /\ DownInv' /\ AbortsOnlyIfHurt'
<1>. DEFINE e == [was EXCEPT !.users[u] = "online", !.dirty = TRUE]
<1>1. Load(f, e) /\ open' = [open EXCEPT ![u] = f] /\ server' = server
  BY DEF EnterFile
<1>2. /\ e \in Entries /\ e.users[u] = "online" /\ e.named = was.named
      /\ \A v \in Users \ {u} : e.users[v] = was.users[v]
  BY DEF Entries, UserMaps
<1>. HIDE DEF e
<1>3. /\ f \in loaded' /\ mem'[f] = e
      /\ loaded' \subseteq loaded \cup {f} /\ hurt \subseteq hurt'
      /\ \A g \in loaded' \ {f} : mem'[g] = mem[g]
      /\ \A v \in Users : open[v] \in loaded /\ open[v] \notin hurt' => open[v] \in loaded'
  BY <1>1, <1>2, LoadKeeps DEF HurtInv
<1>4. open \in [Users -> Files \cup {NoFile}]
  BY DEF HurtInv, ManagerInv, TypeOK
<1>5. EntryInv'
  <2>1. ASSUME NEW v \in Users, open'[v] # NoFile, open'[v] \notin hurt'
        PROVE  open'[v] \in loaded' /\ mem'[open'[v]].users[v] = "online"
    <3>1. CASE v = u
      BY <1>1, <1>2, <1>3, <1>4, <3>1
    <3>2. CASE v # u
      <4>1. open'[v] = open[v] /\ open[v] \in Files /\ open[v] \notin hurt
        BY <1>1, <1>3, <1>4, <2>1, <3>2
      <4>2. open[v] \in loaded /\ mem[open[v]].users[v] = "online"
        BY <2>1, <4>1 DEF HurtInv, EntryInv
      <4>4. open[v] \in loaded'
        BY <1>3, <2>1, <4>1, <4>2
      <4>5. CASE open[v] = f
        BY <1>2, <1>3, <3>2, <4>1, <4>2, <4>5
      <4>6. CASE open[v] # f
        BY <1>3, <4>1, <4>2, <4>4, <4>6
      <4>7. QED
        BY <4>5, <4>6
    <3>3. QED
      BY <3>1, <3>2
  <2>2. QED
    BY <2>1 DEF EntryInv
<1>6. (Unnamed \subseteq hurt)'
  BY <1>2, <1>3 DEF HurtInv, Unnamed
<1>7. QED
  BY <1>1, <1>5, <1>6 DEF Entered, DownInv, AbortsOnlyIfHurt
-----------------------------------------------------------------------------
\* What a step must keep, once ManagerInv is known to be kept.
Rest == Entered /\ DownInv /\ AbortsOnlyIfHurt

\* The requests that open a file.
LEMMA OpeningRest ==
  ASSUME HurtInv, NEW u \in Users, NEW f \in Files,
         GetFile(u, f) \/ NewFile(u, f) \/ ActivateLink(u, f)
  PROVE  Rest'
<1>1. server = "up" /\ Kept /\ StoreOK
  BY Parts DEF GetFile, NewFile, ActivateLink, Browses, Served, HurtInv
<1>2. /\ LoadedEntry(f) \in Entries
      /\ f \in loaded => LoadedEntry(f) = mem[f]
      /\ f \notin loaded => LoadedEntry(f).named
  BY <1>1, LoadedEntryOK DEF LoadedEntry, Kept
<1>3. LoadedEntry(f).named \/ f \in hurt
  BY <1>2 DEF HurtInv, Unnamed
<1>4. (f \in loaded /\ LoadedEntry(f) = mem[f]) \/ \A v \in Users : open[v] = f => f \in hurt
  BY <1>2, NoFileAssumption DEF HurtInv, EntryInv
<1>5. CASE EnterFile(u, f, LoadedEntry(f))
  BY <1>1, <1>2, <1>3, <1>4, <1>5, EnterEntered DEF Rest
<1>6. CASE EnterFile(u, f, Blank) /\ f \notin born
  <2>1. \A v \in Users : open[v] # f
    BY <1>6, NoFileAssumption DEF HurtInv, ManagerInv, MapsAgree, UnbornInv
  <2>2. Blank \in Entries /\ Blank.named
    BY BlankOK DEF Blank
  <2>3. QED
    BY <1>1, <1>6, <2>1, <2>2, EnterEntered DEF Rest
<1>7. CASE Refuse
  BY <1>1, <1>7, RefuseEntered DEF Rest
<1>8. QED
  BY <1>5, <1>6, <1>7 DEF GetFile, NewFile, ActivateLink

\* The requests of the editor.
LEMMA EditRest ==
  ASSUME HurtInv, NEW u \in Users, Edit(u)
  PROVE  Rest'
<1>. DEFINE f == view[u]
<1>1. server = "up" /\ Kept /\ StoreOK /\ OtherOK
  BY Parts DEF Edit, Served, HurtInv
<1>2. f \in Files /\ edits' \in Nat
  BY <1>1 DEF Edit, Served, Kept, ClientsOK, OtherOK
<1>3. CASE Accepts(u) /\ Readable(f)
  <2>. DEFINE e == [LoadedEntry(f) EXCEPT !.text = @ \cup {edits'}, !.dirty = TRUE]
  <2>1. Load(f, e) /\ UNCHANGED <<server, open>>
    BY <1>3 DEF Edit, manager
  <2>2. LoadedEntry(f) \in Entries
    BY <1>1, <1>2, LoadedEntryOK DEF Kept
  <2>3. /\ e \in Entries /\ e.named = LoadedEntry(f).named /\ e.users = LoadedEntry(f).users
    BY <1>2, <2>2 DEF Entries
  <2>4. /\ f \in loaded => e.named = mem[f].named /\ e.users = mem[f].users
        /\ f \notin loaded => e.named
    BY <2>3 DEF LoadedEntry
  <2>. HIDE DEF e
  <2>5. /\ f \in loaded' /\ mem'[f] = e
        /\ loaded' \subseteq loaded \cup {f} /\ hurt \subseteq hurt'
        /\ \A g \in loaded' \ {f} : mem'[g] = mem[g]
        /\ \A v \in Users : open[v] \in loaded /\ open[v] \notin hurt' => open[v] \in loaded'
    BY <1>2, <2>1, <2>3, LoadKeeps DEF HurtInv
  <2>6. EntryInv'
    <3>1. ASSUME NEW v \in Users, open'[v] # NoFile, open'[v] \notin hurt'
          PROVE  open'[v] \in loaded' /\ mem'[open'[v]].users[v] = "online"
      <4>1. open'[v] = open[v] /\ open[v] \in Files /\ open[v] \notin hurt
        BY <1>1, <2>1, <2>5, <3>1 DEF Kept, ClientsOK
      <4>2. open[v] \in loaded /\ mem[open[v]].users[v] = "online"
        BY <3>1, <4>1 DEF HurtInv, EntryInv
      <4>4. open[v] \in loaded'
        BY <2>5, <3>1, <4>1, <4>2
      <4>5. CASE open[v] = f
        BY <2>4, <2>5, <4>1, <4>2, <4>5
      <4>6. CASE open[v] # f
        BY <2>5, <4>1, <4>2, <4>4, <4>6
      <4>7. QED
        BY <4>5, <4>6
    <3>2. QED
      BY <3>1 DEF EntryInv
  <2>7. (Unnamed \subseteq hurt)'
    BY <2>4, <2>5 DEF HurtInv, Unnamed
  <2>8. QED
    BY <1>1, <2>1, <2>6, <2>7 DEF Rest, Entered, DownInv, AbortsOnlyIfHurt
<1>4. CASE ~ (Accepts(u) /\ Readable(f))
  <2>1. Refuse
    BY <1>4 DEF Edit
  <2>2. QED
    BY <1>1, <2>1, RefuseEntered DEF Rest
<1>5. QED
  BY <1>3, <1>4

\* closeFile, of a client that has left the editor already.
LEMMA CloseRest ==
  ASSUME HurtInv, NEW u \in Users, Close(u)
  PROVE  Rest'
<1>1. /\ server = "up" /\ server' = server /\ hurt' = hurt
      /\ open \in [Users -> Files \cup {NoFile}]
  BY DEF Close, Served, HurtInv, ManagerInv, TypeOK
<1>2. CASE Accepts(u)
  <2>1. LeaveFile(u, "offline") /\ open' = [open EXCEPT ![u] = NoFile]
    BY <1>2 DEF Close
  <2>2. Entered'
    BY <1>1, <2>1, LeaveEntered DEF HurtInv, Entered
  <2>3. QED
    BY <1>1, <2>2 DEF Rest, DownInv, AbortsOnlyIfHurt
<1>3. CASE ~ Accepts(u)
  <2>1. UNCHANGED <<loaded, mem, open>>
    BY <1>3 DEF Close, cached
  <2>2. QED
    BY <1>1, <2>1 DEF HurtInv, Rest, Entered, EntryInv, Unnamed, DownInv, AbortsOnlyIfHurt
<1>4. QED
  BY <1>2, <1>3

\* deleteFile: every client in the file but the one that deletes it keeps its
\* entry as it is, or has it closed.
LEMMA DeleteRest ==
  ASSUME HurtInv, NEW u \in Users, NEW f \in Files, Delete(u, f)
  PROVE  Rest'
<1>1. server = "up" /\ open \in [Users -> Files \cup {NoFile}]
  BY DEF Delete, Served, HurtInv, ManagerInv, TypeOK
<1>2. CASE open[u] = f /\ LeaveFails(u)
  <2>1. /\ LeaveFile(u, "absent") /\ open' = [open EXCEPT ![u] = NoFile]
        /\ UNCHANGED <<server, hurt>>
    BY <1>2 DEF Delete
  <2>2. Entered'
    BY <1>1, <2>1, LeaveEntered DEF HurtInv, Entered
  <2>3. QED
    BY <1>1, <2>1, <2>2 DEF Rest, DownInv, AbortsOnlyIfHurt
<1>3. CASE ~ (open[u] = f /\ LeaveFails(u))
  <2>1. /\ DeleteRow(u, f)
        /\ IF open[u] = f THEN LeaveFile(u, "absent") ELSE UNCHANGED <<fileClients, cached>>
    BY <1>3 DEF Delete
  <2>2. UNCHANGED <<server, hurt>>
    BY <2>1 DEF DeleteRow
  <2>3. \A v \in Users : open'[v] \in {open[v], NoFile}
    BY <1>1, <2>1 DEF DeleteRow
  <2>4. open[u] = f => open'[u] = NoFile
    BY <1>1, <2>1 DEF DeleteRow
  <2>5. Entered'
    <3>1. CASE open[u] = f
      BY <2>1, <2>2, <2>3, <2>4, <3>1, LeaveEntered DEF HurtInv, Entered
    <3>2. CASE open[u] # f
      <4>1. UNCHANGED <<loaded, mem, hurt>>
        BY <2>1, <2>2, <3>2 DEF cached
      <4>2. QED
        BY <2>3, <4>1 DEF HurtInv, Entered, EntryInv, Unnamed
    <3>3. QED
      BY <3>1, <3>2
  <2>6. QED
    BY <1>1, <2>2, <2>5 DEF Rest, DownInv, AbortsOnlyIfHurt
<1>4. QED
  BY <1>2, <1>3

\* The steps that open and close no file.
LEMMA OtherRest ==
  ASSUME HurtInv, NEW u \in Users,
         Login(u) \/ Logout(u) \/ Disconnected(u) \/ Notified(u) \/ UNCHANGED vars
  PROVE  Rest'
<1>1. CASE Logout(u)
  <2>1. server = "up" /\ open \in [Users -> Files \cup {NoFile}]
    BY <1>1 DEF Logout, Served, HurtInv, ManagerInv, TypeOK
  <2>2. CASE LeaveFails(u)
    <3>1. /\ LeaveFile(u, "offline") /\ open' = [open EXCEPT ![u] = NoFile]
          /\ UNCHANGED <<server, hurt>>
      BY <1>1, <2>2 DEF Logout
    <3>2. Entered'
      BY <2>1, <3>1, LeaveEntered DEF HurtInv, Entered
    <3>3. QED
      BY <2>1, <3>1, <3>2 DEF Rest, DownInv, AbortsOnlyIfHurt
  <2>3. CASE ~ LeaveFails(u)
    <3>1. SignOff(u)
      BY <1>1, <2>3 DEF Logout
    <3>2. QED
      BY <2>1, <3>1, SignOffEntered DEF Rest, DownInv, AbortsOnlyIfHurt
  <2>4. QED
    BY <2>2, <2>3
<1>2. CASE Disconnected(u)
  BY <1>2, DisconnectedEntered DEF Rest
<1>3. CASE Login(u) \/ Notified(u) \/ UNCHANGED vars
  <2>1. UNCHANGED <<server, open, loaded, mem, hurt>>
    BY <1>3 DEF Login, Notified, vars, manager, cached, history
  <2>2. QED
    BY <2>1 DEF HurtInv, Rest, Entered, EntryInv, Unnamed, DownInv, AbortsOnlyIfHurt
<1>4. QED
  BY <1>1, <1>2, <1>3

\* Saving, ending and starting.
LEMMA ProcessRest ==
  ASSUME HurtInv, Save \/ SaveThrows \/ Crash \/ Quit \/ Restart
  PROVE  Rest'
<1>1. CASE Save
  <2>1. /\ UNCHANGED <<server, open, loaded, hurt>>
        /\ mem' = [f \in Files |-> [mem[f] EXCEPT !.dirty = FALSE]]
    BY <1>1 DEF Save, manager, history
  <2>2. loaded \subseteq Files /\ mem \in [Files -> Entries]
    BY DEF HurtInv, ManagerInv, TypeOK
  <2>3. \A f \in loaded : mem'[f].users = mem[f].users /\ mem'[f].named = mem[f].named
    BY <2>1, <2>2 DEF Entries
  <2>4. QED
    BY <2>1, <2>3 DEF HurtInv, Rest, Entered, EntryInv, Unnamed, DownInv, AbortsOnlyIfHurt
<1>2. CASE SaveThrows
  <2>1. Dies("aborted") /\ hurt' = hurt /\ hurt # {}
    BY <1>2 DEF SaveThrows, history, HurtInv
  <2>2. QED
    BY <2>1, DiesEntered DEF Rest, AbortsOnlyIfHurt
<1>3. CASE Crash
  <2>1. Dies("down") /\ server' = "down"
    BY <1>3 DEF Crash, Dies
  <2>2. QED
    BY <2>1, DiesEntered DEF Rest, AbortsOnlyIfHurt
<1>4. CASE Quit
  <2>1. CASE Unnamed # {} \/ \E u \in Users : LeaveFails(u)
    <3>1. Dies("aborted") /\ hurt' = hurt
      BY <1>4, <2>1 DEF Quit, history
    <3>2. hurt # {}
      BY <2>1, LeaveFailsHurt DEF HurtInv
    <3>3. QED
      BY <3>1, <3>2, DiesEntered DEF Rest, AbortsOnlyIfHurt
  <2>2. CASE ~ (Unnamed # {} \/ \E u \in Users : LeaveFails(u))
    <3>1. Dies("down") /\ server' = "down"
      BY <1>4, <2>2 DEF Quit, Dies
    <3>2. QED
      BY <3>1, DiesEntered DEF Rest, AbortsOnlyIfHurt
  <2>3. QED
    BY <2>1, <2>2
<1>5. CASE Restart
  <2>1. /\ server' = "up" /\ loaded' = {}
        /\ \A u \in Users : open'[u] = NoFile
    BY <1>5 DEF Restart, manager, cached, HurtInv, DownInv
  <2>2. QED
    BY <2>1 DEF Rest, Entered, EntryInv, Unnamed, DownInv, AbortsOnlyIfHurt
<1>6. QED
  BY <1>1, <1>2, <1>3, <1>4, <1>5

\* deleteDir touches no entry, and nobody opens a file.
LEMMA DeleteDirRest ==
  ASSUME HurtInv, NEW u \in Users, NEW S \in SUBSET Files, DeleteDir(u, S)
  PROVE  Rest'
<1>1. server = "up" /\ UNCHANGED <<server, loaded, mem, hurt>>
  BY DEF DeleteDir, Served, cached
<1>2. \A v \in Users : open'[v] \in {open[v], NoFile}
  BY DEF DeleteDir
<1>3. EntryInv'
  BY <1>1, <1>2 DEF HurtInv, EntryInv
<1>4. QED
  BY <1>1, <1>3 DEF HurtInv, Rest, Entered, Unnamed, DownInv, AbortsOnlyIfHurt

\* Nothing is open when the server starts.
LEMMA InitHurt == Init => HurtInv
<1>. SUFFICES ASSUME Init PROVE HurtInv
  OBVIOUS
<1>1. ManagerInv
  BY InitManager
<1>2. QED
  BY <1>1 DEF Init, HurtInv, EntryInv, Unnamed, DownInv, AbortsOnlyIfHurt

\* HurtInv is inductive.
LEMMA StepHurt == HurtInv /\ [Next]_vars => HurtInv'
<1>. SUFFICES ASSUME HurtInv, [Next]_vars PROVE HurtInv'
  OBVIOUS
<1>1. ManagerInv'
  BY StepManager DEF HurtInv
<1>2. Rest'
  <2>1. ASSUME NEW u \in Users, Request(u)
        PROVE  Rest'
    <3>1. CASE Login(u) \/ Logout(u) \/ Disconnected(u) \/ Notified(u)
      BY <3>1, OtherRest
    <3>2. CASE Edit(u)
      BY <3>2, EditRest
    <3>3. CASE Close(u)
      BY <3>3, CloseRest
    <3>4. ASSUME NEW f \in Files,
                 GetFile(u, f) \/ NewFile(u, f) \/ ActivateLink(u, f) \/ Delete(u, f)
          PROVE  Rest'
      BY <3>4, OpeningRest, DeleteRest
    <3>5. ASSUME NEW S \in SUBSET Files, DeleteDir(u, S)
          PROVE  Rest'
      BY <3>5, DeleteDirRest
    <3>6. QED
      BY <2>1, <3>1, <3>2, <3>3, <3>4, <3>5 DEF Request
  <2>2. CASE Save \/ SaveThrows \/ Crash \/ Quit \/ Restart
    BY <2>2, ProcessRest
  <2>3. CASE UNCHANGED vars
    <3>1. UNCHANGED <<server, open, loaded, mem, hurt>>
      BY <2>3 DEF vars, manager, cached, history
    <3>2. QED
      BY <3>1 DEF HurtInv, Rest, Entered, EntryInv, Unnamed, DownInv, AbortsOnlyIfHurt
  <2>4. QED
    BY <2>1, <2>2, <2>3 DEF Next
<1>3. QED
  BY <1>1, <1>2 DEF HurtInv, Rest, Entered

\* The server ends on an exception of its own (from the timer's save, from
\* clientDisconnected or from quit) only after FifoMap::insert has dropped a
\* file that was in use or not yet saved: with fewer files than MAX_OPEN_FILES
\* it never does, whatever the clients do and in whatever order.
THEOREM NoAbortUnlessHurt == Spec => []AbortsOnlyIfHurt
<1>1. HurtInv => AbortsOnlyIfHurt
  BY DEF HurtInv
<1>2. QED
  BY <1>1, InitHurt, StepHurt, PTL DEF Spec

\* While no file in use was dropped, the users a client sees in a file include
\* everyone who has it open, as online.
THEOREM PresenceAlwaysShown == Spec => []PresenceShown
<1>1. HurtInv => PresenceShown
  <2>. SUFFICES ASSUME HurtInv, NEW f \in loaded \ hurt, NEW u \in fileClients[f], Live(f)
                PROVE  mem[f].users[u] = "online"
    BY DEF PresenceShown
  <2>1. f \in Files /\ u \in Users
    BY DEF HurtInv, ManagerInv, TypeOK
  <2>2. open[u] = f /\ f # NoFile
    BY <2>1, NoFileAssumption DEF HurtInv, ManagerInv, MapsAgree
  <2>3. QED
    BY <2>1, <2>2 DEF HurtInv, EntryInv
<1>2. QED
  BY <1>1, InitHurt, StepHurt, PTL DEF Spec
-----------------------------------------------------------------------------
\* The part of StoreInv that speaks of what the files hold.
Contents == UnmadeInv /\ CleanMeansStored /\ NoEditLost

\* Where the file's entry is put into the map, marked dirty and with the edits
\* accepted so far, the entry that goes for it loses nothing or is recorded.
LEMMA LoadStores ==
  ASSUME StoreInv, NEW f \in Files, NEW e \in Entries, Load(f, e), e.dirty,
         server = "up", born \subseteq born', f \in born',
         \A g \in Files \ {f} : /\ disk'[g] = disk[g] /\ accepted'[g] = accepted[g]
                                /\ rows'[g] # {} => rows[g] # {},
         e.text = accepted'[f] \/ f \in hurt
  PROVE  Contents'
<1>1. /\ f \in loaded' /\ mem'[f] = e
      /\ loaded' \subseteq loaded \cup {f} /\ hurt \subseteq hurt'
      /\ \A g \in loaded' \ {f} : mem'[g] = mem[g]
      /\ \A g \in loaded \ loaded' : Live(g) /\ mem[g].dirty => g \in hurt'
  BY LoadKeeps DEF StoreInv, HurtInv
<1>2. loaded \subseteq born /\ loaded \subseteq Files
  BY DEF StoreInv, UnmadeInv, HurtInv, ManagerInv, TypeOK
<1>3. UnmadeInv'
  BY <1>1, <1>2 DEF StoreInv, UnmadeInv
<1>4. CleanMeansStored'
  <2>1. ASSUME NEW g \in loaded', rows'[g] # {}, ~ mem'[g].dirty
        PROVE  disk'[g] = Image(mem'[g].users, mem'[g].text)
    <3>1. g # f /\ g \in loaded /\ mem'[g] = mem[g] /\ g \in Files
      BY <1>1, <1>2, <2>1
    <3>2. QED
      BY <2>1, <3>1 DEF StoreInv, CleanMeansStored, Live
  <2>2. QED
    BY <2>1 DEF CleanMeansStored, Live
<1>5. NoEditLost'
  <2>1. ASSUME NEW g \in Files \ hurt', rows'[g] # {}
        PROVE  (IF g \in loaded' THEN mem'[g].text ELSE disk'[g].text) = accepted'[g]
    <3>1. CASE g = f
      BY <1>1, <2>1, <3>1
    <3>2. CASE g # f
      <4>1. /\ disk'[g] = disk[g] /\ accepted'[g] = accepted[g] /\ Live(g) /\ g \notin hurt
        BY <1>1, <2>1, <3>2 DEF Live
      <4>2. Current(g) = accepted[g]
        BY <4>1 DEF StoreInv, NoEditLost
      <4>3. CASE g \in loaded'
        BY <1>1, <3>2, <4>1, <4>2, <4>3 DEF Current
      <4>4. CASE g \notin loaded' /\ g \in loaded
        <5>1. ~ mem[g].dirty
          BY <1>1, <2>1, <4>1, <4>4
        <5>2. disk[g] = Image(mem[g].users, mem[g].text)
          BY <4>1, <4>4, <5>1 DEF StoreInv, CleanMeansStored
        <5>3. disk[g].text = mem[g].text
          BY <5>2 DEF Image
        <5>4. QED
          BY <4>1, <4>2, <4>4, <5>3 DEF Current
      <4>5. CASE g \notin loaded' /\ g \notin loaded
        BY <4>1, <4>2, <4>5 DEF Current
      <4>6. QED
        BY <4>3, <4>4, <4>5
    <3>3. QED
      BY <3>1, <3>2
  <2>2. QED
    BY <2>1 DEF NoEditLost, Current, Live
<1>6. QED
  BY <1>3, <1>4, <1>5 DEF Contents

\* What a step may do to the store that does not touch the edits: a file goes, or
\* one is made that holds nothing.
StoreMoves ==
  /\ born \subseteq born' /\ accepted' = accepted
  /\ \A g \in born : rows'[g] # {} => rows[g] # {} /\ disk'[g] = disk[g]
  /\ \A g \in Files \ born : disk'[g].text = {}
  /\ \A g \in Files \ born' : disk'[g] = disk[g]

\* A client leaves its file. The new entry that the lookup of one that was
\* dropped inserts is of a file in hurt.
LEMMA LeaveStores ==
  ASSUME StoreInv, NEW u \in Users, NEW s \in {"absent", "offline"},
         LeaveFile(u, s), hurt' = hurt, server' = server, StoreMoves
  PROVE  Contents'
<1>1. /\ loaded \subseteq born /\ loaded \subseteq Files /\ mem \in [Files -> Entries]
      /\ open \in [Users -> Files \cup {NoFile}]
  BY DEF StoreInv, UnmadeInv, HurtInv, ManagerInv, TypeOK
<1>2. /\ loaded \subseteq loaded' /\ loaded' \subseteq born
      /\ \A g \in loaded' \ loaded : g \in hurt /\ mem'[g].dirty
      /\ \A g \in loaded : mem'[g].text = mem[g].text /\ (mem'[g] = mem[g] \/ mem'[g].dirty)
  <2>1. CASE open[u] = NoFile
    BY <1>1, <2>1 DEF LeaveFile, cached
  <2>2. CASE open[u] # NoFile
    <3>. DEFINE f == open[u]
    <3>1. f \in Files /\ f \in born
      BY <1>1, <2>2 DEF StoreInv, HurtInv, ManagerInv, MapsAgree, UnbornInv
    <3>2. /\ loaded' = loaded \cup {f}
          /\ mem' = IF f \notin loaded THEN [mem EXCEPT ![f] = Phantom]
                    ELSE IF LeaveFails(u) THEN mem
                    ELSE [mem EXCEPT ![f].users[u] = s, ![f].dirty = TRUE]
      BY <2>2 DEF LeaveFile
    <3>3. f \notin loaded => f \in hurt
      BY <2>2, LeaveFailsHurt DEF LeaveFails, StoreInv, HurtInv
    <3>. HIDE DEF f
    <3>4. CASE f \notin loaded
      <4>1. mem'[f] = Phantom /\ \A g \in loaded : mem'[g] = mem[g]
        BY <1>1, <3>1, <3>2, <3>4
      <4>2. QED
        BY <1>1, <3>1, <3>2, <3>3, <3>4, <4>1 DEF Phantom
    <3>5. CASE f \in loaded
      <4>1. mem[f] \in Entries
        BY <1>1, <3>1
      <4>2. \A g \in loaded : mem'[g].text = mem[g].text /\ (mem'[g] = mem[g] \/ mem'[g].dirty)
        BY <1>1, <3>1, <3>2, <3>5, <4>1 DEF Entries
      <4>3. QED
        BY <1>1, <3>1, <3>2, <3>5, <4>2
    <3>6. QED
      BY <3>4, <3>5
  <2>3. QED
    BY <2>1, <2>2
<1>3. UnmadeInv'
  BY <1>2 DEF StoreInv, UnmadeInv, StoreMoves
<1>4. CleanMeansStored'
  <2>1. ASSUME NEW g \in loaded', rows'[g] # {}, ~ mem'[g].dirty
        PROVE  disk'[g] = Image(mem'[g].users, mem'[g].text)
    <3>1. g \in loaded /\ mem'[g] = mem[g] /\ rows[g] # {} /\ disk'[g] = disk[g]
      BY <1>1, <1>2, <2>1 DEF StoreMoves
    <3>2. QED
      BY <2>1, <3>1 DEF StoreInv, CleanMeansStored, Live
  <2>2. QED
    BY <2>1 DEF CleanMeansStored, Live
<1>5. NoEditLost'
  <2>1. ASSUME NEW g \in Files \ hurt', rows'[g] # {}, server = "up"
        PROVE  (IF g \in loaded' THEN mem'[g].text ELSE disk'[g].text) = accepted'[g]
    <3>1. g \in loaded' <=> g \in loaded
      BY <1>2, <2>1
    <3>2. CASE g \in born
      <4>1. Live(g) /\ disk'[g] = disk[g] /\ accepted'[g] = accepted[g]
        BY <2>1, <3>2 DEF StoreMoves, Live
      <4>2. Current(g) = accepted[g]
        BY <2>1, <4>1 DEF StoreInv, NoEditLost
      <4>3. QED
        BY <1>2, <3>1, <4>1, <4>2 DEF Current
    <3>3. CASE g \notin born
      BY <1>1, <3>1, <3>3 DEF StoreInv, UnmadeInv, StoreMoves
    <3>4. QED
      BY <3>2, <3>3
  <2>2. QED
    BY <2>1 DEF NoEditLost, Current, Live
<1>6. QED
  BY <1>3, <1>4, <1>5 DEF Contents

\* A step that leaves the map of files as it is.
LEMMA StillStores ==
  ASSUME StoreInv, UNCHANGED <<loaded, mem, hurt, server>>, StoreMoves
  PROVE  Contents'
<1>1. loaded \subseteq born /\ loaded \subseteq Files
  BY DEF StoreInv, UnmadeInv, HurtInv, ManagerInv, TypeOK
<1>2. UnmadeInv'
  BY <1>1 DEF StoreInv, UnmadeInv, StoreMoves
<1>3. CleanMeansStored'
  BY <1>1 DEF StoreInv, CleanMeansStored, StoreMoves, Live
<1>4. NoEditLost'
  <2>1. ASSUME NEW g \in Files \ hurt, rows'[g] # {}, server = "up"
        PROVE  (IF g \in loaded THEN mem[g].text ELSE disk'[g].text) = accepted'[g]
    <3>1. CASE g \in born
      BY <2>1, <3>1 DEF StoreInv, NoEditLost, StoreMoves, Current, Live
    <3>2. CASE g \notin born
      BY <1>1, <3>2 DEF StoreInv, UnmadeInv, StoreMoves
    <3>3. QED
      BY <3>1, <3>2
  <2>2. QED
    BY <2>1 DEF NoEditLost, Current, Live
<1>5. QED
  BY <1>2, <1>3, <1>4 DEF Contents
-----------------------------------------------------------------------------
\* A client enters a file: was is its entry, or the file was made just now.
LEMMA EnterStores ==
  ASSUME StoreInv, server = "up", NEW u \in Users, NEW f \in Files, NEW was \in Entries,
         EnterFile(u, f, was), StoreMoves, accepted' = accepted, f \in born',
         was.text = accepted[f] \/ f \in hurt,
         \A g \in Files \ {f} : disk'[g] = disk[g] /\ (rows'[g] # {} => rows[g] # {})
  PROVE  Contents'
<1>. DEFINE e == [was EXCEPT !.users[u] = "online", !.dirty = TRUE]
<1>1. Load(f, e)
  BY DEF EnterFile
<1>2. e \in Entries /\ e.dirty /\ e.text = was.text
  BY DEF Entries, UserMaps
<1>3. QED
  BY <1>1, <1>2, LoadStores DEF StoreMoves

\* The requests that open a file.
LEMMA OpeningStores ==
  ASSUME StoreInv, NEW u \in Users, NEW f \in Files,
         GetFile(u, f) \/ NewFile(u, f) \/ ActivateLink(u, f)
  PROVE  Contents'
<1>1. /\ server = "up" /\ accepted' = accepted
      /\ Kept /\ StoreOK
  BY Parts DEF GetFile, NewFile, ActivateLink, Browses, Served, StoreInv, HurtInv
<1>2. LoadedEntry(f) \in Entries /\ Blank \in Entries /\ Blank.text = {}
  BY <1>1, LoadedEntryOK, BlankOK DEF Kept, Blank
<1>3. LoadedEntry(f).text = Current(f)
  BY DEF LoadedEntry, Current
<1>4. f \in born => (Live(f) => LoadedEntry(f).text = accepted[f] \/ f \in hurt)
  BY <1>1, <1>3 DEF StoreInv, NoEditLost
<1>5. \A g \in Files \ born : rows[g] = {} /\ disk[g].text = {} /\ accepted[g] = {}
  BY <1>1 DEF StoreInv, UnmadeInv, Kept, UnbornInv, Missing
<1>6. CASE NewFile(u, f)
  <2>1. /\ f \notin born /\ born' = born \cup {f} /\ rows' = [rows EXCEPT ![f] = {u}]
        /\ disk' = [disk EXCEPT ![f] = Image(Nobody, {})]
        /\ EnterFile(u, f, Blank) \/ Refuse
    BY <1>6 DEF NewFile
  <2>2. /\ \A g \in Files \ {f} : rows'[g] = rows[g] /\ disk'[g] = disk[g]
        /\ disk'[f].text = {}
    BY <1>1, <2>1 DEF StoreOK, Image
  <2>3. StoreMoves
    BY <1>1, <1>5, <2>1, <2>2 DEF StoreMoves, StoreOK
  <2>4. CASE EnterFile(u, f, Blank)
    BY <1>1, <1>2, <1>5, <2>1, <2>2, <2>3, <2>4, EnterStores
  <2>5. CASE Refuse
    BY <2>3, <2>5, StillStores DEF Refuse, cached
  <2>6. QED
    BY <2>1, <2>4, <2>5
<1>7. CASE GetFile(u, f) \/ ActivateLink(u, f)
  <2>1. UNCHANGED <<disk, born>>
    BY <1>7 DEF GetFile, ActivateLink, store
  <2>2. \A g \in Files : rows'[g] # {} => rows[g] # {}
    BY <1>1, <1>7 DEF GetFile, ActivateLink, store, StoreOK, Live
  <2>3. StoreMoves
    BY <1>1, <1>5, <2>1, <2>2 DEF StoreMoves, StoreOK
  <2>4. CASE EnterFile(u, f, LoadedEntry(f)) /\ Live(f)
    <3>1. f \in born
      BY <1>5, <2>4 DEF Live
    <3>2. QED
      BY <1>1, <1>2, <1>4, <2>1, <2>2, <2>3, <2>4, <3>1, EnterStores
  <2>5. CASE Refuse
    BY <2>3, <2>5, StillStores DEF Refuse, cached
  <2>6. (EnterFile(u, f, LoadedEntry(f)) /\ Live(f)) \/ Refuse
    BY <1>7 DEF GetFile, ActivateLink, Live
  <2>7. QED
    BY <2>4, <2>5, <2>6
<1>8. QED
  BY <1>6, <1>7

\* An edit that is accepted is in memory at once.
LEMMA EditStores ==
  ASSUME StoreInv, NEW u \in Users, Edit(u)
  PROVE  Contents'
<1>. DEFINE f == view[u]
<1>1. server = "up" /\ Kept /\ StoreOK /\ OtherOK /\ UNCHANGED <<disk, rows, born>>
  BY Parts DEF Edit, Served, StoreInv, HurtInv, store
<1>2. f \in Files /\ edits' \in Nat
  BY <1>1 DEF Edit, Served, Kept, ClientsOK, OtherOK
<1>3. CASE Accepts(u) /\ Readable(f)
  <2>. DEFINE e == [LoadedEntry(f) EXCEPT !.text = @ \cup {edits'}, !.dirty = TRUE]
  <2>1. Load(f, e) /\ accepted' = [accepted EXCEPT ![f] = @ \cup {edits'}]
    BY <1>3 DEF Edit
  <2>2. LoadedEntry(f) \in Entries
    BY <1>1, <1>2, LoadedEntryOK DEF Kept
  <2>3. e \in Entries /\ e.dirty /\ e.text = LoadedEntry(f).text \cup {edits'}
    BY <1>2, <2>2 DEF Entries
  <2>4. Live(f) /\ f \in born
    BY <1>1, <1>2, <1>3 DEF Accepts, Kept, UnbornInv, Live
  <2>5. LoadedEntry(f).text = accepted[f] \/ f \in hurt
    BY <1>1, <1>2, <2>4 DEF StoreInv, NoEditLost, LoadedEntry, Current
  <2>6. e.text = accepted'[f] \/ f \in hurt
    BY <1>1, <1>2, <2>1, <2>3, <2>5 DEF OtherOK
  <2>7. \A g \in Files \ {f} : accepted'[g] = accepted[g]
    BY <1>1, <2>1 DEF OtherOK
  <2>. HIDE DEF e
  <2>8. QED
    BY <1>1, <1>2, <2>1, <2>3, <2>4, <2>6, <2>7, LoadStores
<1>4. CASE ~ (Accepts(u) /\ Readable(f))
  <2>1. Refuse /\ accepted' = accepted
    BY <1>4 DEF Edit
  <2>2. StoreMoves
    BY <1>1, <2>1 DEF StoreMoves, StoreInv, UnmadeInv, Missing
  <2>3. QED
    BY <2>1, <2>2, StillStores DEF Refuse, cached
<1>5. QED
  BY <1>3, <1>4

\* What leaves the rows and the files on disk alone is a move of the store.
LEMMA StoreStays ==
  ASSUME StoreInv, UNCHANGED <<disk, rows, born, accepted>>
  PROVE  StoreMoves
  BY DEF StoreMoves, StoreInv, UnmadeInv, Missing

\* closeFile, logout and the end of a connection.
LEMMA LeavingStores ==
  ASSUME StoreInv, NEW u \in Users, Close(u) \/ Logout(u) \/ Disconnected(u)
  PROVE  Contents'
<1>1. UNCHANGED <<disk, rows, born, accepted>>
  BY DEF Close, Logout, Disconnected, store
<1>2. StoreMoves
  BY <1>1, StoreStays
<1>3. CASE LeaveFile(u, "offline") /\ UNCHANGED <<server, hurt>>
  BY <1>2, <1>3, LeaveStores
<1>4. CASE UNCHANGED <<cached, server, hurt>>
  BY <1>2, <1>4, StillStores DEF cached
<1>5. CASE Dies("aborted")
  <2>1. loaded' = {} /\ server' # "up"
    BY <1>5 DEF Dies
  <2>2. QED
    BY <1>1, <2>1 DEF StoreInv, Contents, UnmadeInv, CleanMeansStored, NoEditLost
<1>6. QED
  BY <1>3, <1>4, <1>5 DEF Close, Logout, Disconnected, SignOff

\* deleteFile.
LEMMA DeleteStores ==
  ASSUME StoreInv, NEW u \in Users, NEW f \in Files, Delete(u, f)
  PROVE  Contents'
<1>1. accepted' = accepted /\ disk \in [Files -> Images] /\ rows \in [Files -> SUBSET Users]
  BY DEF Delete, StoreInv, HurtInv, ManagerInv, TypeOK
<1>2. UNCHANGED <<server, hurt, born>>
  BY DEF Delete, DeleteRow, store
<1>3. /\ \A g \in Files \ {f} : rows'[g] = rows[g] /\ disk'[g] = disk[g]
      /\ rows'[f] = {} \/ (rows'[f] \subseteq rows[f] /\ disk' = disk)
  BY <1>1 DEF Delete, DeleteRow, store
<1>4. f \in born
  BY DEF Delete, StoreInv, HurtInv, ManagerInv, UnbornInv
<1>5. StoreMoves
  BY <1>1, <1>2, <1>3, <1>4 DEF StoreMoves, StoreInv, UnmadeInv, HurtInv, ManagerInv, TypeOK, Missing
<1>6. CASE LeaveFile(u, "absent")
  BY <1>2, <1>5, <1>6, LeaveStores
<1>7. CASE UNCHANGED cached
  BY <1>2, <1>5, <1>7, StillStores DEF cached
<1>8. QED
  BY <1>6, <1>7 DEF Delete

\* deleteDir.
LEMMA DeleteDirStores ==
  ASSUME StoreInv, NEW u \in Users, NEW S \in SUBSET Files, DeleteDir(u, S)
  PROVE  Contents'
<1>1. UNCHANGED <<server, loaded, mem, hurt, born, accepted>>
  BY DEF DeleteDir, cached
<1>2. /\ rows \in [Files -> SUBSET Users] /\ born \subseteq Files
      /\ \A g \in Files \ born : rows[g] = {} /\ disk[g] = Missing
  BY DEF StoreInv, UnmadeInv, HurtInv, ManagerInv, TypeOK, UnbornInv
<1>3. \A g \in Files : rows'[g] \subseteq rows[g] /\ (rows'[g] # {} => disk'[g] = disk[g])
  BY <1>2 DEF DeleteDir
<1>4. \A g \in Files : rows[g] = {} => g \notin S
  BY DEF DeleteDir
<1>5. \A g \in Files \ S : disk'[g] = disk[g]
  BY DEF DeleteDir
<1>6. \A g \in Files \ born : disk'[g] = disk[g] /\ disk'[g].text = {}
  BY <1>2, <1>4, <1>5 DEF Missing
<1>7. StoreMoves
  BY <1>1, <1>2, <1>3, <1>6 DEF StoreMoves
<1>8. QED
  BY <1>1, <1>7, StillStores

\* A process that ends has stored some of what is in memory, all of which has been
\* made.
LEMMA EndStores ==
  ASSUME StoreInv, NEW s \in {"down", "aborted"}, Dies(s), UNCHANGED <<born, accepted>>,
         \A g \in Files \ loaded : disk'[g] = disk[g]
  PROVE  Contents'
<1>1. loaded' = {} /\ server' # "up"
  BY DEF Dies
<1>2. QED
  BY <1>1 DEF StoreInv, Contents, UnmadeInv, CleanMeansStored, NoEditLost

\* Saving, ending and starting.
LEMMA ProcessStores ==
  ASSUME StoreInv, Save \/ SaveThrows \/ Crash \/ Quit \/ Restart
  PROVE  Contents'
<1>1. /\ loaded \subseteq born /\ loaded \subseteq Files /\ Dirty \subseteq loaded
      /\ mem \in [Files -> Entries]
  BY DEF StoreInv, UnmadeInv, HurtInv, ManagerInv, TypeOK, Dirty
<1>2. CASE Save
  <2>1. /\ Unnamed = {} /\ server = "up" /\ UNCHANGED <<server, loaded, rows, born, accepted, hurt>>
        /\ disk' = Stored(Dirty, mem)
        /\ mem' = [f \in Files |-> [mem[f] EXCEPT !.dirty = FALSE]]
    BY <1>2 DEF Save, history
  <2>2. \A f \in loaded : mem'[f].users = mem[f].users /\ mem'[f].text = mem[f].text
    BY <1>1, <2>1 DEF Entries
  <2>3. \A f \in Files : disk'[f] = IF f \in Dirty THEN Image(mem[f].users, mem[f].text) ELSE disk[f]
    BY <2>1 DEF Stored
  <2>4. \A f \in loaded : Live(f) => disk'[f] = Image(mem[f].users, mem[f].text)
    BY <1>1, <2>1, <2>3 DEF Unnamed, Dirty, StoreInv, CleanMeansStored
  <2>5. UnmadeInv'
    BY <1>1, <2>1, <2>3 DEF StoreInv, UnmadeInv
  <2>6. CleanMeansStored'
    BY <2>1, <2>2, <2>4 DEF CleanMeansStored, Live
  <2>7. NoEditLost'
    BY <1>1, <2>1, <2>2, <2>3 DEF StoreInv, NoEditLost, Current, Live
  <2>8. QED
    BY <2>5, <2>6, <2>7 DEF Contents
<1>3. CASE SaveThrows
  <2>1. /\ Dies("aborted") /\ UNCHANGED <<born, accepted>>
        /\ \E S \in SUBSET Dirty : disk' = Stored(S, mem)
    BY <1>3 DEF SaveThrows, history
  <2>2. \A g \in Files \ loaded : disk'[g] = disk[g]
    BY <1>1, <2>1 DEF Stored
  <2>3. QED
    BY <2>1, <2>2, EndStores
<1>4. CASE Crash
  <2>1. /\ Dies("down") /\ UNCHANGED <<born, accepted>>
        /\ \E S \in SUBSET Dirty : \E T \in SUBSET (Dirty \ S) :
              disk' = [f \in Files |-> IF f \in T THEN Torn ELSE Stored(S, mem)[f]]
    BY <1>4 DEF Crash, history
  <2>2. \A g \in Files \ loaded : disk'[g] = disk[g]
    BY <1>1, <2>1 DEF Stored
  <2>3. QED
    BY <2>1, <2>2, EndStores
<1>5. CASE Quit
  <2>1. UNCHANGED <<born, accepted>>
    BY <1>5 DEF Quit, history
  <2>2. PICK s \in {"down", "aborted"}, S \in SUBSET loaded : Dies(s) /\ disk' = Stored(S, Closed)
    BY <1>1, <1>5 DEF Quit
  <2>3. \A g \in Files \ loaded : disk'[g] = disk[g]
    BY <2>2 DEF Stored
  <2>4. QED
    BY <2>1, <2>2, <2>3, EndStores
<1>6. CASE Restart
  <2>1. /\ loaded = {} /\ UNCHANGED <<loaded, mem, disk, rows, born>>
        /\ accepted' = [f \in Files |-> disk[f].text]
    BY <1>6 DEF Restart, cached, store, StoreInv, HurtInv, DownInv
  <2>2. UnmadeInv'
    BY <2>1 DEF StoreInv, UnmadeInv, Missing
  <2>3. CleanMeansStored' /\ NoEditLost'
    BY <2>1 DEF CleanMeansStored, NoEditLost, Current
  <2>4. QED
    BY <2>2, <2>3 DEF Contents
<1>7. QED
  BY <1>2, <1>3, <1>4, <1>5, <1>6
-----------------------------------------------------------------------------
\* The steps that leave both the map of files and the store as they are.
LEMMA OtherStores ==
  ASSUME StoreInv, NEW u \in Users, Login(u) \/ Notified(u) \/ UNCHANGED vars
  PROVE  Contents'
<1>1. UNCHANGED <<loaded, mem, hurt, server, disk, rows, born, accepted>>
  BY DEF Login, Notified, vars, cached, store, history
<1>2. QED
  BY <1>1, StoreStays, StillStores

\* The notice of a file's deletion is sent in the step that takes the row, and
\* the client that is told leaves its editor.
LEMMA NoticesKept ==
  ASSUME ManagerInv, DeletionReachesEditors, [Next]_vars
  PROVE  DeletionReachesEditors'
<1>1. /\ rows \in [Files -> SUBSET Users] /\ notices \in [Users -> SUBSET Files]
      /\ view \in [Users -> Files \cup {NoFile, LoggedOut}]
  BY DEF ManagerInv, TypeOK
<1>2. CASE UNCHANGED <<rows, view, notices>>
  BY <1>2 DEF DeletionReachesEditors
<1>3. ASSUME NEW u \in Users, UNCHANGED rows, view' = [view EXCEPT ![u] = NoFile],
             notices' = notices \/ \E f \in notices[u] : notices' = [notices EXCEPT ![u] = @ \ {f}]
      PROVE  DeletionReachesEditors'
  BY <1>1, <1>3, NoFileAssumption DEF DeletionReachesEditors
<1>4. ASSUME NEW u \in Users, UNCHANGED rows, BackToLogin(u)
      PROVE  DeletionReachesEditors'
  BY <1>1, <1>4, NoFileAssumption DEF DeletionReachesEditors, BackToLogin
<1>5. ASSUME NEW s, UNCHANGED rows, Dies(s)
      PROVE  DeletionReachesEditors'
  BY <1>5, NoFileAssumption DEF DeletionReachesEditors, Dies
<1>6. ASSUME NEW u \in Users, NEW f \in Files, GetFile(u, f) \/ NewFile(u, f) \/ ActivateLink(u, f)
      PROVE  DeletionReachesEditors'
  <2>1. f \notin born => rows[f] = {}
    BY DEF ManagerInv, UnbornInv
  <2>2. \A g \in Files : rows[g] \subseteq rows'[g]
    BY <1>1, <1>6, <2>1 DEF GetFile, NewFile, ActivateLink, store
  <2>3. CASE u \in rows'[f] /\ view' = [view EXCEPT ![u] = f] /\ notices' = [notices EXCEPT ![u] = {}]
    BY <1>1, <2>2, <2>3 DEF DeletionReachesEditors
  <2>4. CASE UNCHANGED <<view, notices>>
    BY <1>1, <2>2, <2>4 DEF DeletionReachesEditors
  <2>5. u \in rows'[f] \/ UNCHANGED <<view, notices>>
    BY <1>1, <1>6 DEF GetFile, NewFile, ActivateLink, Refuse, client, store
  <2>6. \/ view' = [view EXCEPT ![u] = f] /\ notices' = [notices EXCEPT ![u] = {}]
        \/ UNCHANGED <<view, notices>>
    BY <1>6 DEF GetFile, NewFile, ActivateLink, EnterFile, ShowFile, Refuse, client
  <2>7. QED
    BY <2>3, <2>4, <2>5, <2>6
<1>7. ASSUME NEW u \in Users, NEW f \in Files, DeleteRow(u, f)
      PROVE  DeletionReachesEditors'
  <2>1. view' = [view EXCEPT ![u] = NoFile]
    BY <1>7 DEF DeleteRow
  <2>2. \A g \in Files \ {f} : rows'[g] = rows[g]
    BY <1>1, <1>7 DEF DeleteRow
  <2>3. \A v \in Users : notices[v] \subseteq notices'[v]
    BY <1>1, <1>7 DEF DeleteRow
  <2>4. ASSUME NEW v \in Users \ {u}, view[v] = f, v \in rows[f], v \notin rows'[f]
        PROVE  f \in notices'[v]
    <3>1. u = Owner[f] /\ v \in Linkers(f)
      BY <1>1, <1>7, <2>4 DEF DeleteRow, Linkers
    <3>2. v \in InSession
      BY <2>4, NoFileAssumption DEF InSession
    <3>3. QED
      BY <1>1, <1>7, <3>1, <3>2 DEF DeleteRow
  <2>5. QED
    BY <1>1, <2>1, <2>2, <2>3, <2>4, NoFileAssumption DEF DeletionReachesEditors
<1>8. ASSUME NEW u \in Users, Request(u)
      PROVE  DeletionReachesEditors'
  <2>1. CASE Login(u)
    BY <1>1, <2>1, NoFileAssumption DEF Login, store, DeletionReachesEditors
  <2>2. CASE Logout(u) \/ Disconnected(u)
    BY <2>2, <1>4, <1>5 DEF Logout, Disconnected, SignOff, store
  <2>3. CASE Edit(u)
    BY <2>3, <1>2 DEF Edit, Refuse, client, store
  <2>4. CASE Close(u) \/ Notified(u)
    BY <2>4, <1>3 DEF Close, Notified, store
  <2>5. ASSUME NEW f \in Files, Delete(u, f)
        PROVE  DeletionReachesEditors'
    BY <2>5, <1>2, <1>7 DEF Delete, client, store
  <2>6. ASSUME NEW S \in SUBSET Files, DeleteDir(u, S)
        PROVE  DeletionReachesEditors'
    <3>1. view' = view /\ view[u] = NoFile /\ \A v \in Users : notices[v] \subseteq notices'[v]
      BY <1>1, <2>6 DEF DeleteDir
    <3>2. ASSUME NEW v \in Users, view[v] \in Files, v \in rows[view[v]], v \notin rows'[view[v]]
          PROVE  view[v] \in notices'[v]
      <4>1. v # u
        BY <3>1, <3>2, NoFileAssumption
      <4>2. view[v] \in S /\ Owner[view[v]] = u
        BY <1>1, <2>6, <3>2, <4>1 DEF DeleteDir
      <4>3. v \in Linkers(view[v]) \cap InSession
        BY <3>2, <4>1, <4>2, NoFileAssumption DEF Linkers, InSession
      <4>4. QED
        BY <1>1, <2>6, <4>2, <4>3 DEF DeleteDir
    <3>3. QED
      BY <1>1, <3>1, <3>2 DEF DeletionReachesEditors
  <2>7. QED
    BY <1>6, <1>8, <2>1, <2>2, <2>3, <2>4, <2>5, <2>6 DEF Request
<1>9. CASE Save \/ SaveThrows \/ Crash \/ Quit \/ Restart
  BY <1>2, <1>5, <1>9 DEF Save, SaveThrows, Crash, Quit, Restart, client, store
<1>10. QED
  BY <1>2, <1>8, <1>9 DEF Next, vars, client, store

\* The server starts with nothing in memory, and no client in an editor.
LEMMA InitStore == Init => StoreInv
<1>. SUFFICES ASSUME Init PROVE StoreInv
  OBVIOUS
<1>1. HurtInv
  BY InitHurt
<1>2. UnmadeInv /\ NoEditLost
  BY DEF Init, UnmadeInv, NoEditLost, Current, Image, Missing, Live
<1>3. CleanMeansStored /\ DeletionReachesEditors
  BY NoFileAssumption DEF Init, CleanMeansStored, DeletionReachesEditors
<1>4. QED
  BY <1>1, <1>2, <1>3 DEF StoreInv

\* StoreInv is inductive.
LEMMA StepStore == StoreInv /\ [Next]_vars => StoreInv'
<1>. SUFFICES ASSUME StoreInv, [Next]_vars PROVE StoreInv'
  OBVIOUS
<1>1. HurtInv'
  BY StepHurt DEF StoreInv
<1>2. DeletionReachesEditors'
  BY NoticesKept DEF StoreInv, HurtInv
<1>3. Contents'
  <2>1. ASSUME NEW u \in Users, Request(u)
        PROVE  Contents'
    <3>1. CASE Login(u) \/ Notified(u)
      BY <3>1, OtherStores
    <3>2. CASE Close(u) \/ Logout(u) \/ Disconnected(u)
      BY <3>2, LeavingStores
    <3>3. CASE Edit(u)
      BY <3>3, EditStores
    <3>4. ASSUME NEW f \in Files,
                 GetFile(u, f) \/ NewFile(u, f) \/ ActivateLink(u, f) \/ Delete(u, f)
          PROVE  Contents'
      BY <3>4, OpeningStores, DeleteStores
    <3>5. ASSUME NEW S \in SUBSET Files, DeleteDir(u, S)
          PROVE  Contents'
      BY <3>5, DeleteDirStores
    <3>6. QED
      BY <2>1, <3>1, <3>2, <3>3, <3>4, <3>5 DEF Request
  <2>2. CASE Save \/ SaveThrows \/ Crash \/ Quit \/ Restart
    BY <2>2, ProcessStores
  <2>3. CASE UNCHANGED vars
    <3>1. UNCHANGED <<loaded, mem, hurt, server, disk, rows, born, accepted>>
      BY <2>3 DEF vars, cached, store, history
    <3>2. QED
      BY <3>1, StoreStays, StillStores
  <2>4. QED
    BY <2>1, <2>2, <2>3 DEF Next
<1>4. QED
  BY <1>1, <1>2, <1>3 DEF StoreInv, Contents

\* A file whose entry is not marked dirty is on disk as it is in memory, so the
\* save that passes it over leaves nothing out, even after FifoMap has dropped
\* files in use and a lookup has put a new entry in the map.
THEOREM CleanEntriesAreStored == Spec => []CleanMeansStored
<1>1. StoreInv => CleanMeansStored
  BY DEF StoreInv
<1>2. QED
  BY <1>1, InitStore, StepStore, PTL DEF Spec

\* Every edit the server accepted is in memory, or on disk once the file is out of
\* memory, whoever leaves, deletes or opens what in the meantime, unless FifoMap
\* dropped the file while it was in use or not yet saved.
THEOREM AcceptedEditsAreKept == Spec => []NoEditLost
<1>1. StoreInv => NoEditLost
  BY DEF StoreInv
<1>2. QED
  BY <1>1, InitStore, StepStore, PTL DEF Spec

\* A client is left in the editor of a file that was deleted only while the notice
\* of the deletion is on its way, for any number of clients and files.
THEOREM DeletionIsTold == Spec => []DeletionReachesEditors
<1>1. StoreInv => DeletionReachesEditors
  BY DEF StoreInv
<1>2. QED
  BY <1>1, InitStore, StepStore, PTL DEF Spec
=============================================================================
