------------------------------- MODULE CoEdit -------------------------------
(***************************************************************************)
(* Several users edit one document through the server: the client's text    *)
(* editor (texteditor_crdt.cpp, texteditor.cpp), the server's handlers of   *)
(* the messages that concern an open file (server_message_processor.cpp,    *)
(* message_manager.cpp) and the TCP connection between each client and the   *)
(* server, which keeps the order of what is sent on it. Clients may die and  *)
(* come back; the server stays up and the document stays loaded.             *)
(***************************************************************************)
EXTENDS Document

CONSTANTS
  Users,         \* the ids of the users, one client each
  InitialDoc,    \* the symbols the document was left with by earlier sessions
  FirstCharId,   \* the char_id column of every user's row of it
  Newlines,      \* whether typed text may contain line breaks
  MaxEdits,      \* bound: edits, of all users together
  MaxChars,      \* bound: characters removed and added by one edit, together
  MaxOpens,      \* bound: times the document is opened
  MaxCrashes     \* bound: deaths of clients

ASSUME UsersAssumption == Users \subseteq Nat \ {0}
ASSUME InitialAssumption ==
  /\ InitialDoc \in Seq([id : Nat \X Nat, pos : Position])
  /\ SortedDoc(InitialDoc) /\ DistinctIds(InitialDoc)
  /\ FirstCharId \in Nat
  /\ \A i \in DOMAIN InitialDoc : InitialDoc[i].id[2] < FirstCharId

VARIABLES
  \* the server
  sdoc,      \* the symbols of the File in _openFiles
  users,     \* its user map: user -> "absent", "online" or "offline"
  inFile,    \* the users whose client is in _fileClients of the document
  charRow,   \* user -> char_id of the user's row of the document
  \* the clients
  window,    \* user -> "closed", "opening", "open" or "down"
  doc,       \* user -> the symbols of the editor's File
  peers,     \* user -> the editor's map of the other users
  charId,    \* user -> the counter of User::getCharId
  \* the connections
  up, down,  \* user -> messages to the server, messages to the client
  \* memory and bounds
  wild,      \* some list's end node has been erased: the process that did it
             \* has no defined next step, and what follows says nothing
  edits, opens, crashes

server   == <<sdoc, users, inFile, charRow>>
client   == <<window, doc, peers, charId>>
channels == <<up, down>>
counters == <<edits, opens, crashes>>
vars == <<server, client, channels, wild, counters>>

Nobody == [v \in Users |-> "absent"]

Init ==
  /\ sdoc = InitialDoc /\ users = Nobody /\ inFile = {}
  /\ charRow = [u \in Users |-> FirstCharId]
  /\ window = [u \in Users |-> "closed"]
  /\ doc = [u \in Users |-> << >>]
  /\ peers = [u \in Users |-> Nobody]
  /\ charId = [u \in Users |-> 0]
  /\ up = [u \in Users |-> << >>] /\ down = [u \in Users |-> << >>]
  /\ wild = FALSE
  /\ edits = 0 /\ opens = 0 /\ crashes = 0
-----------------------------------------------------------------------------
\* Messages.
Get  == [type |-> "get"]
Close == [type |-> "close"]
Gone == [type |-> "gone"]    \* the socket's disconnected signal
Ins(syms) == [type |-> "ins", syms |-> syms]
Del(ids)  == [type |-> "del", ids |-> ids]
FileMsg(d, m, c) == [type |-> "file", doc |-> d, users |-> m, charId |-> c]
On(u)  == [type |-> "on", user |-> u]
Off(u) == [type |-> "off", user |-> u]
\* An edit as the server passes it on, with its author.
InsFrom(u, syms) == [type |-> "ins", user |-> u, syms |-> syms]
DelFrom(u, ids)  == [type |-> "del", user |-> u, ids |-> ids]

SendUp(u, msgs) == up' = [up EXCEPT ![u] = @ \o msgs]

\* What is written to a client that has died is lost.
Alive(v) == window[v] # "down"

\* The loop of the handlers over getClientsInFile: everyone but the sender.
Broadcast(S, m) ==
  [v \in Users |-> IF v \in S /\ Alive(v) THEN Append(down[v], m) ELSE down[v]]
-----------------------------------------------------------------------------
\* The user opens the document from the browser; the window freezes until the
\* answer arrives.
Open(u) ==
  /\ window[u] = "closed"
  /\ opens < MaxOpens
  /\ window' = [window EXCEPT ![u] = "opening"]
  /\ SendUp(u, <<Get>>)
  /\ opens' = opens + 1
  /\ UNCHANGED <<server, doc, peers, charId, down, wild, edits, crashes>>

\* The editor is left for the browser. The File stays in the editor, and what
\* still arrives for it is still applied.
CloseFile(u) ==
  /\ window[u] = "open"
  /\ window' = [window EXCEPT ![u] = "closed"]
  /\ SendUp(u, <<Close>>)
  /\ UNCHANGED <<server, doc, peers, charId, down, wild, counters>>

\* _handleInsert's loop over the added characters, after it has taken the
\* identifiers of the added paragraphs from the same counter.
Typed(u, d, k, first, n) ==
  LET type(at, i) ==
        LET r == LocalInsert(at.doc, k + i, <<u, first + i>>)
        IN  IF at.thrown THEN at
            ELSE [doc |-> r.doc, syms |-> Append(at.syms, r.sym), thrown |-> r.thrown]
  IN  FoldLeft(type, [doc |-> d, syms |-> << >>, thrown |-> FALSE],
               [i \in 1 .. n |-> i - 1])

\* What is left of a connection whose client has died: the server sees some of
\* the messages written, then the end of the stream.
CutOff(u, msgs) ==
  \E n \in 0 .. Len(msgs) : up' = [up EXCEPT ![u] = Append(SubSeq(msgs, 1, n), Gone)]

Die(u) ==
  /\ window' = [window EXCEPT ![u] = "down"]
  /\ doc' = [doc EXCEPT ![u] = << >>]
  /\ peers' = [peers EXCEPT ![u] = Nobody]
  /\ charId' = [charId EXCEPT ![u] = 0]
  /\ down' = [down EXCEPT ![u] = << >>]

(***************************************************************************)
(* The user replaces the removed symbols from index k on by the added ones, *)
(* of which breaks are line breaks. The deletion is emitted first, then the *)
(* insertion; findPosition's exception is not caught, and the client ends.   *)
(***************************************************************************)
EditFits(u, k, removed, added, breaks) ==
  /\ window[u] = "open"
  /\ edits < MaxEdits
  /\ removed + added \in 1 .. MaxChars
  /\ k + removed <= Len(doc[u]) + 1
  /\ breaks <= added /\ (breaks > 0 => Newlines)

Kept(u, k, removed) ==
  SubSeq(doc[u], 1, k - 1) \o SubSeq(doc[u], k + removed, Len(doc[u]))

DelMsg(u, k, removed) ==
  IF removed = 0 THEN << >>
  ELSE << Del(Ids(SubSeq(doc[u], k, k + removed - 1))) >>

Edit(u, k, removed, added, breaks) ==
  LET t == Typed(u, Kept(u, k, removed), k, charId[u] + breaks, added)
  IN  /\ EditFits(u, k, removed, added, breaks)
      /\ ~ t.thrown
      /\ doc' = [doc EXCEPT ![u] = t.doc]
      /\ charId' = [charId EXCEPT ![u] = @ + breaks + added]
      /\ SendUp(u, DelMsg(u, k, removed) \o (IF added = 0 THEN << >> ELSE <<Ins(t.syms)>>))
      /\ edits' = edits + 1
      /\ UNCHANGED <<server, window, peers, down, wild, opens, crashes>>

EditThrows(u, k, removed, added, breaks) ==
  /\ EditFits(u, k, removed, added, breaks)
  /\ Typed(u, Kept(u, k, removed), k, charId[u] + breaks, added).thrown
  /\ Die(u)
  /\ CutOff(u, up[u] \o DelMsg(u, k, removed))
  /\ edits' = edits + 1
  /\ UNCHANGED <<server, wild, opens, crashes>>

\* The client is killed, or its connection is cut.
Crash(u) ==
  /\ Alive(u)
  /\ crashes < MaxCrashes
  /\ Die(u)
  /\ CutOff(u, up[u])
  /\ crashes' = crashes + 1
  /\ UNCHANGED <<server, wild, edits, opens>>

\* The user logs in again; the server accepts it once it has seen the old
\* connection end (ClientMultipleLoginException before).
Restart(u) ==
  /\ ~ Alive(u)
  /\ up[u] = << >>
  /\ window' = [window EXCEPT ![u] = "closed"]
  /\ UNCHANGED <<server, doc, peers, charId, channels, wild, counters>>
-----------------------------------------------------------------------------
\* The server's handlers, each run to its end on the server's one thread.
Received(u, type) == up[u] # << >> /\ Head(up[u]).type = type
Consume(u) == up' = [up EXCEPT ![u] = Tail(@)]

\* Slips of getFile: the others are not told, the user gets no answer.
ServerGet_TellsNobody(u) ==
  /\ Received(u, "get")
  /\ u \notin inFile
  /\ users' = [users EXCEPT ![u] = "online"]
  /\ inFile' = inFile \cup {u}
  /\ down' = IF ~ Alive(u) THEN down
             ELSE [down EXCEPT ![u] = Append(@, FileMsg(sdoc, users', charRow[u]))]
  /\ Consume(u)
  /\ UNCHANGED <<sdoc, charRow, client, wild, counters>>

ServerGet_NoAnswer(u) ==
  /\ Received(u, "get")
  /\ u \notin inFile
  /\ users' = [users EXCEPT ![u] = "online"]
  /\ inFile' = inFile \cup {u}
  /\ down' = Broadcast(inFile, On(u))
  /\ Consume(u)
  /\ UNCHANGED <<sdoc, charRow, client, wild, counters>>

\* getFile: ClientFileException if the client has a file open. The others in
\* the file hear of the user, the user receives the file.
ServerGet(u) ==
  /\ Received(u, "get")
  /\ u \notin inFile
  /\ users' = [users EXCEPT ![u] = "online"]
  /\ inFile' = inFile \cup {u}
  /\ LET told == Broadcast(inFile, On(u))
     IN  down' = IF ~ Alive(u) THEN told
                 ELSE [told EXCEPT ![u] = Append(@, FileMsg(sdoc, users', charRow[u]))]
  /\ Consume(u)
  /\ UNCHANGED <<sdoc, charRow, client, wild, counters>>

\* Slip of localInsert: the row's counter is left alone.
ServerInsert_NoCount(u) ==
  LET m == Head(up[u])
  IN  /\ Received(u, "ins")
      /\ u \in inFile
      /\ sdoc' = RemoteInsertAll(sdoc, m.syms)
      /\ down' = Broadcast(inFile \ {u}, InsFrom(u, m.syms))
      /\ Consume(u)
      /\ UNCHANGED <<charRow, users, inFile, client, wild, counters>>

\* localInsert: the symbols go into the document, the counter of the user's
\* row grows by their number.
ServerInsert(u) ==
  LET m == Head(up[u])
  IN  /\ Received(u, "ins")
      /\ u \in inFile
      /\ sdoc' = RemoteInsertAll(sdoc, m.syms)
      /\ charRow' = [charRow EXCEPT ![u] = @ + Len(m.syms)]
      /\ down' = Broadcast(inFile \ {u}, InsFrom(u, m.syms))
      /\ Consume(u)
      /\ UNCHANGED <<users, inFile, client, wild, counters>>

\* localDelete.
ServerDelete(u) ==
  LET m == Head(up[u])
      r == RemoteDeleteAll(sdoc, m.ids)
  IN  /\ Received(u, "del")
      /\ u \in inFile
      /\ sdoc' = r.doc
      /\ wild' = (wild \/ r.wild)
      /\ down' = Broadcast(inFile \ {u}, DelFrom(u, m.ids))
      /\ Consume(u)
      /\ UNCHANGED <<users, inFile, charRow, client, counters>>

\* What closeFile of MessageManager and the loop of the handler do together.
Leave(u) ==
  /\ users' = [users EXCEPT ![u] = "offline"]
  /\ inFile' = inFile \ {u}
  /\ down' = Broadcast(inFile \ {u}, Off(u))

\* Slip: the client stays in _fileClients.
ServerClose_StaysInFile(u) ==
  /\ Received(u, "close")
  /\ u \in inFile
  /\ users' = [users EXCEPT ![u] = "offline"]
  /\ down' = Broadcast(inFile \ {u}, Off(u))
  /\ Consume(u)
  /\ UNCHANGED <<sdoc, charRow, inFile, client, wild, counters>>

\* closeFile.
ServerClose(u) ==
  /\ Received(u, "close")
  /\ u \in inFile
  /\ Leave(u)
  /\ Consume(u)
  /\ UNCHANGED <<sdoc, charRow, client, wild, counters>>

\* Slip: nobody is told that a client that died has left.
ServerGone_TellsNobody(u) ==
  /\ Received(u, "gone")
  /\ users' = [users EXCEPT ![u] = IF u \in inFile THEN "offline" ELSE @]
  /\ inFile' = inFile \ {u}
  /\ Consume(u)
  /\ UNCHANGED <<sdoc, charRow, down, client, wild, counters>>

\* clientDisconnected: a client that had the document open leaves it.
ServerGone(u) ==
  /\ Received(u, "gone")
  /\ IF u \in inFile THEN Leave(u) ELSE UNCHANGED <<users, inFile, down>>
  /\ Consume(u)
  /\ UNCHANGED <<sdoc, charRow, client, wild, counters>>

ServerReceive(u) ==
  ServerGet(u) \/ ServerInsert(u) \/ ServerDelete(u) \/ ServerClose(u) \/ ServerGone(u)
-----------------------------------------------------------------------------
\* The client's handlers of what the server sends.
Arrived(u, type) == down[u] # << >> /\ Head(down[u]).type = type
Drop(u) == down' = [down EXCEPT ![u] = Tail(@)]

\* serverGetFileResponse and TextEditor::clear: the editor shows the new file.
ClientFile(u) ==
  LET m == Head(down[u])
  IN  /\ Arrived(u, "file")
      /\ window' = [window EXCEPT ![u] = "open"]
      /\ doc' = [doc EXCEPT ![u] = m.doc]
      /\ peers' = [peers EXCEPT ![u] = [m.users EXCEPT ![u] = "absent"]]
      /\ charId' = [charId EXCEPT ![u] = m.charId]
      /\ Drop(u)
      /\ UNCHANGED <<server, up, wild, counters>>

\* remoteInsert; an author missing from the editor's map is an exception
\* ("not present in the list of users!!").
ClientInsert(u) ==
  LET m == Head(down[u])
  IN  /\ Arrived(u, "ins")
      /\ peers[u][m.user] # "absent"
      /\ doc' = [doc EXCEPT ![u] = RemoteInsertAll(@, m.syms)]
      /\ Drop(u)
      /\ UNCHANGED <<server, window, peers, charId, up, wild, counters>>

\* remoteDelete.
ClientDelete(u) ==
  LET m == Head(down[u])
      r == RemoteDeleteAll(doc[u], m.ids)
  IN  /\ Arrived(u, "del")
      /\ peers[u][m.user] # "absent"
      /\ doc' = [doc EXCEPT ![u] = r.doc]
      /\ wild' = (wild \/ r.wild)
      /\ Drop(u)
      /\ UNCHANGED <<server, window, peers, charId, up, counters>>

\* userConnected adds a user it does not know.
ClientOn(u) ==
  /\ Arrived(u, "on")
  /\ peers' = [peers EXCEPT ![u][Head(down[u]).user] = "online"]
  /\ Drop(u)
  /\ UNCHANGED <<server, window, doc, charId, up, wild, counters>>

\* userDisconnected throws for a user it does not know ("user not present!?").
ClientOff(u) ==
  LET v == Head(down[u]).user
  IN  /\ Arrived(u, "off")
      /\ peers[u][v] # "absent"
      /\ peers' = [peers EXCEPT ![u][v] = "offline"]
      /\ Drop(u)
      /\ UNCHANGED <<server, window, doc, charId, up, wild, counters>>

ClientReceive(u) ==
  ClientFile(u) \/ ClientInsert(u) \/ ClientDelete(u) \/ ClientOn(u) \/ ClientOff(u)
-----------------------------------------------------------------------------
Types(u) ==
  \E k \in 1 .. (Len(doc[u]) + 1), removed, added, breaks \in 0 .. MaxChars :
     Edit(u, k, removed, added, breaks) \/ EditThrows(u, k, removed, added, breaks)

Next ==
  \E u \in Users :
     \/ Open(u) \/ CloseFile(u) \/ Types(u) \/ Crash(u) \/ Restart(u)
     \/ ServerReceive(u) \/ ClientReceive(u)

\* The event loops of the server and of a living client take what has arrived.
\* Of the steps of Next only the handlers take a message off a channel.
Fairness ==
  \A u \in Users :
     /\ WF_up(up[u] # << >> /\ Consume(u))
     /\ WF_down(down[u] # << >> /\ Drop(u))

Spec == Init /\ [][Next]_vars
FairSpec == Spec /\ Fairness
-----------------------------------------------------------------------------
\* What d becomes when the edits among the messages are applied in order.
ApplyEdits(d, msgs) ==
  LET apply(at, m) == CASE m.type = "ins" -> RemoteInsertAll(at, m.syms)
                        [] m.type = "del" -> RemoteDeleteAll(at, m.ids).doc
                        [] OTHER -> at
  IN  FoldLeft(apply, d, msgs)

\* Replication: at every moment the document of an open editor, once it has
\* received what is on the way to it, is the server's document once that has
\* received what the editor has sent. Operations that cross on the way
\* commute, repeated deletions included. Nothing is promised of a process that
\* has erased the end node of a list.
ReplicasCommute ==
  ~ wild => \A u \in Users :
     window[u] = "open" => ApplyEdits(doc[u], down[u]) = ApplyEdits(sdoc, up[u])

\* Every replica shows its symbols in the strict order of their positions.
SortedReplicas == SortedDoc(sdoc) /\ \A u \in Users : SortedDoc(doc[u])

\* A symbol identifier names one symbol, in every replica.
UniqueIds == DistinctIds(sdoc) /\ \A u \in Users : DistinctIds(doc[u])

\* The server receives an edit only of a client that has the file open, and a
\* request to open it only of one that has not: no handler throws
\* ClientFileException, which would leave the client with an edit nobody else has.
ServerNeverRefuses ==
  \A u \in Users : up[u] # << >> =>
     CASE Head(up[u]).type = "get" -> u \notin inFile
       [] Head(up[u]).type = "gone" -> TRUE
       [] OTHER -> u \in inFile

\* A user's operations reach a client only after the client has heard of the
\* user: no remote operation throws TextEditorException.
AuthorsKnown ==
  \A u \in Users : down[u] # << >> /\ Head(down[u]).type \in {"ins", "del", "off"} =>
     peers[u][Head(down[u]).user] # "absent"

\* What an editor knows of the others, with what is on the way to it, is what
\* the server has in the file, and that is online for those who have it open.
NewsOf(u, v) == {i \in 1 .. Len(down[u]) : down[u][i].type \in {"on", "off"} /\ down[u][i].user = v}
Status(m) == IF m.type = "on" THEN "online" ELSE "offline"

PresenceFollows ==
  /\ \A u \in Users : (users[u] = "online") = (u \in inFile)
  /\ \A u, v \in Users : window[u] = "open" /\ u # v =>
        /\ NewsOf(u, v) = {} => peers[u][v] = users[v]
        /\ \A last \in NewsOf(u, v) :
              (\A i \in NewsOf(u, v) : i <= last) => Status(down[u][last]) = users[v]

\* The window a user's request froze is released.
OpenCompletes == \A u \in Users : window[u] = "opening" ~> window[u] # "opening"

\* "vector _pos is not sorted!" (File.cpp:560): an insertion is refused only in
\* a list of symbols that is out of order.
RefusedOnlyIfUnsorted ==
  [][\A u \in Users :
       edits' # edits /\ window[u] = "open" /\ window'[u] = "down"
       => ~ SortedDoc(doc[u])]_vars
=============================================================================
