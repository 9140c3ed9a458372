------------------------------ MODULE OpenFiles ------------------------------
(***************************************************************************)
(* The files the server has in memory (MessageManager, FifoMap, DiskManager, *)
(* File::store, FSElement_db::load) and the clients that have them open. Each *)
(* handler runs to its end on the server's one thread. A client's request is *)
(* one step with its answer: the answers and notices of a connection arrive  *)
(* in the order they were sent, so an answer arrives after every notice that *)
(* was under way when the request was handled.                               *)
(*                                                                           *)
(* A user has at most one client (addClient refuses a second one), which the *)
(* user's id stands for; accounts are not removed here (ClientView has that).  *)
(* A file is its physical id; the ids of deleted files are not used again     *)
(* (AUTOINCREMENT). The text of a file is the set of the edits it has seen,   *)
(* each of them a number of its own.                                         *)
(***************************************************************************)
EXTENDS Integers, Sequences, FiniteSets

CONSTANTS
  Users, Files,
  NoFile,       \* no file: in a client, its documents browser
  LoggedOut,    \* in a client, the windows before the login
  Owner,        \* file -> the user who creates it
  FirstRows,    \* file -> the users with a row of it at the start
  Capacity,     \* MAX_OPEN_FILES
  MaxOpens,     \* bound: requests that open a file
  MaxEdits,     \* bound: edits
  MaxCrashes    \* bound: deaths of the server process from outside

ASSUME CapacityAssumption == Capacity \in Nat \ {0}
ASSUME NoFileAssumption == NoFile \notin Files /\ LoggedOut \notin Files \cup {NoFile}
ASSUME OwnerAssumption == Owner \in [Files -> Users]
ASSUME RowsAssumption ==
  /\ FirstRows \in [Files -> SUBSET Users]
  /\ \A f \in Files : FirstRows[f] # {} => Owner[f] \in FirstRows[f]

VARIABLES
  server,       \* "up", "down", or "aborted" by an exception nobody catches
  logged,       \* the users with an entry in _clients
  open,         \* user -> the file of that entry while fileIsOpen, or NoFile
  fileClients,  \* file -> the clients of _fileClients
  loaded,       \* the keys of _openFiles
  mem,          \* file -> the File stored under that key
  queue,        \* the FifoMap's queue
  disk,         \* file -> what the file on disk holds
  rows,         \* file -> the users with a row of it in fs_element
  born,         \* the ids that have been given to files
  view,         \* user -> the file in the client's editor, NoFile or LoggedOut
  notices,      \* user -> the files of FILE_DELETED messages under way
  \* history and bounds
  accepted,     \* file -> the edits accepted since the server last came up,
                \* and those it found on disk
  hurt,         \* files whose entry was dropped by FifoMap while in use or dirty
  stray,        \* user -> the file kept open for the user, who deleted its folder
  opens, edits, crashes

manager == <<logged, open, fileClients>>
cached  == <<loaded, mem, queue>>
store   == <<disk, rows, born>>
client  == <<view, notices>>
history == <<accepted, hurt, stray>>
bounds  == <<opens, edits, crashes>>
vars == <<server, manager, cached, store, client, history, bounds>>

Nobody == [u \in Users |-> "absent"]
Blank  == [users |-> Nobody, text |-> {}, dirty |-> FALSE, named |-> TRUE]

\* What _openFiles[fileId] inserts for a key it does not have: a pair of an
\* empty path and a new File, which its first paragraph makes dirty. The key
\* is not in the queue.
Phantom == [users |-> Nobody, text |-> {}, dirty |-> TRUE, named |-> FALSE]

Missing == [state |-> "missing", users |-> Nobody, text |-> {}]
Torn    == [state |-> "torn", users |-> Nobody, text |-> {}]
Image(users, text) == [state |-> "whole", users |-> users, text |-> text]

Live(f) == rows[f] # {}

Init ==
  /\ server = "up" /\ logged = {} /\ open = [u \in Users |-> NoFile]
  /\ fileClients = [f \in Files |-> {}]
  /\ loaded = {} /\ mem = [f \in Files |-> Blank] /\ queue = << >>
  /\ rows = FirstRows
  /\ born = {f \in Files : FirstRows[f] # {}}
  /\ disk = [f \in Files |-> IF FirstRows[f] # {} THEN Image(Nobody, {}) ELSE Missing]
  /\ view = [u \in Users |-> LoggedOut] /\ notices = [u \in Users |-> {}]
  /\ accepted = [f \in Files |-> {}] /\ hurt = {} /\ stray = [u \in Users |-> NoFile]
  /\ opens = 0 /\ edits = 0 /\ crashes = 0
-----------------------------------------------------------------------------
\* FifoMap::insert drops the oldest entry when the map has exactly its maximal
\* size, whatever the state of that entry.
Victims(f) ==
  IF f \notin loaded /\ Cardinality(loaded) = Capacity THEN {Head(queue)} ELSE {}

\* loadFile: the file is read from disk unless there is an entry already.
Readable(f) == f \in loaded \/ disk[f].state = "whole"

\* Slip: the file is read again although it is there.
LoadedEntry_Again(f) ==
  [users |-> disk[f].users, text |-> disk[f].text, dirty |-> FALSE, named |-> TRUE]

LoadedEntry(f) ==
  IF f \in loaded THEN mem[f]
  ELSE [users |-> disk[f].users, text |-> disk[f].text, dirty |-> FALSE, named |-> TRUE]

Load(f, entry) ==
  /\ loaded' = (loaded \ Victims(f)) \cup {f}
  /\ mem' = [g \in Files |-> IF g = f THEN entry
                             ELSE IF g \in Victims(f) THEN Blank ELSE mem[g]]
  /\ queue' = IF f \in loaded THEN queue
              ELSE Append(IF Victims(f) = {} THEN queue ELSE Tail(queue), f)
  /\ hurt' = hurt \cup {g \in Victims(f) : \/ Live(g) /\ mem[g].dirty
                                         \/ \E u \in Users : open[u] = g}

\* The process ends: what was only in memory is gone, the clients quit.
Dies(state) ==
  /\ server' = state
  /\ logged' = {} /\ open' = [u \in Users |-> NoFile]
  /\ fileClients' = [f \in Files |-> {}]
  /\ loaded' = {} /\ mem' = [f \in Files |-> Blank] /\ queue' = << >>
  /\ view' = [u \in Users |-> LoggedOut] /\ notices' = [u \in Users |-> {}]
-----------------------------------------------------------------------------
\* _openFiles[file].second.setOnline(user, false) throws when the user is not
\* in the map of the File, which is the case for a File inserted just now.
LeaveFails(u) ==
  open[u] # NoFile /\ (open[u] \notin loaded \/ mem[open[u]].users[u] = "absent")

\* closeFile of MessageManager: the client leaves the list, then the File's
\* user map is updated. status is "offline", or "absent" for removeUser.
LeaveFile(u, status) ==
  LET f == open[u]
  IN  IF f = NoFile THEN UNCHANGED <<fileClients, cached>>
      ELSE /\ fileClients' = [fileClients EXCEPT ![f] = @ \ {u}]
           /\ loaded' = loaded \cup {f}
           /\ mem' = IF f \notin loaded THEN [mem EXCEPT ![f] = Phantom]
                     ELSE IF LeaveFails(u) THEN mem
                     ELSE [mem EXCEPT ![f].users[u] = status, ![f].dirty = TRUE]
           /\ UNCHANGED queue

\* The client is at its login window, or gone: what a notice that still arrives
\* does to it is outside this module.
BackToLogin(u) ==
  /\ view' = [view EXCEPT ![u] = LoggedOut]
  /\ notices' = [notices EXCEPT ![u] = {}]

\* clientDisconnected, when closeFile throws nothing.
SignOff(u) ==
  /\ LeaveFile(u, "offline")
  /\ logged' = logged \ {u}
  /\ open' = [open EXCEPT ![u] = NoFile]
  /\ BackToLogin(u)
  /\ UNCHANGED <<server, hurt>>

\* The client's requests carry the token of its session.
Served(u) == server = "up" /\ view[u] # LoggedOut

\* A handler that throws before it has changed anything: the client is sent an
\* ERROR message, which releases its window, and stays where it is.
Refuse == UNCHANGED <<server, manager, cached, client, hurt>>

Login(u) ==
  /\ server = "up" /\ u \notin logged
  /\ logged' = logged \cup {u}
  /\ view' = [view EXCEPT ![u] = NoFile]
  /\ stray' = [stray EXCEPT ![u] = NoFile]
  /\ UNCHANGED <<server, open, fileClients, cached, store, notices, accepted, hurt, bounds>>

\* The connection ends. Nothing catches what clientDisconnected throws here.
Disconnected(u) ==
  /\ server = "up" /\ u \in logged
  /\ IF LeaveFails(u) THEN Dies("aborted") /\ UNCHANGED hurt ELSE SignOff(u)
  /\ UNCHANGED <<store, accepted, stray, bounds>>

\* logout. What clientDisconnected throws becomes an ERROR message; the client
\* is at its login window and its entry stays, without a file.
Logout(u) ==
  /\ Served(u)
  /\ IF LeaveFails(u)
     THEN /\ LeaveFile(u, "offline")
          /\ open' = [open EXCEPT ![u] = NoFile]
          /\ BackToLogin(u)
          /\ UNCHANGED <<server, logged, hurt>>
     ELSE SignOff(u)
  /\ UNCHANGED <<store, accepted, stray, bounds>>
-----------------------------------------------------------------------------
\* USER_CONNECTED goes to the others of the list, each under the id of that
\* user's row: getIdForUser throws for one who has none. The opening is done by
\* then, but the answer is an ERROR.
Relayed(u, f) == fileClients[f] \ {u} \subseteq rows[f]

ShowFile(u, f) ==
  IF Relayed(u, f) THEN /\ view' = [view EXCEPT ![u] = f]
                        /\ notices' = [notices EXCEPT ![u] = {}]
  ELSE UNCHANGED client

\* Slip: a user the File knows from earlier is not set online.
EnterFile_KnownStaysOff(u, f, was) ==
  /\ Load(f, [was EXCEPT !.users[u] = IF @ = "absent" THEN "online" ELSE @, !.dirty = TRUE])
  /\ fileClients' = [fileClients EXCEPT ![f] = @ \cup {u}]
  /\ open' = [open EXCEPT ![u] = f]
  /\ ShowFile(u, f)
  /\ UNCHANGED <<server, logged>>

\* Slip: the user is not added to the File's map.
EnterFile_UserNotAdded(u, f, was) ==
  /\ Load(f, [was EXCEPT !.dirty = TRUE])
  /\ fileClients' = [fileClients EXCEPT ![f] = @ \cup {u}]
  /\ open' = [open EXCEPT ![u] = f]
  /\ ShowFile(u, f)
  /\ UNCHANGED <<server, logged>>

\* getFile of MessageManager for a client that has no file open; was is the
\* entry of the file before the user is added to it. Then the relay.
EnterFile(u, f, was) ==
  /\ Load(f, [was EXCEPT !.users[u] = "online", !.dirty = TRUE])
  /\ fileClients' = [fileClients EXCEPT ![f] = @ \cup {u}]
  /\ open' = [open EXCEPT ![u] = f]
  /\ ShowFile(u, f)
  /\ UNCHANGED <<server, logged>>

\* The requests of the browser that open a file.
Browses(u) ==
  /\ Served(u) /\ view[u] = NoFile
  /\ opens < MaxOpens /\ opens' = opens + 1

\* getFile. A row that is gone (the notice of it is still under way), a file
\* that cannot be read and a client that has a file open are exceptions.
GetFile(u, f) ==
  /\ Browses(u)
  /\ u \in rows[f] \/ f \in notices[u]
  /\ IF u \in rows[f] /\ open[u] = NoFile /\ Readable(f)
     THEN EnterFile(u, f, LoadedEntry(f))
     ELSE Refuse
  /\ UNCHANGED <<store, accepted, stray, edits, crashes>>

\* newFile: the row and the empty file on disk are there before the client is
\* found to have a file open.
NewFile(u, f) ==
  /\ Browses(u)
  /\ f \notin born /\ Owner[f] = u
  /\ born' = born \cup {f}
  /\ rows' = [rows EXCEPT ![f] = {u}]
  /\ disk' = [disk EXCEPT ![f] = Image(Nobody, {})]
  /\ IF open[u] = NoFile THEN EnterFile(u, f, Blank) ELSE Refuse
  /\ UNCHANGED <<accepted, stray, edits, crashes>>

\* activateLink: clone and mv give the user a row, then the file is opened.
ActivateLink(u, f) ==
  /\ Browses(u)
  /\ Live(f) /\ u \notin rows[f]
  /\ rows' = [rows EXCEPT ![f] = @ \cup {u}]
  /\ IF open[u] = NoFile /\ Readable(f)
     THEN EnterFile(u, f, LoadedEntry(f))
     ELSE Refuse
  /\ UNCHANGED <<disk, born, accepted, stray, edits, crashes>>
-----------------------------------------------------------------------------
\* The requests of the editor. FSElement_db::get refuses a file that is gone,
\* the MessageManager a client whose entry has not this file open.
Accepts(u) == u \in rows[view[u]] /\ open[u] = view[u]

\* Slip: the File is not marked dirty.
Edit_NotDirty(u) ==
  LET f == view[u]
  IN  /\ Served(u) /\ f # NoFile
      /\ edits < MaxEdits
      /\ edits' = edits + 1
      /\ IF Accepts(u) /\ Readable(f)
         THEN /\ Load(f, [LoadedEntry(f) EXCEPT !.text = @ \cup {edits'}])
              /\ accepted' = [accepted EXCEPT ![f] = @ \cup {edits'}]
              /\ UNCHANGED <<server, manager, client>>
         ELSE Refuse /\ UNCHANGED accepted
      /\ UNCHANGED <<store, stray, opens, crashes>>

\* The handlers of localInsert, localDelete, localUpdate and of comments; an
\* edit is one that changes the File. A relay that throws afterwards, for a user
\* without a row, changes nothing here, in closeFile neither.
Edit(u) ==
  LET f == view[u]
  IN  /\ Served(u) /\ f # NoFile
      /\ edits < MaxEdits
      /\ edits' = edits + 1
      /\ IF Accepts(u) /\ Readable(f)
         THEN /\ Load(f, [LoadedEntry(f) EXCEPT !.text = @ \cup {edits'}, !.dirty = TRUE])
              /\ accepted' = [accepted EXCEPT ![f] = @ \cup {edits'}]
              /\ UNCHANGED <<server, manager, client>>
         ELSE Refuse /\ UNCHANGED accepted
      /\ UNCHANGED <<store, stray, opens, crashes>>

\* closeFile. The client is back at its browser at once. When setOnline throws,
\* the client has already left the list and its entry.
Close(u) ==
  /\ Served(u) /\ view[u] # NoFile
  /\ view' = [view EXCEPT ![u] = NoFile]
  /\ IF Accepts(u)
     THEN LeaveFile(u, "offline") /\ open' = [open EXCEPT ![u] = NoFile]
     ELSE UNCHANGED <<fileClients, cached, open>>
  /\ UNCHANGED <<server, logged, notices, hurt>>
  /\ UNCHANGED <<store, accepted, stray, bounds>>

(***************************************************************************)
(* deleteFile, from the editor or the browser. The deleting client leaves    *)
(* the file; its row goes, and if the user is the file's owner so do the     *)
(* links to it, whose owners are notified, and the file on disk. For each    *)
(* link fileDeleted clears fileIsOpen of every client in the file.           *)
(***************************************************************************)
Linkers(f) == rows[f] \ {Owner[f]}
InSession == {u \in Users : view[u] # LoggedOut}

\* Slips: fileDeleted is not called; no notice is sent.
DeleteRow_LeavesOpen(u, f) ==
  /\ rows' = [rows EXCEPT ![f] = IF u = Owner[f] THEN {} ELSE @ \ {u}]
  /\ disk' = [disk EXCEPT ![f] = IF u = Owner[f] THEN Missing ELSE @]
  /\ open' = [open EXCEPT ![u] = IF @ = f THEN NoFile ELSE @]
  /\ notices' = [v \in Users |-> IF u = Owner[f] /\ v \in Linkers(f) \cap InSession
                                  THEN notices[v] \cup {f} ELSE notices[v]]
  /\ view' = [view EXCEPT ![u] = NoFile]
  /\ UNCHANGED <<server, logged, born, hurt>>

DeleteRow_Silent(u, f) ==
  /\ rows' = [rows EXCEPT ![f] = IF u = Owner[f] THEN {} ELSE @ \ {u}]
  /\ disk' = [disk EXCEPT ![f] = IF u = Owner[f] THEN Missing ELSE @]
  /\ open' = [v \in Users |-> IF open[v] = f /\ (v = u \/ u = Owner[f]) THEN NoFile ELSE open[v]]
  /\ view' = [view EXCEPT ![u] = NoFile]
  /\ UNCHANGED <<server, logged, born, notices, hurt>>

DeleteRow(u, f) ==
  /\ IF u = Owner[f]
     THEN /\ rows' = [rows EXCEPT ![f] = {}]
          /\ disk' = [disk EXCEPT ![f] = Missing]
          /\ open' = [v \in Users |->
                        IF open[v] = f /\ (v = u \/ Linkers(f) # {}) THEN NoFile ELSE open[v]]
          /\ notices' = [v \in Users |->
                           IF v \in Linkers(f) \cap InSession THEN notices[v] \cup {f} ELSE notices[v]]
     ELSE /\ rows' = [rows EXCEPT ![f] = @ \ {u}]
          /\ open' = [open EXCEPT ![u] = IF @ = f THEN NoFile ELSE @]
          /\ UNCHANGED <<disk, notices>>
  /\ view' = [view EXCEPT ![u] = NoFile]
  /\ UNCHANGED <<server, logged, born, hurt>>

Delete(u, f) ==
  /\ Served(u) /\ view[u] \in {NoFile, f}
  /\ u \in rows[f]
  /\ IF open[u] = f /\ LeaveFails(u)
     THEN /\ LeaveFile(u, "absent")
          /\ open' = [open EXCEPT ![u] = NoFile]
          /\ UNCHANGED <<server, logged, client, store, hurt>>
     ELSE /\ DeleteRow(u, f)
          /\ IF open[u] = f THEN LeaveFile(u, "absent") ELSE UNCHANGED <<fileClients, cached>>
  /\ UNCHANGED <<accepted, stray, bounds>>

\* deleteDir, from the browser: the rows below a folder go, S of them files or
\* links. For those of the user's own, delete_lambda does what it does above; but
\* closeFile is not called, so that a file the server has open for the client,
\* which is back at its browser by a notice of another, stays open for it.
DeleteDir(u, S) ==
  /\ Served(u) /\ view[u] = NoFile
  /\ S # {} /\ \A f \in S : u \in rows[f]
  /\ LET own == {f \in S : Owner[f] = u}
     IN  /\ rows' = [f \in Files |-> IF f \in own THEN {}
                                     ELSE IF f \in S THEN rows[f] \ {u} ELSE rows[f]]
         /\ disk' = [f \in Files |-> IF f \in own THEN Missing ELSE disk[f]]
         /\ open' = [v \in Users |-> IF open[v] \in own /\ Linkers(open[v]) # {}
                                     THEN NoFile ELSE open[v]]
         /\ notices' = [v \in Users |->
                          notices[v] \cup {f \in own : v \in Linkers(f) \cap InSession}]
  /\ stray' = [stray EXCEPT ![u] = IF open'[u] \in S THEN open'[u] ELSE @]
  /\ UNCHANGED <<server, logged, fileClients, cached, born, view, accepted, hurt, bounds>>

\* FILE_DELETED arrives: the client leaves its editor for the browser, whatever
\* file the editor shows, and tells the server nothing.
Notified(u) ==
  /\ Served(u)
  /\ \E f \in notices[u] : notices' = [notices EXCEPT ![u] = @ \ {f}]
  /\ view' = [view EXCEPT ![u] = NoFile]
  /\ UNCHANGED <<server, manager, cached, store, history, bounds>>
-----------------------------------------------------------------------------
Dirty == {f \in loaded : mem[f].dirty /\ mem[f].named}
Stored(S, m) ==
  [f \in Files |-> IF f \in S THEN Image(m[f].users, m[f].text) ELSE disk[f]]

\* An entry without a path: File::store throws for it.
Unnamed == {f \in loaded : ~ mem[f].named}

\* Slip: a stored file stays marked.
Save_KeepsDirty ==
  /\ server = "up" /\ Dirty # {} /\ Unnamed = {}
  /\ disk' = Stored(Dirty, mem)
  /\ UNCHANGED <<server, manager, cached, rows, born, client, history, bounds>>

\* DiskManager::save, every 30 seconds.
Save ==
  /\ server = "up" /\ Dirty # {} /\ Unnamed = {}
  /\ disk' = Stored(Dirty, mem)
  /\ mem' = [f \in Files |-> [mem[f] EXCEPT !.dirty = FALSE]]
  /\ UNCHANGED <<server, manager, loaded, queue, rows, born, client, history, bounds>>

\* The map is walked in the order of its buckets: some files are stored before
\* the one without a path throws, from a timer's slot.
SaveThrows ==
  /\ server = "up" /\ Unnamed # {}
  /\ \E S \in SUBSET Dirty : disk' = Stored(S, mem)
  /\ Dies("aborted")
  /\ UNCHANGED <<rows, born, history, bounds>>

\* The process is killed, at any moment of a save too: QFile::open empties the
\* file that is then written.
Crash ==
  /\ server = "up" /\ crashes < MaxCrashes
  /\ crashes' = crashes + 1
  /\ \E S \in SUBSET Dirty : \E T \in SUBSET (Dirty \ S) :
        /\ Cardinality(T) <= 1
        /\ disk' = [f \in Files |-> IF f \in T THEN Torn ELSE Stored(S, mem)[f]]
  /\ Dies("down")
  /\ UNCHANGED <<rows, born, history, opens, edits>>

\* The files as MessageManager::quit leaves them: every client has closed its.
Closed ==
  [f \in Files |->
     [mem[f] EXCEPT !.users = [u \in Users |-> IF open[u] = f THEN "offline" ELSE @[u]],
                    !.dirty = @ \/ \E u \in Users : open[u] = f]]

\* SIGTERM: the files are closed, then saved.
Quit ==
  /\ server = "up" /\ crashes < MaxCrashes
  /\ crashes' = crashes + 1
  /\ IF Unnamed # {} \/ \E u \in Users : LeaveFails(u)
     THEN /\ \E S \in SUBSET Dirty :
                /\ S # {} => \A u \in Users : ~ LeaveFails(u)
                /\ disk' = Stored(S, Closed)
          /\ Dies("aborted")
     ELSE /\ disk' = Stored({f \in loaded : Closed[f].dirty}, Closed)
          /\ Dies("down")
  /\ UNCHANGED <<rows, born, history, opens, edits>>

Restart ==
  /\ server # "up"
  /\ server' = "up"
  /\ accepted' = [f \in Files |-> disk[f].text]
  /\ hurt' = {}
  /\ UNCHANGED <<manager, cached, store, client, stray, bounds>>
-----------------------------------------------------------------------------
Request(u) ==
  \/ Login(u) \/ Logout(u) \/ Disconnected(u) \/ Edit(u) \/ Close(u) \/ Notified(u)
  \/ \E f \in Files : GetFile(u, f) \/ NewFile(u, f) \/ ActivateLink(u, f) \/ Delete(u, f)
  \/ \E S \in SUBSET Files : DeleteDir(u, S)

Next == (\E u \in Users : Request(u)) \/ Save \/ SaveThrows \/ Crash \/ Quit \/ Restart

Spec == Init /\ [][Next]_vars

\* The timer of the DiskManager goes off again and again.
FairSpec == Spec /\ WF_vars(Save \/ SaveThrows)
-----------------------------------------------------------------------------
UserMaps == [Users -> {"absent", "online", "offline"}]
Entries == [users : UserMaps, text : SUBSET Nat, dirty : BOOLEAN, named : BOOLEAN]
Images == [state : {"missing", "torn", "whole"}, users : UserMaps, text : SUBSET Nat]

\* Type correctness. Every key in the queue is one of the map's, so insert
\* never drops an entry by a key that is no longer there.
TypeOK ==
  /\ server \in {"up", "down", "aborted"}
  /\ logged \subseteq Users
  /\ open \in [Users -> Files \cup {NoFile}]
  /\ fileClients \in [Files -> SUBSET Users]
  /\ loaded \subseteq Files
  /\ mem \in [Files -> Entries]
  /\ queue \in Seq(Files) /\ \A i \in 1 .. Len(queue) : queue[i] \in loaded
  /\ disk \in [Files -> Images]
  /\ rows \in [Files -> SUBSET Users]
  /\ born \subseteq Files
  /\ view \in [Users -> Files \cup {NoFile, LoggedOut}]
  /\ notices \in [Users -> SUBSET Files]
  /\ accepted \in [Files -> SUBSET Nat]
  /\ hurt \subseteq Files /\ stray \in [Users -> Files \cup {NoFile}]
  /\ opens \in Nat /\ edits \in Nat /\ crashes \in Nat

\* The two maps of MessageManager agree on every file that has not been
\* deleted: its list holds exactly the clients whose entry has it open, each of
\* which is connected and has a row of the file, or is in the browser in which it
\* deleted the folder of that row. The handlers that tell the clients of the list
\* something dereference both without asking. (Accounts are not removed here.)
MapsAgree ==
  \A u \in Users :
     /\ \A f \in Files : Live(f) => (u \in fileClients[f] <=> open[u] = f)
     /\ open[u] # NoFile => u \in logged
     /\ open[u] # NoFile /\ u \notin rows[open[u]] => stray[u] = open[u] /\ view[u] = NoFile

\* What makes MapsAgree inductive. The queue holds a key once, and there is
\* one to drop whenever the map is not empty: entries that are not in the queue
\* come only after one that is. No client is in the list of a file that does
\* not exist yet, or has it open. A client past its login window has an entry.
QueueInv ==
  /\ \A i, j \in 1 .. Len(queue) : queue[i] = queue[j] => i = j
  /\ loaded # {} \/ (\E u \in Users : open[u] # NoFile) => queue # << >>
UnbornInv ==
  \A f \in Files \ born :
     rows[f] = {} /\ fileClients[f] = {} /\ \A u \in Users : open[u] # f
SessionInv == \A u \in Users : view[u] # LoggedOut => u \in logged
ManagerInv == TypeOK /\ MapsAgree /\ QueueInv /\ UnbornInv /\ SessionInv

\* A client is in the editor of a file that is gone only while the notice of
\* its deletion is under way: nobody is left editing a deleted file.
DeletionReachesEditors ==
  \A u \in Users : view[u] \in Files /\ u \notin rows[view[u]] => view[u] \in notices[u]

\* The dirty flag tells the truth: the entry of a file that is not marked is
\* what the disk holds, so the save that skips it loses nothing.
CleanMeansStored ==
  \A f \in loaded : Live(f) /\ ~ mem[f].dirty =>
     disk[f] = Image(mem[f].users, mem[f].text)

\* The user map of an open file shows the clients in it as online.
PresenceShown ==
  \A f \in loaded \ hurt : \A u \in fileClients[f] :
     Live(f) => mem[f].users[u] = "online"

\* Where the edits of a file are: in memory while it is there, else on disk.
Current(f) == IF f \in loaded THEN mem[f].text ELSE disk[f].text

\* No edit the server accepted is lost while it runs, unless the FifoMap has
\* dropped the file while it was in use or not yet saved.
NoEditLost ==
  server = "up" => \A f \in Files \ hurt : Live(f) => Current(f) = accepted[f]

\* The same for every file. "It may have been removed" (message_manager.cpp:211)
\* is meant to do no harm, since the file is then loaded again.
ReloadLosesNothing ==
  server = "up" => \A f \in Files : Live(f) => Current(f) = accepted[f]

\* The server ends on an exception of its own only after it has dropped a file
\* in use or not yet saved.
AbortsOnlyIfHurt == server = "aborted" => hurt # {}

\* What makes PresenceShown and AbortsOnlyIfHurt inductive: a client's open
\* file is in memory with the client online, and entries without a path come
\* only of files that FifoMap dropped in use.
EntryInv ==
  \A u \in Users : open[u] # NoFile /\ open[u] \notin hurt =>
     open[u] \in loaded /\ mem[open[u]].users[u] = "online"
DownInv == server # "up" => loaded = {} /\ \A u \in Users : open[u] = NoFile
HurtInv == ManagerInv /\ EntryInv /\ Unnamed \subseteq hurt /\ DownInv /\ AbortsOnlyIfHurt

\* What makes CleanMeansStored and NoEditLost inductive: what is in memory has been
\* made, and a file that has not holds nothing.
UnmadeInv ==
  /\ loaded \subseteq born
  /\ \A f \in Files \ born : disk[f] = Missing /\ accepted[f] = {}
StoreInv ==
  HurtInv /\ UnmadeInv /\ CleanMeansStored /\ NoEditLost /\ DeletionReachesEditors

\* Every change is on disk before long, or its entry is dropped.
SavedEventually ==
  \A f \in Files :
     (f \in loaded /\ mem[f].dirty) ~> (f \notin loaded \/ ~ mem[f].dirty)
=============================================================================
