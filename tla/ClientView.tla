------------------------------ MODULE ClientView ------------------------------
(***************************************************************************)
(* The windows of the clients (GuiManager, User, the forms and the         *)
(* browser), the messages under way to them, and the sessions and entries  *)
(* the server keeps for them. A window is frozen while an answer is        *)
(* awaited, but a message acts on whichever window is shown when it        *)
(* arrives; most requests of the browser do not freeze it.                 *)
(*                                                                         *)
(* The server's one thread handles a message to its end, and the messages  *)
(* of a connection arrive in order. So a request is one step of the        *)
(* client with the handler that answers it, and each message to a client   *)
(* a step of its own: nothing the client does between sending and being    *)
(* served depends on the handler. The files themselves are in OpenFiles,   *)
(* folders in FileSystem.                                                  *)
(***************************************************************************)
EXTENDS Wire, Sequences, FiniteSets

CONSTANTS
  Clients, Users, Files,
  NoFile,
  Owner,        \* file -> the user who creates it
  SignsAs,      \* client -> the users who sit at it
  Starts        \* where a run begins: the users that are registered, file -> those
                \* with a row of it, the files that were made, the clients that are
                \* connected, and a bound: client -> how much its users do

ASSUME ClientViewAssumption ==
  /\ NoFile \notin Files
  /\ Owner \in [Files -> Users]
  /\ SignsAs \in [Clients -> SUBSET Users]
  /\ IsFiniteSet(Files)
  /\ \A s \in Starts :
       /\ s.accounts \subseteq Users /\ s.rows \in [Files -> SUBSET Users] /\ s.born \subseteq Files
       /\ s.greeted \subseteq Clients /\ s.acts \in [Clients -> Nat]
       /\ \A f \in Files \ s.born : s.rows[f] = {}

VARIABLES
  gui,       \* client -> its windows and its User
  down,      \* client -> the messages under way to it
  entry,     \* client -> the session of its entry in _clients, or 0
  open,      \* client -> the file of that entry while fileIsOpen, or NoFile
  inFile,    \* file -> the clients of _fileClients
  sessions,  \* the rows of the table of sessions
  rows,      \* file -> the users with a row of it in fs_element
  members,   \* file -> the users in the user map of its File
  accounts,  \* the users registered
  born,      \* the files that have been made
  knows,     \* client -> the users in the list of its editor, once what is
             \* under way to it has arrived
  server,    \* "up", or "fallen" over a pointer that is null
  acts,      \* client -> how much its users still do
  \* history
  conforms,  \* every message sent was one the other side takes
  swept,     \* client -> the windows a notice replaced while they were frozen
  past       \* client -> what has happened to it that may explain its state

manager == <<entry, open, inFile>>
store   == <<sessions, rows, members, accounts, born>>
history == <<swept, past>>
vars == <<gui, down, manager, store, knows, server, acts, conforms, history>>

Windows == {"Connect", "Login", "Registration", "Edit", "Browser", "Editor"}

\* What GuiManager and User start with.
Started ==
  [ended |-> "no", conn |-> "none", timer |-> FALSE, win |-> "Connect", frozen |-> {},
   logged |-> FALSE, token |-> 0,
   fileOpen |-> FALSE, fileId |-> NoFile, shown |-> NoFile, listed |-> {}]

Init ==
  /\ \E s \in Starts :
       /\ accounts = s.accounts /\ rows = s.rows /\ born = s.born /\ acts = s.acts
       /\ gui = [c \in Clients |->
            IF c \in s.greeted THEN [Started EXCEPT !.conn = "made", !.win = "Login"] ELSE Started]
  /\ down = [c \in Clients |-> << >>]
  /\ entry = [c \in Clients |-> 0] /\ open = [c \in Clients |-> NoFile]
  /\ inFile = [f \in Files |-> {}] /\ sessions = << >>
  /\ members = [f \in Files |-> {}]
  /\ server = "up"
  /\ knows = [c \in Clients |-> {}]
  /\ conforms = TRUE /\ swept = [c \in Clients |-> {}] /\ past = [c \in Clients |-> {}]
-----------------------------------------------------------------------------
\* GuiManager::freezeWindow, unfreezeWindow and showWindow.
Freeze(g) == [g EXCEPT !.frozen = @ \cup {g.win}]
Unfreeze(g) == [g EXCEPT !.frozen = @ \ {g.win}]
Show(g, w) == [g EXCEPT !.win = w]

\* An exception in a slot, which nothing catches, or the slot connectionLost:
\* nothing is left of what the process held.
Ended(why) == [Started EXCEPT !.ended = why]

\* User::openFile and closeFile, and the login and logout of User.
OpenFile(g, f) == [g EXCEPT !.fileOpen = TRUE, !.shown = f]
CloseFile(g) == [g EXCEPT !.fileOpen = FALSE]
LogIn(g, token) == [g EXCEPT !.logged = TRUE, !.token = token]
LogOut(g) == [g EXCEPT !.logged = FALSE]

Running(c) == gui[c].ended = "no"

\* Nothing is done any more with what is under way to it.
Ends(c, why) ==
  /\ gui' = [gui EXCEPT ![c] = Ended(why)]
  /\ down' = [down EXCEPT ![c] = << >>]

\* A user does something at a window that is shown and not frozen.
At(c, w) ==
  /\ server = "up" /\ Running(c) /\ gui[c].conn = "made"
  /\ gui[c].win = w /\ w \notin gui[c].frozen
  /\ acts[c] > 0
  /\ acts' = [acts EXCEPT ![c] = @ - 1]

\* The slots that ask for the token at a window of a user who is logged in.
LoggedAt(c, w) == At(c, w) /\ gui[c].logged
-----------------------------------------------------------------------------
\* Messages to a client: the handler that takes them, with the file they are
\* about, the session they carry or the users they name.
Msg(kind, f) == [kind |-> kind, file |-> f, session |-> 0, users |-> {}]
Bare(kind) == Msg(kind, NoFile)
Fault == Bare("ERROR")
Stranger == Bare("STRANGER")

Holds(c) == gui[c].token
Valid(token) == token # 0 /\ sessions[token].active
UserOf(c) == sessions[Holds(c)].user

\* FSElement_db::get with the session of the request's token. No row has the id
\* that User starts with.
Reaches(c, f) == Valid(Holds(c)) /\ f # NoFile /\ UserOf(c) \in rows[f]

\* Every message a request can lead to is one the other side takes. What would
\* follow otherwise, the end of the connection, is not modelled.
Conform(type, action) ==
  /\ \A q \in QueriesOf(type, action) : Dispatched(q) /\ Readable(q)
  /\ \A m \in AnswersOf(type, action) \cup NoticesOf(type, action) \cup {Error} : Understood(m)

Conforming == UNION {{<<type, action>> : action \in {a \in DOMAIN Queries[type] : Conform(type, a)}} :
                       type \in DOMAIN Queries}

Sends(requests) == conforms' = (conforms /\ requests \subseteq Conforming)

\* The client c is sent answers, the clients S that run are sent m.
Delivers(c, answers, S, m) ==
  down' = [k \in Clients |->
    IF k = c THEN down[k] \o answers
    ELSE IF k \in S /\ Running(k) THEN Append(down[k], m) ELSE down[k]]

\* The client c becomes g and is sent answers.
Asks(c, type, action, g, answers) ==
  /\ Sends({<<type, action>>})
  /\ gui' = [gui EXCEPT ![c] = g]
  /\ Delivers(c, answers, {}, Fault)

\* getDir and getPath, which the browser sends together. Their answers change
\* only what the browser lists, and are taken to be there at once: the list is
\* out of date in any case, as nobody is told of a change.
Refresh(g) ==
  IF Valid(g.token)
  THEN [g EXCEPT !.listed = {f \in Files : sessions[g.token].user \in rows[f]}]
  ELSE g
Refused(g) == IF Valid(g.token) THEN << >> ELSE <<Fault, Fault>>
-----------------------------------------------------------------------------
\* openConnection: the timer is started with the attempt.
Connect(c) ==
  /\ Running(c) /\ gui[c].win = "Connect" /\ "Connect" \notin gui[c].frozen
  /\ gui[c].conn = "none" /\ ~ gui[c].timer
  /\ gui' = [gui EXCEPT ![c] = [Freeze(@) EXCEPT !.conn = "opening", !.timer = TRUE]]
  /\ UNCHANGED <<down, manager, store, knows, server, acts, conforms, history>>

\* The socket is connected; its signal is queued for the thread of the windows.
SocketConnected(c) ==
  /\ Running(c) /\ gui[c].conn = "opening" /\ server = "up"
  /\ gui' = [gui EXCEPT ![c].conn = "open"]
  /\ UNCHANGED <<down, manager, store, knows, server, acts, conforms, history>>

\* connected. If the socket was aborted meanwhile, disconnected is queued behind.
\* A timer that goes off afterwards does nothing and is left out.
Connected(c) ==
  /\ Running(c) /\ gui[c].conn \in {"open", "aborted"}
  /\ gui' = [gui EXCEPT ![c] =
       IF @.conn = "open"
       THEN [Show(Unfreeze(@), "Login") EXCEPT !.conn = "made", !.timer = FALSE]
       ELSE Ended("lost")]
  /\ UNCHANGED <<down, manager, store, knows, server, acts, conforms, history>>

\* checkConnection, when the timer goes off before: abort of a socket that is
\* connected emits disconnected.
CheckConnection(c) ==
  /\ Running(c) /\ gui[c].timer
  /\ gui' = [gui EXCEPT ![c] =
       [Show(Unfreeze(@), "Connect") EXCEPT !.timer = FALSE,
          !.conn = IF gui[c].conn = "open" THEN "aborted" ELSE "none"]]
  /\ past' = [past EXCEPT ![c] = IF gui[c].conn = "open" THEN @ \cup {"raced"} ELSE @]
  /\ UNCHANGED <<down, manager, store, knows, server, acts, conforms, swept>>

\* The server is gone: connectionLost.
ConnectionLost(c) ==
  /\ server = "fallen" /\ Running(c) /\ gui[c].conn = "made"
  /\ Ends(c, "lost")
  /\ UNCHANGED <<manager, store, knows, server, acts, conforms, history>>

\* The user closes the window.
Quit(c) ==
  /\ Running(c) /\ acts[c] > 0 /\ acts' = [acts EXCEPT ![c] = @ - 1]
  /\ Ends(c, "quit")
  /\ UNCHANGED <<manager, store, knows, server, conforms, history>>
-----------------------------------------------------------------------------
\* Slips: the session stays active; the client stays in the list of its file.
SignOff_KeepsSession(c) ==
  /\ inFile' = [f \in Files |-> IF open[c] = f THEN inFile[f] \ {c} ELSE inFile[f]]
  /\ open' = [open EXCEPT ![c] = NoFile] /\ entry' = [entry EXCEPT ![c] = 0]
  /\ UNCHANGED sessions

SignOff_StaysInFile(c) ==
  /\ open' = [open EXCEPT ![c] = NoFile] /\ entry' = [entry EXCEPT ![c] = 0]
  /\ sessions' = IF entry[c] = 0 THEN sessions ELSE [sessions EXCEPT ![entry[c]].active = FALSE]
  /\ UNCHANGED inFile

\* Those USER_DISCONNECTED goes to, without asking whether they have an entry.
Left(c) == IF open[c] = NoFile THEN {} ELSE inFile[open[c]] \ {c}

\* clientDisconnected: the client leaves its file, its session is closed.
SignOff(c) ==
  /\ inFile' = [f \in Files |-> IF open[c] = f THEN inFile[f] \ {c} ELSE inFile[f]]
  /\ open' = [open EXCEPT ![c] = NoFile]
  /\ entry' = [entry EXCEPT ![c] = 0]
  /\ sessions' = IF entry[c] = 0 THEN sessions ELSE [sessions EXCEPT ![entry[c]].active = FALSE]

\* The loop over getClientsInFile: getUserId reads through the session of an
\* entry that may be gone, getIdForUser throws for a user without a row.
Others(c, f) == inFile[f] \ {c}
Ghosts(c, f) == {k \in Others(c, f) : entry[k] = 0}
Foreign(c, f) == {k \in Others(c, f) : entry[k] # 0 /\ sessions[entry[k]].user \notin rows[f]}

Relayed(c, f) ==
  IF Ghosts(c, f) = {} /\ Foreign(c, f) = {} THEN {"done"}
  ELSE {r \in {"fallen", "refused"} :
          \/ r = "fallen" /\ Ghosts(c, f) # {}
          \/ r = "refused" /\ Foreign(c, f) # {}}

\* Whom the loop that ends as r may have reached: those before the one it ends at.
Told(c, f, r) ==
  IF r = "done" THEN {Others(c, f)} ELSE SUBSET (Others(c, f) \ (Ghosts(c, f) \cup Foreign(c, f)))

\* The clients of S whose editors do not list the user u. One that is sent
\* something of u, or that u has left the file, ends over it.
NotListing(u, S) == {k \in S : u \notin knows[k]}

\* The client c becomes g; the loop ends as r, those of S have been sent m; ok are
\* the answers if it is done.
Relays(c, type, action, g, r, ok, S, m) ==
  /\ Sends({<<type, action>>})
  /\ gui' = [gui EXCEPT ![c] = g]
  /\ Delivers(c, CASE r = "done" -> ok [] r = "refused" -> <<Fault>> [] r = "fallen" -> << >>, S, m)
  /\ server' = IF r = "fallen" THEN "fallen" ELSE server
-----------------------------------------------------------------------------
Opening == {"GET", "NEW_FILE", "ACTIVATE_LINK"}
Awaits(c, kinds) == \E i \in DOMAIN down[c] : down[c][i].kind \in kinds

\* The answer that opens f names the users of the File, who are in the list of
\* the editor that shows it. USER_CONNECTED names the one who has entered.
Answering(kind, c, f) == [Msg(kind, f) EXCEPT !.users = members[f] \ {UserOf(c)}]
Joined(c) == [Bare("JOINED") EXCEPT !.users = {UserOf(c)}]

\* Slip: userConnected does not add the user to the list.
Enter_NotListed(c, f, r, T) ==
  LET us == members[f] \cup {UserOf(c)}
  IN  /\ open' = [open EXCEPT ![c] = f]
      /\ inFile' = [inFile EXCEPT ![f] = @ \cup {c}]
      /\ members' = [members EXCEPT ![f] = us]
      /\ knows' = IF r = "done" THEN [knows EXCEPT ![c] = us] ELSE knows

\* MessageManager: getFile adds the client to the file and its user to the map.
\* Then those of T are sent USER_CONNECTED; the client itself is sent the file if
\* the loop is done.
Enter(c, f, r, T) ==
  LET us == members[f] \cup {UserOf(c)}
  IN  /\ open' = [open EXCEPT ![c] = f]
      /\ inFile' = [inFile EXCEPT ![f] = @ \cup {c}]
      /\ members' = [members EXCEPT ![f] = us]
      /\ knows' = [k \in Clients |->
           IF k = c /\ r = "done" THEN us
           ELSE IF k \in T THEN knows[k] \cup {UserOf(c)} ELSE knows[k]]

\* A client enters a file while the icons of users of another are asked for, or
\* will be.
Switching(c) == IF Awaits(c, Opening \cup {"JOINED"}) THEN {"switched"} ELSE {}

\* getFile and activateLink: the client c becomes g and is in the file f.
Enters(c, f, action, g) ==
  \E r \in Relayed(c, f) : \E T \in Told(c, f, r) :
    /\ Relays(c, "FILE", action, g, r, <<Answering(action, c, f)>>, T, Joined(c))
    /\ Enter(c, f, r, T)
-----------------------------------------------------------------------------
\* Login and registration.
NewSession(u) == Append(sessions, [user |-> u, active |-> TRUE])
Answer(kind) == [Bare(kind) EXCEPT !.session = Len(sessions) + 1]
SignedIn(u) == \E k \in Clients : entry[k] # 0 /\ sessions[entry[k]].user = u

\* loginLogin with User::login and addClient. The session of a client that is
\* refused is closed again and left out here.
Login(c, u) ==
  /\ At(c, "Login") /\ u \in SignsAs[c]
  /\ IF u \notin accounts \/ entry[c] # 0 \/ SignedIn(u)
     THEN /\ Asks(c, "USER", "LOGIN", Freeze(gui[c]), <<Fault>>)
          /\ UNCHANGED <<entry, sessions>>
     ELSE /\ Asks(c, "USER", "LOGIN", Freeze(gui[c]), <<Answer("LOGIN")>>)
          /\ entry' = [entry EXCEPT ![c] = Len(sessions) + 1]
          /\ sessions' = NewSession(u)
  /\ UNCHANGED <<open, inFile, rows, members, accounts, born, knows, server, history>>

\* loginSignup, registrationCancel, docsBrowserEditAccount and editCancel.
Turn(c, from, to) ==
  /\ At(c, from) /\ gui' = [gui EXCEPT ![c] = Show(@, to)]
  /\ UNCHANGED <<down, manager, store, knows, server, conforms, history>>

GoRegister(c)  == Turn(c, "Login", "Registration")
Cancel(c)      == Turn(c, "Registration", "Login")
EditAccount(c) == Turn(c, "Browser", "Edit")
EditCancel(c)  == Turn(c, "Edit", "Browser")

\* registrationSignup with newUser: the exception of addClient leaves the user
\* and the session. The name of an account that was deleted is not used again.
Signup(c, u) ==
  /\ At(c, "Registration") /\ u \in SignsAs[c]
  /\ LET g == Freeze(gui[c])
     IN  IF u \in accounts
         THEN /\ Asks(c, "USER", "NEW_USER", g, <<Fault>>)
              /\ UNCHANGED <<entry, sessions, accounts, past>>
         ELSE /\ \A i \in DOMAIN sessions : sessions[i].user # u
              /\ Asks(c, "USER", "NEW_USER", g, IF entry[c] # 0 THEN <<Fault>> ELSE <<Answer("LOGIN")>>)
              /\ accounts' = accounts \cup {u} /\ sessions' = NewSession(u)
              /\ entry' = IF entry[c] # 0 THEN entry ELSE [entry EXCEPT ![c] = Len(sessions) + 1]
              /\ past' = IF entry[c] # 0 THEN [past EXCEPT ![c] = @ \cup {"doubled"}] ELSE past
  /\ UNCHANGED <<open, inFile, rows, members, born, knows, server, swept>>

\* docsBrowserLogout and textEditorLogout.
Logout(c) ==
  /\ \E w \in {"Browser", "Editor"} : LoggedAt(c, w)
  /\ LET g == Show(LogOut(gui[c]), "Login")
     IN  IF Valid(Holds(c))
         THEN /\ Relays(c, "USER", "LOGOUT", g, "done", << >>, NotListing(UserOf(c), Left(c)), Stranger)
              /\ SignOff(c)
         ELSE /\ Asks(c, "USER", "LOGOUT", g, <<Fault>>)
              /\ UNCHANGED <<entry, open, inFile, sessions, server>>
  /\ past' = IF down[c] = << >> THEN past ELSE [past EXCEPT ![c] = @ \cup {"late"}]
  /\ UNCHANGED <<rows, members, accounts, born, knows, swept>>

\* editSave: editUser with a password that is right. Its answer shows the
\* browser, over a file that has come meanwhile.
EditSave(c) ==
  /\ LoggedAt(c, "Edit")
  /\ Asks(c, "USER", "EDIT", Freeze(gui[c]), IF Valid(Holds(c)) THEN <<Bare("EDIT_USER")>> ELSE <<Fault>>)
  /\ past' = IF Awaits(c, Opening) THEN [past EXCEPT ![c] = @ \cup {"covered"}] ELSE past
  /\ UNCHANGED <<manager, store, knows, server, swept>>

\* editDelete: deleteUser removes the entry and nothing else that names the
\* client.
DeleteAccount(c) ==
  /\ LoggedAt(c, "Edit")
  /\ IF Valid(Holds(c)) /\ entry[c] # 0
     THEN /\ Asks(c, "USER", "DELETE", Freeze(gui[c]), <<Bare("DELETE_USER")>>)
          /\ entry' = [entry EXCEPT ![c] = 0] /\ open' = [open EXCEPT ![c] = NoFile]
          /\ sessions' = [sessions EXCEPT ![Holds(c)].active = FALSE]
          /\ accounts' = accounts \ {UserOf(c)}
          /\ past' = IF open[c] = NoFile THEN past ELSE [past EXCEPT ![c] = @ \cup {"haunting"}]
     ELSE /\ Asks(c, "USER", "DELETE", Freeze(gui[c]), <<Fault>>)
          /\ UNCHANGED <<entry, open, sessions, accounts, past>>
  /\ UNCHANGED <<inFile, rows, members, born, knows, server, swept>>
-----------------------------------------------------------------------------
\* The browser.
\* docsBrowserNewFile: an element without a name yet in use; of the two ids
\* that an element has only one is kept here.
NewFile(c, f) ==
  /\ LoggedAt(c, "Browser")
  /\ IF ~ Valid(Holds(c))
     THEN Asks(c, "FILE", "NEW_FILE", Freeze(gui[c]), <<Fault>>)
          /\ UNCHANGED <<open, inFile, members, rows, born, knows, past>>
     ELSE /\ UserOf(c) = Owner[f] /\ f \notin born /\ born' = born \cup {f}
          /\ rows' = [rows EXCEPT ![f] = {UserOf(c)}]
          /\ IF open[c] # NoFile
             THEN /\ Asks(c, "FILE", "NEW_FILE", Freeze(gui[c]), <<Fault>>)
                  /\ UNCHANGED <<open, inFile, members, knows, past>>
             ELSE /\ Asks(c, "FILE", "NEW_FILE", Freeze(gui[c]), <<Msg("NEW_FILE", f)>>)
                  /\ Enter(c, f, "done", {})
                  /\ past' = [past EXCEPT ![c] = @ \cup Switching(c)]
  /\ UNCHANGED <<entry, sessions, accounts, server, swept>>

\* _openFile and docsBrowserGetFile, with getFile.
Open(c, f) ==
  /\ LoggedAt(c, "Browser") /\ f \in gui[c].listed
  /\ LET g == [Freeze(gui[c]) EXCEPT !.fileId = f]
         enters == Reaches(c, f) /\ entry[c] # 0 /\ open[c] = NoFile
     IN  /\ IF enters THEN Enters(c, f, "GET", g)
            ELSE /\ Asks(c, "FILE", "GET", g, <<Fault>>)
                 /\ UNCHANGED <<open, inFile, members, knows, server>>
         /\ past' = [past EXCEPT ![c] = @ \cup (IF Awaits(c, Opening) THEN {"crossed"} ELSE {})
                                         \cup (IF enters THEN Switching(c) ELSE {})]
  /\ UNCHANGED <<entry, sessions, rows, accounts, born, swept>>

\* docsBrowserActivateLink with the token of another user's file: link throws
\* if the user has it already; if getFile throws behind it, the link stays.
ActivateLink(c, f) ==
  /\ LoggedAt(c, "Browser") /\ rows[f] # {}
  /\ LET new  == Valid(Holds(c)) /\ UserOf(c) \notin rows[f]
         free == entry[c] # 0 /\ open[c] = NoFile
     IN  /\ rows' = IF new THEN [rows EXCEPT ![f] = @ \cup {UserOf(c)}] ELSE rows
         /\ past' = [past EXCEPT ![c] = @ \cup (IF ~ new THEN {} ELSE IF free THEN Switching(c)
                                               ELSE {"linked"})]
         /\ IF new /\ free
            THEN Enters(c, f, "ACTIVATE_LINK", Freeze(gui[c]))
            ELSE /\ Asks(c, "FILE", "ACTIVATE_LINK", Freeze(gui[c]), <<Fault>>)
                 /\ UNCHANGED <<open, inFile, members, knows, server>>
  /\ UNCHANGED <<entry, sessions, accounts, born, swept>>

\* Requests that leave the browser as it is, and whose answer refreshes it: to
\* make a folder, to rename or move an element other than a file. Those whose
\* answer only fills a list are sent along.
Alters == {<<"FILE", "EDIT">>, <<"FILESYSTEM", "NEW_DIR">>, <<"FILESYSTEM", "GET_DIR">>,
           <<"FILESYSTEM", "GET_PATH">>, <<"FILESYSTEM", "SEARCH">>}

Alter(c) ==
  /\ LoggedAt(c, "Browser") /\ Sends(Alters) /\ gui' = gui
  /\ \E f \in gui[c].listed :
       Delivers(c, IF Reaches(c, f) THEN <<Bare("REFRESH")>> ELSE <<Fault>>, {}, Fault)
  /\ UNCHANGED <<manager, store, knows, server, history>>

GetAllDirs(c) ==
  /\ LoggedAt(c, "Browser") /\ gui[c].listed # {}
  /\ Asks(c, "FILESYSTEM", "GET_ALL_DIRS", gui[c],
          IF Valid(Holds(c)) THEN <<Bare("ALL_DIRS")>> ELSE <<Fault>>)
  /\ UNCHANGED <<manager, store, knows, server, history>>

\* Info of an element, and Share, which asks for the file last opened.
Dialog(c, action, f) ==
  /\ Asks(c, "FILE", action, Freeze(gui[c]), IF Reaches(c, f) THEN <<Bare("DIALOG")>> ELSE <<Fault>>)
  /\ UNCHANGED <<manager, store, knows, server, history>>

BrowserInfo(c, f) ==
  LoggedAt(c, "Browser") /\ f \in gui[c].listed /\ Dialog(c, "FILE_INFO", f)

BrowserShare(c) ==
  /\ LoggedAt(c, "Browser") /\ gui[c].listed # {}
  /\ \/ gui[c].fileOpen /\ Dialog(c, "GET_LINK", gui[c].fileId)
     \/ /\ ~ gui[c].fileOpen /\ Ends(c, "noFile")
        /\ UNCHANGED <<manager, store, knows, server, conforms, history>>

EditorInquiry(c) ==
  LoggedAt(c, "Editor") /\ \E a \in {"FILE_INFO", "GET_LINK"} : Dialog(c, a, gui[c].fileId)
-----------------------------------------------------------------------------
\* closeFile with deleted, the removal of the element, and delete_lambda for
\* each link of a file that its owner removes.
Remove(c, f, g) ==
  /\ gui' = [gui EXCEPT ![c] = g] /\ Sends({<<"FILE", "DELETE">>})
  /\ IF Reaches(c, f) /\ entry[c] # 0
     THEN LET u       == UserOf(c)
              leaves  == open[c] = f
              linkers == IF u = Owner[f] THEN rows[f] \ {u} ELSE {}
              told    == {k \in Clients : entry[k] # 0 /\ sessions[entry[k]].user \in linkers}
          IN  /\ rows' = [rows EXCEPT ![f] = IF u = Owner[f] THEN {} ELSE @ \ {u}]
              /\ inFile' = [inFile EXCEPT ![f] = IF leaves THEN @ \ {c} ELSE @]
              /\ members' = [members EXCEPT ![f] = IF leaves THEN @ \ {u} ELSE @]
              /\ open' = [k \in Clients |->
                   IF (k = c /\ leaves) \/ (k \in inFile[f] /\ linkers # {}) THEN NoFile ELSE open[k]]
              /\ Delivers(c, <<Bare("DELETE_FILE")>>, told, Bare("FILE_DELETED"))
     ELSE /\ Delivers(c, <<Fault>>, {}, Fault)
          /\ UNCHANGED <<rows, inFile, members, open>>
  /\ UNCHANGED <<entry, sessions, accounts, born, knows, server, history>>

\* deleteDir removes the rows of the files and links below a folder, S of them, and
\* calls closeFile for none. The files of the user's own go as above, with a
\* notice for each link. A folder of the list may be gone already.
DeleteDir(c) ==
  /\ LoggedAt(c, "Browser")
  /\ \/ Asks(c, "FILESYSTEM", "DELETE_DIR", gui[c], <<Fault>>) /\ UNCHANGED <<rows, open, past>>
     \/ \E S \in SUBSET {f \in Files : Reaches(c, f)} :
          LET u          == UserOf(c)
              shared     == {f \in S : u = Owner[f] /\ rows[f] # {u}}
              lost(k)    == {f \in shared : entry[k] # 0 /\ sessions[entry[k]].user \in rows[f]}
              notices(k) == [i \in 1 .. Cardinality(lost(k)) |-> Bare("FILE_DELETED")]
          IN  /\ Valid(Holds(c)) /\ Sends({<<"FILESYSTEM", "DELETE_DIR">>}) /\ gui' = gui
              /\ rows' = [f \in Files |-> IF f \notin S THEN rows[f]
                                          ELSE IF u = Owner[f] THEN {} ELSE rows[f] \ {u}]
              /\ open' = [k \in Clients |->
                            IF \E f \in shared : k \in inFile[f] THEN NoFile ELSE open[k]]
              /\ down' = [k \in Clients |->
                            IF k = c THEN Append(down[k], Bare("REFRESH"))
                            ELSE IF Running(k) THEN down[k] \o notices(k) ELSE down[k]]
              /\ past' = IF open'[c] \in S THEN [past EXCEPT ![c] = @ \cup {"strayed"}] ELSE past
  /\ UNCHANGED <<entry, inFile, sessions, members, accounts, born, knows, server, swept>>

DeleteFile(c, f) == LoggedAt(c, "Browser") /\ f \in gui[c].listed /\ Remove(c, f, gui[c])
EditorRemove(c) == LoggedAt(c, "Editor") /\ Remove(c, gui[c].fileId, Freeze(gui[c]))

EditorRename(c) ==
  /\ LoggedAt(c, "Editor")
  /\ Asks(c, "FILE", "EDIT", gui[c], IF Reaches(c, gui[c].fileId) THEN <<Bare("REFRESH")>> ELSE <<Fault>>)
  /\ UNCHANGED <<manager, store, knows, server, history>>

\* closeFile: the others are told that the user of c has left.
Leaves(c, f, g) ==
  \E r \in Relayed(c, f) : \E T \in Told(c, f, r) :
    Relays(c, "FILE", "CLOSE", g, r, << >>, NotListing(UserOf(c), T), Stranger)

\* Slip: closeFile takes the client out of the list only.
EditorClose_KeepsOpen(c) ==
  /\ LoggedAt(c, "Editor")
  /\ LET f == gui[c].fileId
     IN  /\ Reaches(c, f) /\ open[c] = f
         /\ Leaves(c, f, Show(gui[c], "Browser"))
         /\ inFile' = [inFile EXCEPT ![f] = @ \ {c}]
  /\ UNCHANGED <<entry, open, store, knows, history>>

\* textEditorClose: the browser is shown, the file stays open in User.
EditorClose(c) ==
  /\ LoggedAt(c, "Editor")
  /\ LET f == gui[c].fileId
         g == Show(gui[c], "Browser")
     IN  IF Reaches(c, f) /\ entry[c] # 0 /\ open[c] = f
         THEN /\ Leaves(c, f, g)
              /\ inFile' = [inFile EXCEPT ![f] = @ \ {c}] /\ open' = [open EXCEPT ![c] = NoFile]
         ELSE /\ Asks(c, "FILE", "CLOSE", g, <<Fault>>)
              /\ UNCHANGED <<inFile, open, server>>
  /\ UNCHANGED <<entry, store, knows, history>>

\* The others of the file are passed on an edit, a comment or a move of the
\* cursor.
PassOn(c, f) ==
  \E r \in Relayed(c, f) : \E T \in Told(c, f, r) :
    /\ server' = IF r = "fallen" THEN "fallen" ELSE server
    /\ Delivers(c, IF r = "refused" THEN <<Fault>> ELSE << >>, NotListing(UserOf(c), T), Stranger)

Edits == {<<"FILE_EDIT", action>> : action \in DOMAIN EditQueries}
         \cup {<<"COMMENT", action>> : action \in DOMAIN CommentQueries}

\* A request of the editor about its file f, that the server takes if taken.
Types(c, f, taken) ==
  /\ Sends(Edits) /\ gui' = gui
  /\ IF taken THEN PassOn(c, f) ELSE Delivers(c, <<Fault>>, {}, Fault) /\ UNCHANGED server
  /\ UNCHANGED <<manager, store, knows, history>>

\* localInsert, localDelete, localUpdate and the comments.
EditorEdit(c) ==
  LET f == gui[c].fileId
  IN  LoggedAt(c, "Editor") /\ Types(c, f, Reaches(c, f) /\ entry[c] # 0 /\ open[c] = f)

\* localMove does not ask whether the client has opened the file.
EditorMove(c) ==
  LoggedAt(c, "Editor") /\ Types(c, gui[c].fileId, Reaches(c, gui[c].fileId))

\* Any of these slots at a window of a user who is not logged in: getToken.
ActUnlogged(c) ==
  /\ \E w \in {"Browser", "Edit", "Editor"} : At(c, w)
  /\ ~ gui[c].logged /\ Ends(c, "notLogged")
  /\ UNCHANGED <<manager, store, knows, server, conforms, history>>
-----------------------------------------------------------------------------
\* The slots of GuiManager for the messages of the server. When the server has
\* fallen what is still under way is left out: the client ends in any case.
Arrives(c, kinds) ==
  /\ server = "up" /\ Running(c) /\ down[c] # << >> /\ Head(down[c]).kind \in kinds

\* The client becomes g, and asks for a listing if the slot refreshes the
\* browser; a slot that needs the token ends a client that is not logged in.
Becomes(c, g, needsToken, refreshes) ==
  /\ IF needsToken /\ ~ g.logged THEN Ends(c, "notLogged")
     ELSE /\ gui' = [gui EXCEPT ![c] = IF refreshes THEN Refresh(g) ELSE g]
          /\ down' = [down EXCEPT ![c] = Tail(@) \o (IF refreshes THEN Refused(g) ELSE << >>)]
  /\ UNCHANGED <<manager, store, knows, server, acts, conforms>>

\* The editor asks for the icons of the users that the message names. By the time
\* the answers arrive its list is what knows says; one for a user who is not in
\* it ends the client.
Icons(c) ==
  IF Head(down[c]).users \subseteq knows[c] THEN << >> ELSE <<Bare("ICON")>>

Displays(c, g, refreshes) ==
  /\ Sends({<<"USER", "GET_USER_ICON">>})
  /\ IF ~ g.logged THEN Ends(c, "notLogged")
     ELSE /\ gui' = [gui EXCEPT ![c] = IF refreshes THEN Refresh(g) ELSE g]
          /\ down' = [down EXCEPT ![c] = Tail(@) \o (IF refreshes THEN Refused(g) ELSE << >>) \o Icons(c)]
  /\ UNCHANGED <<manager, store, knows, server, acts, history>>

Opened(c) == Show(Unfreeze(OpenFile(gui[c], Head(down[c]).file)), "Editor")

\* serverErrorResponse, serverGetLinkResponse, serverFileInfoResponse: the
\* window that is released is the one that is shown.
ServerRelease(c) ==
  Arrives(c, {"ERROR", "DIALOG"}) /\ Becomes(c, Unfreeze(gui[c]), FALSE, FALSE) /\ UNCHANGED history

\* serverLoginResponse and serverNewUserResponse.
ServerLogin(c) ==
  /\ Arrives(c, {"LOGIN"})
  /\ Becomes(c, Show(Unfreeze(LogIn(gui[c], Head(down[c]).session)), "Browser"), TRUE, TRUE)
  /\ UNCHANGED history

\* Slip: the window is left without unfreezeWindow.
ServerEditUser_Frozen(c) ==
  /\ Arrives(c, {"EDIT_USER"}) /\ Becomes(c, Show(gui[c], "Browser"), FALSE, FALSE)
  /\ UNCHANGED history

ServerEditUser(c) ==
  /\ Arrives(c, {"EDIT_USER"}) /\ Becomes(c, Show(Unfreeze(gui[c]), "Browser"), FALSE, FALSE)
  /\ UNCHANGED history

\* serverDeleteUserResponse: User is not logged out.
ServerDeleteUser(c) ==
  /\ Arrives(c, {"DELETE_USER"}) /\ Becomes(c, Show(Unfreeze(gui[c]), "Login"), FALSE, FALSE)
  /\ UNCHANGED history

\* Slip: openFile without the id, as for a file that was clicked.
ServerNewFile_NoId(c) ==
  Arrives(c, {"NEW_FILE", "ACTIVATE_LINK"}) /\ Displays(c, Opened(c), TRUE)

\* serverNewFileResponse and serverActivateLinkResponse.
ServerNewFile(c) ==
  /\ Arrives(c, {"NEW_FILE", "ACTIVATE_LINK"})
  /\ Displays(c, [Opened(c) EXCEPT !.fileId = Head(down[c]).file], TRUE)

\* serverGetFileResponse: the id of the file is the one _openFile has set.
ServerGetFile(c) == Arrives(c, {"GET"}) /\ Displays(c, Opened(c), FALSE)

\* userConnected, which needs no token. An editor that has shown no file yet has
\* no File to add the user to.
ServerJoined(c) ==
  /\ Arrives(c, {"JOINED"})
  /\ IF gui[c].shown = NoFile THEN Ends(c, "stranger") /\ UNCHANGED conforms
     ELSE /\ Sends({<<"USER", "GET_USER_ICON">>}) /\ gui' = gui
          /\ down' = [down EXCEPT ![c] = Tail(@) \o Icons(c)]
  /\ UNCHANGED <<manager, store, knows, server, acts, history>>

\* setUserIcon, for a user who is not in the list.
ServerIcon(c) ==
  /\ Arrives(c, {"ICON"}) /\ Ends(c, "icon")
  /\ UNCHANGED <<manager, store, knows, server, acts, conforms, history>>

\* serverDeletedFileResponse, whichever file it is and whatever is shown.
ServerDeletedFile(c) ==
  /\ Arrives(c, {"FILE_DELETED"})
  /\ Becomes(c, Show(CloseFile(gui[c]), "Browser"), TRUE, TRUE)
  /\ swept' = [swept EXCEPT ![c] = @ \cup (gui[c].frozen \cap {gui[c].win})]
  /\ past' = [past EXCEPT ![c] = @ \cup {"returned"}]

ServerDeleteFile(c) ==
  /\ Arrives(c, {"DELETE_FILE"})
  /\ Becomes(c, Show(Unfreeze(CloseFile(gui[c])), "Browser"), TRUE, TRUE)
  /\ past' = IF open[c] = NoFile THEN past ELSE [past EXCEPT ![c] = @ \cup {"returned"}]
  /\ UNCHANGED swept

\* docBrowserNeedsRefresh, serverDeleteDirResponse, serverNewDirResponse.
ServerRefresh(c) ==
  Arrives(c, {"REFRESH"}) /\ Becomes(c, gui[c], TRUE, TRUE) /\ UNCHANGED history

\* getAllDirsResponse opens the dialog: the user cancels, or moves the element
\* of the menu, with a token that is asked for only then.
ServerGetAllDirs(c) ==
  /\ Arrives(c, {"ALL_DIRS"})
  /\ \/ Becomes(c, gui[c], FALSE, FALSE)
     \/ ~ gui[c].logged /\ Becomes(c, gui[c], TRUE, FALSE)
     \/ /\ gui[c].logged /\ Sends({<<"FILESYSTEM", "MOVE_FILE">>}) /\ gui' = gui
        /\ \E f \in gui[c].listed :
             down' = [down EXCEPT ![c] = Append(Tail(@), IF Reaches(c, f) THEN Bare("REFRESH") ELSE Fault)]
        /\ UNCHANGED <<manager, store, knows, server, acts>>
  /\ UNCHANGED history

\* remoteMove, remoteInsert, userDisconnected and the like, of a user who is not in the list.
ServerStranger(c) ==
  /\ Arrives(c, {"STRANGER"}) /\ Ends(c, "stranger")
  /\ UNCHANGED <<manager, store, knows, server, acts, conforms, history>>

\* The server notices that a client is gone.
Gone(c) ==
  /\ server = "up" /\ ~ Running(c) /\ entry[c] # 0 /\ SignOff(c)
  /\ Delivers(c, << >>, NotListing(sessions[entry[c]].user, Left(c)), Stranger)
  /\ UNCHANGED <<gui, rows, members, accounts, born, knows, server, acts, conforms, history>>

Sitting(c) ==
  \/ Connect(c) \/ Quit(c) \/ GoRegister(c) \/ Cancel(c) \/ EditAccount(c) \/ EditCancel(c)
  \/ \E u \in SignsAs[c] : Login(c, u) \/ Signup(c, u)
  \/ Logout(c) \/ EditSave(c) \/ DeleteAccount(c)
  \/ \E f \in Files : NewFile(c, f) \/ Open(c, f) \/ ActivateLink(c, f) \/ DeleteFile(c, f) \/ BrowserInfo(c, f)
  \/ Alter(c) \/ DeleteDir(c) \/ GetAllDirs(c) \/ BrowserShare(c)
  \/ EditorInquiry(c) \/ EditorRemove(c) \/ EditorRename(c) \/ EditorClose(c)
  \/ EditorEdit(c) \/ EditorMove(c) \/ ActUnlogged(c)

Receiving(c) ==
  \/ ServerRelease(c) \/ ServerLogin(c) \/ ServerEditUser(c) \/ ServerDeleteUser(c)
  \/ ServerNewFile(c) \/ ServerGetFile(c) \/ ServerDeletedFile(c) \/ ServerDeleteFile(c)
  \/ ServerRefresh(c) \/ ServerGetAllDirs(c) \/ ServerStranger(c)
  \/ ServerJoined(c) \/ ServerIcon(c)

Next == \E c \in Clients :
  \/ Sitting(c) \/ Receiving(c) \/ Gone(c)
  \/ SocketConnected(c) \/ Connected(c) \/ CheckConnection(c) \/ ConnectionLost(c)

Spec == Init /\ [][Next]_vars
-----------------------------------------------------------------------------
\* Whatever is asked and however it is answered, relayed or announced, each side
\* has a case for the message and finds in it the keys it reads: neither ends the
\* connection over a message (process_data on both sides).
NeverCutOff == conforms

Releasing == {"ERROR", "DIALOG", "LOGIN", "EDIT_USER", "DELETE_USER", "DELETE_FILE"} \cup Opening

\* A window stays frozen only while something that releases it is under way; only
\* the notice that a file was deleted leaves one frozen for good
\* (gui_manager.cpp:456, which shows the browser and unfreezes nothing).
FrozenMeansAwaited ==
  server = "up" => \A c \in Clients : Running(c) =>
    \A w \in gui[c].frozen \ swept[c] :
      /\ w = gui[c].win
      /\ IF w = "Connect" THEN gui[c].timer \/ gui[c].conn # "none" ELSE Awaits(c, Releasing)

\* The sessions that are active in the table are those of the entries of
\* _clients, of different users, unless a registration by a client that was
\* logged in has left one (newUser does not catch what addClient throws).
SessionsMatch ==
  /\ \/ {i \in DOMAIN sessions : sessions[i].active} = {entry[c] : c \in Clients} \ {0}
     \/ \E c \in Clients : "doubled" \in past[c]
  /\ \A c, k \in Clients : c # k /\ entry[c] # 0 /\ entry[k] # 0 =>
       sessions[entry[c]].user # sessions[entry[k]].user

\* What the editor asks the server about, by the id in User, is the file it shows,
\* unless another one was clicked while a file was on its way: then Delete,
\* Rename and Share of the editor are about a file the user does not see.
EditorNamesItsFile ==
  \A c \in Clients : Running(c) /\ gui[c].win = "Editor" =>
    gui[c].fileOpen /\ (gui[c].fileId = gui[c].shown \/ "crossed" \in past[c])

\* A file that the server keeps open for a client, which can then open no other,
\* is the one in its editor, unless the client was sent back to the browser: by a
\* deletion that was announced or answered late, or by the answer to a change of
\* the account that was made while the file was on its way; or unless another file
\* was clicked meanwhile, and the editor asked to close that one; or unless a client
\* left in the list of the file had the opening refused when it was done. Two ways
\* lead there: an account was removed with a file open, or a folder with the row of
\* a file that the server kept open for the user in the browser.
OpenIsShown ==
  server = "up" => \A c \in Clients :
    Running(c) /\ down[c] = << >> /\ open[c] # NoFile =>
       \/ gui[c].win = "Editor" /\ gui[c].shown = open[c]
       \/ past[c] \cap {"returned", "covered", "crossed"} # {}
       \/ \E k \in Clients : past[k] \cap {"haunting", "strayed"} # {}

\* The server falls over the session of a client that is gone only if an account
\* was deleted while the server kept a file open for it.
FallsOnlyToGhosts == server = "fallen" => \E c \in Clients : "haunting" \in past[c]

\* A client ends over the windows and the lists it shows (what an edit holds can end
\* it too: CoEdit, Markup) only for these causes: the server fell or the timer
\* aborted a connection that was made; something arrived after a logout; the icon of
\* a user of a file came after another file was shown; someone asked about another
\* file than the editor showed, or had been left in the list of a file, or in it
\* without its row, or had got a file by a link that did not open it.
EndsOnlyByCause ==
  \A c \in Clients :
    /\ gui[c].ended = "lost" => server = "fallen" \/ "raced" \in past[c]
    /\ gui[c].ended = "notLogged" => "late" \in past[c]
    /\ gui[c].ended = "icon" => "switched" \in past[c]
    /\ gui[c].ended = "stranger" =>
         \E k \in Clients : past[k] \cap {"crossed", "haunting", "linked", "strayed"} # {}

\* Violated. "If it had a file open, I remove it from _fileClients": a client
\* without an entry in _clients is in no list (clientDisconnected does so,
\* removeClient does not).
ListsAreAlive == \A f \in Files : \A c \in inFile[f] : entry[c] # 0
=============================================================================
