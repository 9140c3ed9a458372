# Shared Editor: verification project

TLA+ models of [Shared Editor](../src/README.md), an editor of rich text that
several users work on at once: a Qt client and a Qt server, in C++. The models
are checked with TLC on small instances; the theorems are proved with TLAPS for
every value of the constants. Paths are those of the repository, with `src/`
for `src/src/`; `Progetto del corso.pdf` is the requirements document in
`docs/`.

## The system

| component | state | operations | talks to |
|---|---|---|---|
| `File` (File.cpp, Symbol.cpp, Identifier.cpp, Paragraph.cpp) | the symbols of a document, sorted by position; its paragraphs, comments and the map of its users | local operations by index, remote ones by symbol id, store | used by the text editor of a client and by MessageManager |
| `TextEditor` (client/gui/texteditor) | a `File`, the map of the other users, the widget's text | turns the widget's changes into local operations and messages; applies remote operations | the client's MessageManager |
| `User`, `GuiManager` and the windows (client/gui: connect, login, registration, edit, docsbrowser, texteditor) | token, open file, counters `charId` and `commentId`; the window shown, and which windows are frozen while an answer is awaited; what the browser lists | one slot per button and per response or notice; the timer of a connection attempt | TextEditor, DocsBrowser, the client's MessageManager |
| client `MessageManager`, `ClientMessageProcessor`, `Server` (client) | the socket and the parser of its stream | one query per request; signals per response and notice | the server, by TCP |
| `Message`, `MessageProcessor` (both sides) | none | build, dispatch and read a message by its type, action, status and keys | both processors |
| `Client`, `ClientManager` (server) | a socket and a parser per connection, each in a thread of its own | send, read, the end of a connection | MessageManager, by queued signals |
| `MessageManager` (server) | `_clients` (the session and the open file of each), `_fileClients` (the clients in each file), `_openFiles` (a `FifoMap` of at most `MAX_OPEN_FILES` files) | login, getFile, closeFile, the edits, the end of a connection, quit | ServerMessageProcessor, DiskManager |
| `ServerMessageProcessor` (server) | none: one object per message | one handler per message; every exception becomes an ERROR message to the client | MessageManager, FSElement_db, Session, User |
| `DiskManager` (server) | a timer | stores every dirty file of `_openFiles` every 30 seconds and at quit | File |
| `FSElement_db`, `SharedLink` (server) | the rows of folders, files and links of every user; a file on disk per file; the `char_id` and `comment_id` of each row | create, clone, load, store, remove, mv, rename, share | the database, the disk |
| `Session`, `User` (server) | rows: tokens and whether they are active; the users | login, registration, changes | the database |

What is hard about it:

* *Interleaving.* Clients edit their own replica at once and send operations;
  the server applies them in the order they arrive and relays them. The handlers
  of the server run one after the other on its main thread (each `Client`
  object lives in a thread of its own and only queues signals), a connection
  keeps the order of its messages, and the order between connections is anybody's.
* *Failure.* A client may die with messages on the way; the server may be
  killed, also in the middle of a save; SIGTERM closes and saves. TCP cuts the
  stream of messages anywhere.
* *Shared bookkeeping.* Which client has which file open is kept in three maps,
  two of them without locks and one that drops entries on its own, and changed
  by a dozen handlers, which throw in the middle.
* *Exceptions.* A handler's exception becomes an ERROR message. One thrown from
  a timer, from the end of a connection or in a slot of the client ends the process.
* *Late answers.* A message of the server acts on the window that is shown when
  it arrives, which may not be the one that asked, of a user who may have logged
  out since.
* *Tables.* Requests, answers and notices are built, dispatched and read by
  tables written by hand on both sides; a message the other side does not know
  ends the connection.
* *Counts kept on the side.* The editor keeps a count of lines, a list of users
  and a position in the widget beside the `File`, and not every operation
  updates all of them.

## Modules

| module | what it is | extends |
|---|---|---|
| `Positions` | the order of identifiers and positions, `generateDigit`, `findPosition` as a recursive function | |
| `FindPosition` | `findPosition` as a machine, one step per call | `Positions` |
| `Document` | what `File` does to its symbols: `LocalInsert`, `RemoteInsert`, `RemoteDelete`, and the loops over a message | `Positions` |
| `DocumentProofs` | theorems about the function `findPosition`, lemmas about the lists and what the loops make of them | `Document` |
| `FindPositionProofs` | theorems about the machine | `FindPosition`, `DocumentProofs` |
| `CoEdit` | several clients edit one document through the server | `Document` |
| `CoEditProofs` | its theorems | `CoEdit`, `DocumentProofs` |
| `OpenFiles` | the server's maps of clients and files, the disk and its rows, and the windows of the clients | |
| `OpenFilesProofs` | its theorems | `OpenFiles` |
| `Framing` | frames and the parser of the stream | |
| `Fifo` | what framing promises; `Framing` implements it | |
| `FramingProofs` | its theorems | `Framing` |
| `FileSystem` | the rows of folders, files, links and tokens, and the data files | |
| `FileSystemProofs` | its theorems | `FileSystem` |
| `Wire` | the messages of the protocol: who sends which, with which keys, and what the other side makes of it | |
| `ClientView` | the windows and users of several clients, their sessions and entries at the server, and what is under way between them | `Wire` |
| `ClientViewProofs` | its theorems | `ClientView` |
| `Markup` | formats, paragraphs and comments of one file in several editors and on the server | |
| `MarkupProofs` | its theorems | `Markup` |
| `MCFindPosition`, `MCCoEdit`, `MCOpenFiles`, `MCFraming`, `MCFileSystem`, `MCClientView`, `MCMarkup` | the instances TLC checks | |

Definitions named `<Definition>_<slip>` beside a definition are plausible bugs
in the code it models. Each property is violated when one of them takes the
definition's place, under the configuration in which the property holds.

### Positions and FindPosition

A symbol's position is a vector of identifiers, (digit, user). `localInsert`
asks `findPosition` for a vector between those of the neighbours. `Positions`
writes it as the recursive function it is in the source; the machine of
`FindPosition` keeps the vectors `v1`, `v2` and `position` the recursion passes
by reference, one action per branch. `AgreesWithFunction` ties the two.

The branch for `digit2 < digit1` is missing in the code; `LevelInv` says it is
never needed, because each level's heads are what remains of two ordered
neighbours.

### Document and CoEdit

A symbol is its identifier (author, counter) and its position; characters and
formats are left out. A remote operation works on an iterator the previous
symbol of the same message left (`AtStart`, `it`), as `std::find_if(it, ...)`
does. `EndNodeId` is what `getSymbolId()` reads at the end node of a libstdc++
list, the library of the build of the CI (`.github/workflows`).

`CoEdit` has the server's `File` (`sdoc`, `users`), the clients of the file
(`inFile`), each user's `char_id` row (`charRow`), and per client its window,
document, map of peers, counter, and the two directions of its connection. One
action per message and side, each the whole handler with everything it
broadcasts. `Edit` is one change of the widget's text: the deletion, then the
insertion, as `_handleDeleteInsert` emits them. `Crash` cuts a client off after
any prefix of what it had sent. The server stays up here; what happens to it is
the subject of `OpenFiles`. Only one file exists, so a request names no file.

### OpenFiles

The server's `_clients` (`logged`, `open`), `_fileClients`, `_openFiles`
(`loaded`, `mem`, `queue`), the files on disk, the rows, and of each client the
window it shows (`view`) and the notices of deleted files on the way to it. A
request and its answer are one step: a client waits with its window frozen,
connections keep their order, so the notices sent before the answer have arrived
when the answer does (they are dropped: in the file just opened they would be
for another window, see below for the one that is not).

A file is its physical id, whoever's row leads to it. Its text is the set of
edits it has seen, numbered. `Phantom` is what `_openFiles[id]` inserts for a
file that was dropped: the entry without a path whose store throws.

`Refuse` is a handler that throws before it changes anything; handlers that
throw in the middle (`NewFile`, `ActivateLink`, `Logout`, `Delete`) keep what
they had done. `Disconnected`, `SaveThrows` and `Quit` run outside every
handler, where an exception ends the process (`server = "aborted"`). `DeleteDir`
removes the rows below a folder and calls `closeFile` for none of them: the
user's entry may go on naming a file of which the user has no row any more, and
then an opening by somebody else is done and refused (`Relayed`, `ShowFile`).

`accepted`, `hurt` and `stray` are history: the edits the server accepted, the
files FifoMap dropped while they were in use or not saved, and the file the
server keeps open for a user who has removed its folder.

### Framing

One direction of a connection. `Send` is `Client::send` and `Server::write`;
`Read`, `ReadData`, `ReadAgain` and `ReadReturns` are the slot `read` with
`readSize` and `readData`, the same on both sides. `Arrive` takes any portion
of the bytes under way into the socket. `Fifo` is the abstract specification: a
queue of messages. `Framing` implements it (`Queue == INSTANCE Fifo WITH ...`,
`ImplementsFifo == Queue!Spec`) by its messages sent and delivered and the state
of the connection; the bytes under way, the socket and the parser are hidden.

### FileSystem

`row` and `name` are the table `fs_element`, `live` the ids that have a row,
`tokens` the table `shared_link`, `disk` the data files. A document is the set
of identifiers `<<user, number>>` of its symbols, in memory or on disk: what a
crash takes from memory is the subject of OpenFiles. `shown` is the name each
element has in the browser of its owner, which is old from the answer to a
rename until the folder is read again (`Refresh`): the dialog of a move strikes
out folders by that name (`Offered`), and it is all that keeps a folder from
being moved below itself, since `mv` does not ask. A row has the number
(`charId`) an editor counts from when it opens the file; `counter` is the editor's
own, from which paragraphs are numbered too, while `localInsert` adds only symbols
to the row. `Insert` types one symbol behind any number of new paragraphs;
`Reopen` sets the counter to the row's number. `parted` are the elements in
which a paragraph has taken a number.

Handlers run one at a time; the database commits row by row. A handler that
writes more than once is therefore a request and the steps after it: `task` is
what it still has to write (the root of a new user, the data of a new file, the
folder of a new link) and `stack` the calls of `remove` under way, each in the
order of the code: a folder's children, or a file's token, its links, its data,
and then the row. `Crash` ends the process between two steps; `Overflow` is what
`remove` does in a cycle. `torn` remembers what was cut off.

Names are words with a number of endings " (link)"; a user may type them too.
The rows at the start are those of a table the handlers could have made: each
element lies in a folder of its owner that was made before it, each user has one
root, and no two elements of a folder have one name.

### Wire and ClientView

`Wire` has the tables, one per place of the source: the queries the client's
`MessageManager` builds (`Queries`), the cases and reads of
`ServerMessageProcessor` (`Cases`, `Reads`), its answers and notices (`Answers`,
`NoticesOf`), and the status and keys `ClientMessageProcessor` asks for
(`Status`, `Needs`). A message's data is the set of its keys, since a key has one
JSON type wherever it occurs; keys that are set together or not at all are a
group of `Entry`. `getString` and the like throw for a key that is missing.

`ClientView` has, per client, `gui`: the window shown, the windows that are
frozen, the connection with its timer, and `User` (logged in or not, token, file
open, its id); `down`, the messages under way to it; and the server's side: its
entry and open file in `_clients`, `_fileClients`, the table of sessions, the
rows of files, the users of each `File`. An action is a slot of a window that is
shown and not frozen, with the handler of the server that answers it: the
server handles a message to its end, a connection keeps its order, and the client
sees the answer only when it takes it from `down`, in an action of its own
(`Server...`, one per slot of GuiManager). What `freezeWindow` and `unfreezeWindow`
do depends on the window shown at that moment, as in the code. The requests of the
browser that answer with a list are sent along (`Alters`, `Refresh`).

Of a relay of the server only what it does to its receivers is kept. A client in
the list without an entry is a null session (`Ghosts`), which ends the server;
one without a row makes the loop throw where it is (`Foreign`), and the clients
of the list before it have been told (`Told`). `knows` is the list of users the
editor of a client will have once all that is under way to it has arrived. A client
is told by `JOINED` (USER_CONNECTED) who has come; an edit, or the leaving
(USER_DISCONNECTED), of a user who is not in that list is a `STRANGER`, which ends
the client. `JOINED` and the answers that show a file make the editor ask for the
icons of the users they name (`Icons`): the answer comes behind all that is
under way, so it finds the list that is `knows` then. One that finds its user there
changes a picture and is left out; one that does not is an `ICON`, which ends
the client (`ServerIcon`). `DeleteDir` is the one request of the browser besides
the removal of a file that changes rows: it sends FILE_DELETED for each link that
goes, clears the open file of whoever has one, and calls `closeFile` for no client.

`past` and `swept` are history: what has happened to a client that may explain
its state (a deletion announced, two openings that crossed, a logout with
something on the way, a timer that was late, an account changed while a file was
on its way, a registration on top of a login, an account removed with a file
open, a file entered while the icons of another were asked for or about to be, a
folder removed with the row of a file that is kept open), and the windows a notice
replaced while they were frozen.

### Markup

Positions are `CoEdit`'s; here a symbol or a paragraph is a number that says
where it goes. Every replica has `text`, `pars`, `comments` and `mark`, the
format of each symbol with its time and last user. An editor also has what it
keeps beside the `File`: `widget` (the format each symbol is shown in),
`nblocks` (its count of the lines) and `listed` (the users).

`Format` is `_handleSymbolUpdate`: the File's symbols get the time of the loop,
the message a time after it. `Takes` is the rule of `File::remoteUpdate`; `Walk`
the loop of `TextEditor::remoteUpdate`, one `WalkStep` for each symbol, with the
iterator and the position that should go with it. `Edit` is `_handleDeleteInsert` with paragraphs: the number to
remove or add is the difference between the widget's lines and `nblocks`, and a
list that is shorter than they ask for is the exception that ends the client
(`endedByEdit`). `Reload` and `ServerGet` lose the times, which are not part of a
document that is stored or sent. `ServerRemove` is `closeFile` of a user who
drops the link: it takes the user out of the File's map, where the editors look
up the authors of comments (`ClientFile`) and of symbols (`Highlight`).

`newest`, `vague`, `drifted`, `miscounted` and `hurt` are history: the newest
change of each symbol, and the places where the code cannot know better. `given`
is the paragraph each line break began when it was typed: two users who type a
line at the same place at the same time may have their lines in one order and the
paragraphs in the other (`Shuffled`), and who then removes one of the lines
removes the other's paragraph.

## Runs

| run | instance | result |
|---|---|---|
| `findposition` | digits 0..3 below MaxDigit = 4, Step = 2, neighbours of at most 2 identifiers of users 1..3: all ordered pairs | passes, 59,730 states |
| `coedit` | 2 users, 2 edits of at most 2 characters, 3 openings, 1 death, over a document of one symbol that begins with the digit 0 | passes, 923,618 states |
| `coedit_newline` | 1 user, 2 edits with line breaks | `UniqueIds` is violated |
| `coedit_front` | 2 users, insertions in front | `RefusedOnlyIfUnsorted` is violated |
| `openfiles` | 2 users, 3 files of which 2 are made, capacity 1, 2 openings, 1 edit, 1 death of the server | passes, 425,594 states |
| `openfiles_eviction` | the same | `ReloadLosesNothing` is violated |
| `filesystem` | 3 users, at most 6 elements, 4 of them there at the start; 1 rename, 1 move, 1 insertion with at most 1 paragraph, 1 removal, 1 death | passes, 655,835 states |
| `framing` | 3 messages of 1 to 3 bytes, header of 2 binary digits | passes, 15,932 states |
| `clientview` | 2 clients, 3 users; 4 files, of which those made have been deleted but for some: 2 of them with one client to be connected, 4 and 2 acts of the users; 3 of them and 6 acts of one user; 2 of them and 3 and 3 acts; 1 of them and 5 and 2 acts, or 4 and 2 with all three users registered | passes, 629,625 states (two files are symmetric) |
| `clientview_ghost` | the same, without the symmetry | `ListsAreAlive` is violated |
| `markup` | 3 users of whom 1 comes, 5 symbols of which 3 are line breaks, 5 paragraphs, 3 formats, 3 times; 3 or 5 acts of four mixtures of kinds | passes, 586,417 states |
| `markup_join` | the same | `ParagraphsAreThere` is violated |

Why the bounds are enough:

* *MaxDigit* and *Step*: with `MaxDigit` 3 or 4 and `Step` 2, two or three
  insertions exhaust a level, which with the code's values takes millions. The
  proofs cover all values.
* *CoEdit*: two edits are what it takes for operations to cross; two characters
  per edit give messages of several symbols, replacements and carried iterators;
  three openings let a user come back while the other is in; the first symbol's
  digit 0 is what makes insertions in front hard. Three users add relays of
  relays, which a star of connections does not have.
* *OpenFiles*: with one entry of capacity the second file evicts the first, in
  use or dirty. The two files at the start are ann's with a link of bob's each: a
  notice of one reaches him in the other, and it takes two openings for him to be
  sent back to the browser, delete the folder with the link to the file he is in,
  and for ann's opening of it to be refused when it was done. Ids of edits only
  have to be distinct.
* *FileSystem*: two more elements are two folders to move into each other, or
  a file with the name of a link and the link, or a link, its removal and its
  second activation; a third user registers. Cycles, equal names, rows without a
  folder, files without data and lost roots all occur. Paragraphs are added by bob
  only, who writes in a file of his own and through a link. A second removal, after
  one that was cut off, is left to the proofs, which cover every property of the run.
* *ClientView*: one client has what a longer session takes (register or log in,
  open, go back, open another, log out), the other what makes notices cross it
  (delete, edit, leave). What takes more acts needs fewer files and clients that
  are connected already, and is reached from the other states at the start: a
  second registration by a client that is logged in and has gone back to its login
  window, an account changed while a file is on its way, an opening that a client
  in the list of the file has refused after it was done, a user sent back to the
  browser by one file's notice who removes the folder of another, icons that come
  after a second file. One branch is out of reach: that USER_CONNECTED comes to
  an editor that has shown no file yet (`ServerJoined`) needs three clients; the
  proofs cover it.
* *Markup*: a symbol before and after a line break, a line break to type and one
  to delete at each side, three times for a change to be older, equal or newer;
  mixing all kinds of work at once adds states and no new interaction, since
  formats and comments touch neither lines nor each other.
* *Framing*: with headers of 2 and messages of up to 3 bytes, portions end in
  the header, at its end, in the message, at its end and beyond; the bytes of a
  message would pass for another header.

### The properties

* **Positions**: `GeneratedBetween` (strictly between the neighbours, and the
  user's own), `ThrowsOnlyPastLeft`, `AgreesWithFunction`, `Terminates`.
* **CoEdit**: `ReplicasCommute` says more than convergence at rest: at every
  moment, an open editor with all that is on the way to it equals the server's
  document with all that the editor has sent, unless a list's end node has been
  erased. `SortedReplicas`; `UniqueIds` about the counters across deaths;
  `ServerNeverRefuses` and `AuthorsKnown` say that no exception for a wrong order
  of messages is ever thrown; `PresenceFollows`; `OpenCompletes`.
* **OpenFiles**: `MapsAgree`, `DeletionReachesEditors`, `CleanMeansStored`,
  `PresenceShown`, `NoEditLost`, `AbortsOnlyIfHurt`, `SavedEventually`. Several
  are qualified by `hurt`: that is the finding about FifoMap, and the
  qualification says it is the only cause. `MapsAgree` says likewise that a
  client has a file open of which its user has no row only in the browser in which
  the folder of that row was removed (`stray`).
* **FileSystem**: `SharesResolve` and `FoldersKept` (no link, token or element
  is left behind by a removal, cut off or not), `OneRowEach`, which
  `getIdForUser` relies on; and four properties that name the only cause of
  each irregularity: `CyclesOnlyIfMisread`, `SameNameOnlyIfEnded`,
  `RootLostOnlyIfTorn`, `NumbersFreshIfCounted`. `Loads`.
* **Framing**: `ImplementsFifo`, `NothingLeftBehind`.
* **ClientView**: `NeverCutOff` (the tables of the two sides fit, in every answer
  and notice); `FrozenMeansAwaited`: a frozen window is the one that is shown, and
  what releases it is on the way, unless the notice of a deletion has replaced it;
  `SessionsMatch` between the table of sessions and `_clients`; `EditorNamesItsFile`
  and `OpenIsShown` tie what the user sees to what `User` and the server hold;
  `FallsOnlyToGhosts` and `EndsOnlyByCause` name the only causes of each end.
* **Markup**: `NewestWins`, last writer wins, with the three conditions the code
  does not ensure; `WidgetShowsFile`; `OneParagraphPerLine`; `EditorsFollow`, at
  every moment, for paragraphs and comments; `EndsOnlyByCause`. The conditions
  are needed: without any of them the run fails.

The properties that name causes are as strong as their list of causes is short.
Each cause was put there because the run fails without it, and is described under
the findings or the divergences below, or, where it is beyond the bounds of a run,
because the proof does not go through without it. The proof attempts found two
such causes of `EndsOnlyByCause` in ClientView: an activation of a link that was
refused after the link was made leaves its user with a file whose editors do not
know that user (`"linked"`), and a ghost in the list of a file may also end a
client with `STRANGER`: an account is removed with a file open that another user
of the same client has a link to; that user logs in and makes a file, and the
owner of the first opens it and types. They found one of `OpenIsShown` (two files
clicked in a row, `"crossed"`); and that a second root in the table, which the
handlers never make, would refute `RootLostOnlyIfTorn`.

### Fairness

* CoEdit: each event loop takes what has arrived (weak fairness of consuming a
  non-empty channel). Users are under no obligation.
* OpenFiles: the timer of the DiskManager goes off again and again (weak
  fairness of the save, whichever way it ends).
* Framing: TCP delivers while the connection lasts, and a slot runs to its end.
* FindPosition: the recursion goes on.

`CHECK_DEADLOCK FALSE` stands where the users may all stop: CoEdit, FileSystem,
ClientView, Markup, Framing (the bounds are reached) and FindPosition (the call
returns). ClientView and Markup state no fairness: their properties are about
what is never the case.

## Findings

1. **Line breaks and identifiers** (`coedit_newline`). The client numbers
   paragraphs and symbols with one counter, the server advances the row by the
   symbols only. After closing and opening, identifiers are used again.
2. **Insertion in front** (`coedit_front`). For a missing left neighbour
   `findPosition` takes the digit 0 of the user who types. Where the first
   symbol's position begins with the digit 0 of a smaller user, the heads compare
   in the wrong order and "vector _pos is not sorted!" ends the client.
   `ThrowCharacterised` proves this is the only case.
3. **Eviction** (`openfiles_eviction`). FifoMap drops the oldest file without
   storing it. Accepted edits are gone; and a client that was in it makes the
   next save or disconnection end the server (`NoAbortUnlessHurt` proves that
   nothing else does).
4. **Removed account** (`clientview_ghost`). `deleteUser` erases the entry of the
   client and leaves it in the list of its file. `OpenIsShown` says when the
   server keeps a file open for a client that is in its browser: after a deletion
   that was announced or answered late, a change of the account answered late, two
   openings that crossed, or an opening refused when it was done.
   From there an account can be removed, and
   the next relay of that file reads a null session (`FallsToGhosts` proves that
   nothing else does). A client that opens such a file is refused after the
   opening was done, and the server keeps it open for it.
5. **Joined lines** (`markup_join`). `_nblocks` is not updated by remote edits.
   After another user joins two lines the next deletion ends the client; after
   another user types a line break the next insertion adds a paragraph.

Other divergences, which no run is given to but a property's condition or the
text of a model names:

* `remoteDelete` reads at the iterator without asking whether it is `end()`; where
  the read yields the wanted id the end node is erased (`wild` in CoEdit).
* A file on disk is emptied before it is written (`Torn` in OpenFiles), though the
  requirements ask that a crash loses nothing.
* The notice of one file's deletion closes the editor of another, the server is
  not told and refuses every file the client then asks for; a window that was
  waiting for an answer stays frozen (`past`, `swept` in ClientView).
* The timer of a connection attempt aborts a connection that has been made when
  its signal is still queued, and the client ends (`"raced"`).
* The answer to a change of the account shows the browser. A file that came
  while it was on its way is covered, and the server, which keeps it open, refuses
  every other (`"covered"`).
* What arrives after a logout may ask for the token, and the client ends (`"late"`).
* The browser's Share asks for the link of the file opened last, and ends the client
  when none has been; two files clicked in a row leave the editor with the
  content of one and the id of the other (`"crossed"`).
* A link that is removed and activated again counts from 0, and identifiers of
  the first link's symbols come back; so do, after finding 1, those of the symbols
  behind a typed line break (`NumbersFreshIfCounted`).
* `deleteDir` removes the rows below a folder and closes no file. A client that a
  notice has sent back to its browser keeps its file open without a row of it:
  whatever is passed on in that file is refused when it comes to that client, an
  opening after it was done, and those who come or leave are not known to all others,
  whom the next message of theirs ends (`"strayed"` in ClientView, `stray` in
  OpenFiles).
* The icon of a user that was asked for in one file ends the client if it comes
  after another file was shown whose list does not have the user (`setUserIcon`,
  `"switched"`).
* Formats diverge when times are equal or overlap, when a replica had the newer
  format already and so kept an older time, and when a replica read the document
  without its times while an older change was coming (`vague` in Markup).
* `TextEditor::remoteUpdate` shows a change on the wrong symbol after one that was
  refused, and reads the end node's format after the last symbol (`drifted`).
* Who drops the link to a file leaves comments and symbols behind whose author
  the File's map does not know: the next user to open the file, or to highlight
  authors, ends (`EndsOnlyByCause` of Markup).

## Proofs

| module | theorem | invariant |
|---|---|---|
| `FindPositionProofs` | `LevelsConsistent`, `PositionStrictlyBetween`, `ThrowCharacterised`, `TypeCorrect`; `MachineIsFunction` | `IInv`; `AInv` |
| `DocumentProofs` | `FindPositionEquation`, `FindPositionBetween` | none: they are about a function |
| `CoEditProofs` | `RequestsAreAccepted`, `AuthorsAreKnown`, `PresenceIsFollowed`; `ReplicasAreSorted`, `IdsAreUnique`, `ReplicasDoCommute` | `IInv`; `IInv` and `CInv` |
| `OpenFilesProofs` | `MapsAlwaysAgree`, `StateTyped`; `NoAbortUnlessHurt`, `PresenceAlwaysShown`; `CleanEntriesAreStored`, `AcceptedEditsAreKept`, `DeletionIsTold` | `ManagerInv`; `HurtInv`; `StoreInv` |
| `FramingProofs` | `NoWakeUpMissed`, `DeliveredInOrder` | `IInv` |
| `FileSystemProofs` | `SharesAlwaysResolve`, `OneRowEachAlways`, `FoldersAlwaysKept`, `ReachableMeansLoadable`, `RootIsFound`, `NumbersAreFresh`, `NamesAreApart`, `CyclesAreMisread` | `LinkInv`, `FolderInv`, `DataInv`, `RootInv`, `SymbolInv`, `NameInv`, `CycleInv` |
| `ClientViewProofs` | `Inductive`, `SessionsAgree`, `FallsToGhosts`; `WindowsInductive`, `FrozenAreAwaited`, `EditorsNameTheirFile`, `OpenFilesAreShown`, `EndsHaveCauses`; `NobodyIsCutOff` | `IInv`; `IInv` and `WInv`; none |
| `MarkupProofs` | `Invariant`, `EditorsDoFollow`; `CauseInvariant`, `ClientsEndByCause`, `WidgetsShowFiles`; `LineInvariant`, `LinesHaveParagraphs` | `IInv`; `IInv` and `CauseInv`; `IInv` and `LineInv` |

The type invariants of FindPosition, OpenFiles and ClientView, and `LevelInv`,
are proved, and not run again.

*FindPosition*, from `DigitAssumption`, `StepAssumption` and `CallsAssumption`
(ordered neighbours that end with a generated digit). `GeneratedBetween` says
nothing while the recursion runs; `LevelInv` says where it stands: `v1` is what
`position` has not yet consumed of the left neighbour (`TracksLeft`), `v2` the
same of the right one or empty because `position` is below the right neighbour
whatever follows (`TracksRight`), and the heads are in order. That the order is
kept from level to level is lemma `NextHeads`. `MachineIsFunction` is about the
recursive function of Positions, which has to be shown to have values first:
`FindPositionEquation` builds the solution of its definition from solutions for
the calls with at most n identifiers left, which exist for every n and agree
(`StagesExist`, `StagesAgree`), since every call has fewer left than the one that
makes it (`CallsShrink`). With `AInv` (what the machine has, followed by what the
function returns for the rest, is what the function returns) the two agree.
`FindPositionBetween` is the promise of `findPosition` for the function `LocalInsert`
of Document uses, by induction over what is left (`SizeInduction`).

*CoEdit*, from `UsersAssumption` and `InitialAssumption`. `ServerNeverRefuses` is
about the first message of a channel, so it needs what all of them are: `UpOf`
says that the messages on the way from a user are those of sessions with the
file, one after the other, with the end of the connection last; `WindowOf` and
`FileOf` tie them to the window and to the server's list, now and after all of
them. `AuthorsKnown` and `PresenceFollows` need that each message on the way to an
editor that speaks of a user follows one that introduces the user, and that the
last one says what the server holds (`News`).

The symbols need an invariant of their own, `CInv`, proved on top of `IInv` for
`Newlines = FALSE`: with line breaks `UniqueIds` is false (`coedit_newline`), and
an identifier that comes back may come back with another position. `CInv` says that
there is one position `w` for each identifier, the same in every document and
message (`Content`), and of each connection (`Link`):

* what is on the way from a user fits the server's document (`Sends`): its
  insertions are numbered one after the other from the server's row to the user's
  counter (`Counts`), its deletions name only what had a number by then, and no
  insertion meets a symbol at one of its positions when its turn comes (`Clear`);
* what is on the way to a user fits the editor's document (`Gets`): no insertion
  brings an identifier that was there before (`Fresh`), a document that is opened
  brings the counter of the row;
* for a user who hears of everything, the two ends meet: the symbols the server
  will have after what is on the way from the user are those the editor will have
  after what is on the way to it (`After`).

`After` is about sets: a message adds some symbols and takes some away (`Effect`).
Sets are where the argument is: an edit is appended at one end of both sides, what
arrives at the server from the user moves from one side to the other, and what
comes from another user is appended to the way down, past everything the user has
sent, which is sound because neither adds what the other takes or adds (`AfterMore`,
`AfterFewer`, `ServerMeets`, `ServerTells`). That the lists agree with the sets is
proved once: `RemoteInsertAll` and `RemoteDeleteAll` of a message whose
symbols are in order, with the iterator they carry from one symbol to the next, keep
the list in order and change its symbols as `Effect` says (`InsertAll`, `DeleteAll`,
`AppliedAll`); two lists in strict order with the same symbols are the same list
(`SameContent`). That what the editor writes is in order and new is `EditDeletes`
and `EditInserts`, the latter by `FindPositionBetween`: each symbol of a pasted text
lies between the last one and the symbol behind the gap. Once an end node has been erased (`wild`) the model keeps the list as it was, and the
theorems speak of that list, not of the process, which has no defined next step.
`InitialAssumption` is what earlier sessions leave: a list of symbols with positions
`findPosition` makes, in order, with identifiers below the counters.

*OpenFiles*, from `CapacityAssumption`, `NoFileAssumption`, `OwnerAssumption`
and `RowsAssumption`. `MapsAgree` alone is not inductive: a file that is created
must not have clients in its list (`UnbornInv`); a client past its login window
must have an entry (`SessionInv`); and the eviction must find a queue that is
not empty, of keys that are in the map (`QueueInv`), or `Head` is of nothing.
The queue may be shorter than the map, since `operator[]` adds entries it does
not queue; it is never empty while the map is not. `Parts` splits the invariant
into the parts that the operations on the cache, on the clients and on the store
change, so that each action is proved for the parts it touches. The removal of a
folder is proved to change nothing but rows, windows' notices and what is open
(`DeleteDirRest`, `DeleteDirStores`).

`HurtInv` adds that the open file of a client is in memory with the client
online (`EntryInv`), unless it was dropped in use, and that entries without a
path are of such files. A disconnection finds the opposite only for a file in
`hurt`, so the process ends only then. With fewer files than `MAX_OPEN_FILES`
nothing is ever in `hurt`. `StoreInv` is `CleanMeansStored`, `NoEditLost` and
`DeletionReachesEditors` with `UnmadeInv`: of a file that was not made there is
nothing in memory, on disk or in a window, or its first edits would not be its own.

*Framing*, from `HeaderAssumption`, `MessagesAssumption` and `RoundTripAssumption`:
that the size read is the size written is the promise of `QDataStream`, which is
external. `StreamInv` says that there is a string of all the bytes written, with
the offsets of its frames, of which the socket and the wire are the next parts
(`Laid`, `Placed`), and that the parser stands in front of a frame or inside the
message it has the size of (`Parsed`). `DoneInv` follows: what was delivered is
what was sent. `IdleInv` says that the slot returns only when the socket has less
than a header, or nothing more of the message. `DeliveredInOrder` is the safety
part of the refinement (`Fifo!InOrder`): initial states map to initial states and
every step to a step of the queue or a stutter. The liveness of `ImplementsFifo`
stays with TLC.

*FileSystem*, from `UsersAssumption`, `BoundsAssumption`, `FirstRowsAssumption`
and `NamesAssumption` (at the start nothing is linked, and the rows are as the
handlers would have made them). `SharesResolve` and `OneRowEach` need each other,
and that a row is a link exactly if it names an original (`LinksKnown`): otherwise
the removal of a link might take away another link's original. The lemmas
`RetouchKeeps`, `DropKeeps` and `AddKeeps` say so for the three kinds of changes
to the table. `FoldersKept` needs that a link is placed in the root of its owner
and nowhere else. The query for the root finds rows by creator, so it may find
links without a folder; but whoever has made something has a root (`Rooted`),
and the handler has seen one row only (`FoundIsRoot`, by cardinality). Roots are
never removed (`NoRootRemoved`), and nothing happens between the two steps of an
activation but the death of the process (`TaskPlaced`).

`Loads` needs to know which call may be past the data of its file: the topmost
one, of a file that is no link (`DataInv`). `RootLostOnlyIfTorn` is an
equivalence: `RootInv` says that a user has a root unless the handler that makes
it is running or torn, that a link has no folder exactly while its placement is
running or torn (`Unplaced`), and that nobody has two roots. `NumbersAreFresh`
needs to know who has written in a document: its owner, or someone who was given
a link (`WriterInv`); a first link then counts from a number nobody of that name
has used. And an editor in which no paragraph has taken a number counts with the row
(`CounterInv`). `CyclesOnlyIfMisread` speaks of chains of parents of any length:
`CycleInv` says that the folders can be numbered so that each comes before what
is in it; a move that was offered adds to the numbers of what it moves, and a
chain of falling numbers has an end. `NamesAreApart` and `CyclesAreMisread` speak
of what recursive functions compute (`AppendedName`, one pass over the brothers;
`Above`, as many rounds as there are ids). The theorems of the library on
induction take an operator as a parameter and cannot be used; what can is that a
well-founded relation has a least element in every set (`LeastElement`), which
gives induction over a set of numbers (`UpToBound`), that a step can be iterated
(`Iterated`) and that the recursive definition is that iteration (`AboveSteps`,
`NameAppended`). That `MaxId` rounds are enough for `Above` is by cardinality
(`AboveIsClosure`).

*ClientView*, from `ClientViewAssumption`. Neither property is inductive.
`SessionsMatch` says that the active sessions are those of the entries; a logout
closes the session of the *token* it was sent with and removes the entry of the
*client*, so the two must be the same: `Tokens` says that every token a client
holds, or that is on its way to it, is either closed or of its own entry. (The
answer to a login carries one, hence the sessions of all messages under way, `Sent`.)
That different entries have different users comes from `addClient`'s check.
`FallsOnlyToGhosts` needs `Seated`: whoever is in the list of a file that has rows
has an entry with that file open, until an account was removed with one; and a file
that was not made has neither rows nor list. Messages that arrive only change
windows, so each slot of the client is proved by `GuiOps` and one lemma about a
step of the clients alone; each handler by what it sends (`Hands`) and what it does
to entries, sessions and lists.

The four invariants of the windows need what `WInv` says of all the messages on the
way to a client, in their order, one part for each question. `Frozen`: for a window
that is frozen something in `Releasing` is on the way. `Entered`: an entry has the
client's token or an answer to a login on the way, with no file behind it.
`Unlogged`: a client that is not logged in is sent only refusals before its login.
`Named`: before the answer to a click nothing comes that changes the file the User
names. `Covered`: the file that is open at the server is shown and nothing on the
way shows another window, or the last that shows one shows this file. `Linked`: a
client that is not connected is sent nothing. `Joining`: the users for whom icons are
asked, or will be, are in the list the editor will have by then, unless another file
was entered meanwhile; and a client that is told who has come shows a file, or will.
`EndsOnlyByCause` asks moreover why an
editor would not know who writes to it: `SeatInv` says that the editor of whoever
has a file open lists all members of its File, and `MemberInv` that whoever shows a
file and still has a row of it is a member, but for `"haunting"`, `"strayed"` and
`"linked"`.
The argument is the same for every slot and handler: `Onward` says that a channel
loses at most its first message and is added to only at its end, and each part is
kept by a lemma about `Onward` and what is taken and added (`EnteredStays`,
`FrozenStays`, `NamedStays`, `CoveredStays`, `JoiningStays`). The other clients are only told
things (`Aside`, `AsideKeeps`), so an action is proved for its own client. That
`"crossed"`, `"late"`, `"covered"`, `"returned"`, `"linked"`, `"raced"`, `"switched"`,
`"strayed"` and `"haunting"` are all the causes is what these theorems add to the runs, for any
number of clients, users and files.

`NobodyIsCutOff` is about the tables of Wire, which have no parameter: a request of
an action fits if it has a case at the server and the keys that are always set
include those that are read, an answer and a notice likewise at the client
(`RequestFits`, `AnswerFits`, `NoticesFit`), whatever optional groups of keys are
there (`FittingConforms`, then one lemma per type of message). That every handler
asks only what there is a query for is the rest of it.

*Markup*, from `UsersAssumption`, `TextAssumption` and `ClockAssumption`.
`EditorsFollow` speaks of the open editors; the invariant has the same of every
editor the server writes to (`Follows`), in the form that the composition of the
effects of the messages on both ways, applied to what the two hold, is the same
(`Effect`, `Steps`, `After`). What moves it is that an edit is applied at once in
the editor and at the end of what it has sent at the server, and what another user
has sent is applied at once at the server and at the end of what is on the way to
the editor. So two messages that cross must commute, `Apart`: for paragraphs
because a number is given to one paragraph only (`AllMade`) and what a message on
the way brings is in no other replica or message (`Private`, `Brought`), for
comments because only the author changes one (`Authors`) and a new one has a number
that was not used (`Numbered`). That the server refuses no change of a comment, and
no editor throws over one, is `Meets`: a change meets its comment when its turn
comes. `Session` says that the answer to a request for the file is the first thing
that arrives, and what was sent before it is lost with the connection or behind
it. The actions fall into seven classes by what they do to files and channels, each
with a lemma of its own. `ParsFold` and `CommentsFold` tie the composition to the
folds of the property.

`EndsOnlyByCause` and `WidgetShowsFile` rest on it. `CauseInv` says that whoever is
not in the File's user map, or has a request on the way that will take it out, has
left or has ended over what it is not made for, with no request for the file behind
(`Departed`); so a file that is asked for leaves the map as it is, and of the users
an editor or a file on the way does not list none is in the map (`Members`): a
stranger is one who has left. That an edit whose counts are right finds its
paragraphs is `EditCounts`, that a change of a comment finds it is `Meets`. For the
widget, `Walk` is a fold over the symbols of the update in their order
(`OrderFacts`); along it the position stays with the iterator as long as none was
refused, and the iterator stays in the list as long as all were there (`Along`,
`WalkStepKeeps`).

`OneParagraphPerLine` counts, and a count does not tell which paragraph a crossing
deletion takes away; `LineInv` does. Until somebody miscounts, every line break
that was ever typed has a paragraph of its own (`Numbers`), a File's paragraphs are
the first one and those of the line breaks of its text (`FitsFile`), and a message
brings or deletes the paragraphs of the line breaks it has (`FitsEdit`); so
whatever is applied where, the two lists go together. What is left to show is that
the editor, which finds the paragraphs to delete by counting lines, takes those of
the line breaks that were deleted (`LostParagraphs`): they are a gap in the list of
both (`Gap`, `GapRanks`), as line breaks and paragraphs are in the same order in a
text that is not `Shuffled`; and that it finds one new paragraph for a line break
(`EditNumbers`, `EditOutcome`). That each condition of `miscounted` is needed is
what the run shows.

*Only model-checked*: `NewestWins` of Markup; CoEdit's symbols with line breaks in the text;
and everything with liveness (`Terminates`, `OpenCompletes`, `SavedEventually`,
the fair part of `ImplementsFifo`).

## Not modelled

* The files, links and rows a removed account leaves, and `editDir`, which no
  client sends (its message is in Wire). Accounts are removed in ClientView, not
  in OpenFiles.
* The alignment of a paragraph, which goes by times as the format of a symbol
  does, and the cursors, which are presentation.
* The sessions that are still active after a crash of the server: ClientView is
  one life of the server, OpenFiles has its deaths.
* In Markup the users' clocks agree, a user who drops the link does not come
  back, and presence notices are CoEdit's. In OpenFiles a client that goes back
  to its login window drops its notices; ClientView has what they do there.
* SIGTERM in the middle of a handler: in OpenFiles the signal comes between two.
  `std::signal`'s handler runs Qt code wherever the main thread is, which has no
  defined outcome.
* The reference the browser's menu keeps while it is open (docsbrowser.cpp:464),
  which is undefined behaviour inside one slot.
* The database: rows are read and written at once, in the order of the code.
* The JSON of a message, the checks of what forms are filled with, passwords,
  the pictures of icons (that one is asked for and comes is in ClientView),
  configuration, logging.

## Plan

Built, in this order: Positions and FindPosition with proofs, Document and
CoEdit with proofs, OpenFiles with proofs, Framing with proofs, FileSystem with
proofs, Wire and ClientView with proofs, Markup with proofs. Next:

1. Proofs: `NewestWins` of Markup.
2. Alignments, by the rule of Markup's formats, if the state space allows.
3. Sessions across a crash of the server, in OpenFiles.
