----------------------------- MODULE FileSystem -----------------------------
(***************************************************************************)
(* The elements of the users (FSElement_db), the tokens that share a file   *)
(* (SharedLink) and the data files behind them, as the handlers of the      *)
(* server change them. The database commits row by row, so the handlers that *)
(* write several rows, or a row and a data file, are sequences of steps; one *)
(* handler runs at a time, and the process may die between two steps.        *)
(*                                                                           *)
(* The data file of an element has the element's own id; a link, the row by  *)
(* which another user reaches a file, copies the path of its original. Ids  *)
(* are not used again (AUTOINCREMENT). A token is the id of the file it      *)
(* shares: a file has one token at a time, drawn anew from 64 characters.    *)
(* Requests name elements the client's browser shows its user: those the    *)
(* user owns. A refused request changes nothing and is left out.             *)
(***************************************************************************)
EXTENDS Integers, Sequences, FiniteSets

CONSTANTS
  Users,
  Words,        \* what names consist of, without the ending " (link)"
  RootWord,     \* the name of a root: "root"
  MaxId,        \* bound: elements ever created
  FirstRows,    \* the rows at the start, in the order of their ids
  FirstNames,   \* the names in them
  Typed,        \* bound: user -> the names the user types
  Makes,        \* bound: user -> the kinds of elements the user creates
  Most,         \* bound: kind of change -> how many there are
  MaxPars,      \* bound: user -> the paragraphs an insertion of the user adds
  MaxCrashes    \* bound: deaths of the server process

Kinds == {"rename", "move", "delete", "insert"}

ASSUME UsersAssumption == Users # {}

ASSUME BoundsAssumption ==
  /\ {MaxId, MaxCrashes} \subseteq Nat
  /\ Most \in [Kinds -> Nat] /\ MaxPars \in [Users -> Nat]

VARIABLES
  users,        \* the users with a row in table user
  lastId,       \* the highest id given
  live,         \* the ids with a row in fs_element
  row,          \* id -> that row, without the name
  name,         \* id -> the name in that row
  disk,         \* the ids with a data file
  tokens,       \* the files with a row in shared_link
  text,         \* id -> the symbols <<user, number>> of the document in its data file
  shown,        \* id -> the name the owner's browser shows
  counter,      \* id -> the number the owner's editor gives next, in a file
  task,         \* what the handler that runs still has to do
  stack,        \* the calls of FSElement_db::remove under way, the outermost first
  \* history and bounds
  torn,         \* the tasks a death of the process has cut off
  misread,      \* a move was chosen while the browser showed an old name
  linked,       \* <<user, file>>: the user has been given a link to the file
  relinked,     \* those where the link was made again after its removal
  parted,       \* the elements in which a paragraph has taken a number
  changes, crashes

typing  == <<text, counter, parted>>
storage == <<users, lastId, live, row, disk, tokens, typing>>
names   == <<name, shown>>
running == <<task, stack>>
history == <<torn, misread, linked, relinked>>
bounds  == <<changes, crashes>>
vars == <<storage, names, running, history, bounds>>

Ids == 1 .. MaxId
NoId == -1      \* parent_id and linked_from of a row without them

\* A name is a word with so many endings " (link)". The characters a user may
\* type include the ones of an ending.
Names == (Words \cup {RootWord}) \X Nat
RootName == <<RootWord, 0>>
Suffixed(n) == <<n[1], n[2] + 1>>

Rows == [kind : {"dir", "file"}, parent : Ids \cup {NoId}, owner : Users,
         creator : Users, original : Ids \cup {NoId}, charId : Nat]

Element(kind, u, p) == [kind |-> kind, parent |-> p, owner |-> u,
                        creator |-> u, original |-> NoId, charId |-> 0]

IsLink(e) == row[e].owner # row[e].creator
Plain(e)  == row[e].kind = "file" /\ ~IsLink(e)
Data(e)   == IF IsLink(e) THEN row[e].original ELSE e

Children(d)  == {e \in live : row[e].parent = d}
LinksOf(f)   == {e \in live : row[e].original = f}
Folders(u)   == {d \in live : row[d].owner = u /\ row[d].kind = "dir"}
\* What a browser shows, in a folder or as the result of a search, and lets its
\* user change: everything but the root.
Listed(u)    == {e \in live : row[e].owner = u}
                  \ {e \in live : row[e].kind = "dir" /\ row[e].parent = NoId}

\* The query of FSElement_db::root.
RootRows(u)  == {e \in live : row[e].parent = NoId /\ row[e].creator = u}
RootFound(u) == Cardinality(RootRows(u)) = 1

\* checkName without an ending to append: it throws when a brother of the
\* element has the name. It asks nothing of an element without a parent.
NameFree(e, p, n) ==
  p = NoId \/ \A b \in Children(p) : b # e => name[b] # n

\* checkName with the ending " (link)": one pass over the brothers in the
\* order of their ids.
AppendedName(e, p, n) ==
  LET after[i \in 0 .. MaxId] ==
        IF i = 0 THEN n
        ELSE LET m == after[i - 1]
             IN IF i \in Children(p) \ {e} /\ name[i] = m THEN Suffixed(m) ELSE m
  IN after[MaxId]

\* The parents of an element, theirs and so on; the element too if it is in a
\* cycle, NoId if the chain has an end.
Parents(S) == {row[e].parent : e \in S \cap live}

Above(e) ==
  LET upTo[i \in 0 .. MaxId] ==
        IF i = 0 THEN Parents({e})
        ELSE LET S == upTo[i - 1] IN S \cup Parents(S)
  IN upTo[MaxId]

Todo(op, on) == [op |-> op, on |-> on]
NoTask == Todo("none", NoId)
Tasks  == [op : {"none", "root", "data", "place"}, on : Ids \cup Users \cup {NoId}]
Idle   == task = NoTask /\ stack = << >>

Blank == Element("file", CHOOSE u \in Users : TRUE, NoId)

\* At the start nothing is linked, and each element lies in a folder of its
\* owner, made before it, or is a root, of which each user has one (mkroot
\* refuses a second).
ASSUME FirstRowsAssumption ==
  /\ FirstRows \in Seq(Rows) /\ Len(FirstRows) <= MaxId
  /\ \A e \in DOMAIN FirstRows :
       LET r == FirstRows[e]
       IN /\ r.creator = r.owner /\ r.original = NoId
          /\ IF r.parent = NoId THEN r.kind = "dir"
             ELSE /\ r.parent \in 1 .. (e - 1)
                  /\ FirstRows[r.parent].kind = "dir"
                  /\ FirstRows[r.parent].owner = r.owner
          /\ \E d \in DOMAIN FirstRows :
               /\ FirstRows[d].kind = "dir" /\ FirstRows[d].parent = NoId
               /\ FirstRows[d].owner = r.owner
  /\ \A d, e \in DOMAIN FirstRows :
       FirstRows[d].parent = NoId /\ FirstRows[e].parent = NoId
         /\ FirstRows[d].owner = FirstRows[e].owner => d = e

\* Names at the start are as checkName lets them be.
ASSUME NamesAssumption ==
  /\ FirstNames \in [DOMAIN FirstRows -> Names]
  /\ \A d, e \in DOMAIN FirstRows :
       d # e /\ FirstRows[d].parent = FirstRows[e].parent /\ FirstRows[d].parent # NoId
         => FirstNames[d] # FirstNames[e]
  /\ \A u \in Users : Typed[u] \subseteq Names

Init ==
  /\ users = {FirstRows[e].owner : e \in DOMAIN FirstRows}
  /\ lastId = Len(FirstRows) /\ live = DOMAIN FirstRows
  /\ row = [e \in Ids |-> IF e \in DOMAIN FirstRows THEN FirstRows[e] ELSE Blank]
  /\ name = [e \in Ids |-> IF e \in DOMAIN FirstRows THEN FirstNames[e] ELSE RootName]
  /\ disk = {e \in DOMAIN FirstRows : FirstRows[e].kind = "file"} /\ tokens = {}
  /\ text = [e \in Ids |-> {}] /\ counter = [e \in Ids |-> row[e].charId] /\ parted = {}
  /\ shown = name
  /\ task = NoTask /\ stack = << >>
  /\ torn = {} /\ misread = FALSE /\ linked = {} /\ relinked = {}
  /\ changes = [k \in Kinds |-> 0] /\ crashes = 0
-----------------------------------------------------------------------------
\* A new row; the browser shows it with the answer, and an editor of it counts
\* from the row's number.
AddRow(r, n) ==
  /\ lastId < MaxId
  /\ lastId' = lastId + 1
  /\ live' = live \cup {lastId + 1}
  /\ row' = [row EXCEPT ![lastId + 1] = r]
  /\ name' = [name EXCEPT ![lastId + 1] = n]
  /\ shown' = [shown EXCEPT ![lastId + 1] = n]
  /\ counter' = [counter EXCEPT ![lastId + 1] = r.charId]

Change(kind) ==
  /\ changes[kind] < Most[kind]
  /\ changes' = [changes EXCEPT ![kind] = @ + 1]
  /\ UNCHANGED crashes

\* User::registra saves the user, then makes the root.
Register(u) ==
  /\ Idle /\ u \notin users
  /\ users' = users \cup {u}
  /\ task' = Todo("root", u)
  /\ UNCHANGED <<lastId, live, row, disk, tokens, typing, names, stack, history, bounds>>

\* mkroot refuses a second root.
MakeRoot ==
  /\ task.op = "root" /\ ~RootFound(task.on)
  /\ AddRow(Element("dir", task.on, NoId), RootName)
  /\ task' = NoTask
  /\ UNCHANGED <<users, disk, tokens, text, parted, stack, history, bounds>>

MakeDir(u, d, n) ==
  /\ Idle /\ u \in users /\ "dir" \in Makes[u] /\ d \in Folders(u)
  /\ NameFree(NoId, d, n)
  /\ AddRow(Element("dir", u, d), n)
  /\ UNCHANGED <<users, disk, tokens, text, parted, running, history, bounds>>

\* create saves the row of a file, then writes an empty document.
MakeFile(u, d, n) ==
  /\ Idle /\ u \in users /\ "file" \in Makes[u] /\ d \in Folders(u)
  /\ NameFree(NoId, d, n)
  /\ AddRow(Element("file", u, d), n)
  /\ task' = Todo("data", lastId + 1)
  /\ UNCHANGED <<users, disk, tokens, text, parted, stack, history, bounds>>

WriteData ==
  /\ task.op = "data"
  /\ disk' = disk \cup {task.on}
  /\ task' = NoTask
  /\ UNCHANGED <<users, lastId, live, row, tokens, typing, names, stack, history, bounds>>

Rename(u, e, n) ==
  /\ Idle /\ u \in users /\ e \in Listed(u)
  /\ n # shown[e]
  /\ NameFree(e, row[e].parent, n)
  /\ name' = [name EXCEPT ![e] = n]
  /\ Change("rename")
  /\ UNCHANGED <<storage, shown, running, history>>

\* The browser asks for a folder's elements again once it has the answer to a
\* change of name. The window is not frozen until then.
Refresh(u) ==
  /\ Idle /\ u \in users
  /\ shown' = [e \in Ids |-> IF e \in live /\ row[e].owner = u THEN name[e] ELSE shown[e]]
  /\ UNCHANGED <<storage, name, running, history, bounds>>

\* Slip: the dialog strikes out the element and its folder only.
Offered_ById(u, e) ==
  {d \in Folders(u) :
     /\ d # e /\ d # row[e].parent
     /\ d \in RootRows(u) \/ RootRows(u) \cap Above(d) # {}}

\* The folders the dialog of a move offers: getAllDirs answers with all that
\* are below the root, and the browser strikes out the element, its folder and
\* every folder whose path has the element's name, as shown, for an inner part.
Offered(u, e) ==
  {d \in Folders(u) :
     /\ d # e /\ d # row[e].parent
     /\ d \in RootRows(u) \/ RootRows(u) \cap Above(d) # {}
     /\ \A a \in Above(d) \cap live : name[a] # shown[e]}

\* Slip: the names of the old folder are asked.
Move_OldFolder(u, e, d) ==
  /\ Idle /\ u \in users /\ e \in Listed(u) /\ row[e].parent # NoId
  /\ RootFound(u) /\ d \in Offered(u, e)
  /\ NameFree(e, row[e].parent, name[e])
  /\ row' = [row EXCEPT ![e].parent = d]
  /\ Change("move")
  /\ misread' = (misread \/ shown[e] # name[e])
  /\ UNCHANGED <<users, lastId, live, disk, tokens, typing, names, running,
                 torn, linked, relinked>>

\* getAllDirs and moveFile in one step: the dialog is modal and nobody else
\* changes a user's folders. The menu is that of an element in a folder.
Move(u, e, d) ==
  /\ Idle /\ u \in users /\ e \in Listed(u) /\ row[e].parent # NoId
  /\ RootFound(u) /\ d \in Offered(u, e)
  /\ NameFree(e, d, name[e])
  /\ row' = [row EXCEPT ![e].parent = d]
  /\ Change("move")
  /\ misread' = (misread \/ shown[e] # name[e])
  /\ UNCHANGED <<users, lastId, live, disk, tokens, typing, names, running,
                 torn, linked, relinked>>

Share(u, e) ==
  /\ Idle /\ u \in users /\ e \in Listed(u)
  /\ Plain(e)
  /\ tokens' = tokens \cup {e}
  /\ UNCHANGED <<users, lastId, live, row, disk, typing, names, running, history, bounds>>

\* activateLink saves a copy of the row without a folder, then moves it to the
\* user's root under a name that may get an ending.
Clone(u, f) == [row[f] EXCEPT !.parent = NoId, !.owner = u, !.original = f, !.charId = 0]

\* Slip: nobody asks whether the user has a link already.
Activate_Again(u, f) ==
  /\ Idle /\ u \in users /\ f \in tokens
  /\ RootFound(u)
  /\ row[f].creator # u
  /\ AddRow(Clone(u, f), name[f])
  /\ task' = Todo("place", lastId + 1)
  /\ relinked' = relinked \cup ({<<u, f>>} \cap linked)
  /\ linked' = linked \cup {<<u, f>>}
  /\ UNCHANGED <<users, disk, tokens, text, parted, stack, torn, misread, bounds>>

Activate(u, f) ==
  /\ Idle /\ u \in users /\ f \in tokens
  /\ RootFound(u)
  /\ row[f].creator # u
  /\ \A l \in LinksOf(f) : row[l].owner # u
  /\ AddRow(Clone(u, f), name[f])
  /\ task' = Todo("place", lastId + 1)
  /\ relinked' = relinked \cup ({<<u, f>>} \cap linked)
  /\ linked' = linked \cup {<<u, f>>}
  /\ UNCHANGED <<users, disk, tokens, text, parted, stack, torn, misread, bounds>>

\* Slip: the name is saved, the folder is not.
Place_NameOnly ==
  /\ task.op = "place"
  /\ LET e == task.on
     IN \E d \in RootRows(row[e].owner) :
          LET n == AppendedName(e, d, name[e])
          IN /\ row' = row
             /\ name' = [name EXCEPT ![e] = n]
             /\ shown' = [shown EXCEPT ![e] = n]
  /\ task' = NoTask
  /\ UNCHANGED <<users, lastId, live, disk, tokens, typing, stack, history, bounds>>

Place ==
  /\ task.op = "place"
  /\ LET e == task.on
     IN \E d \in RootRows(row[e].owner) :
          LET n == AppendedName(e, d, name[e])
          IN /\ row' = [row EXCEPT ![e].parent = d]
             /\ name' = [name EXCEPT ![e] = n]
             /\ shown' = [shown EXCEPT ![e] = n]
  /\ task' = NoTask
  /\ UNCHANGED <<users, lastId, live, disk, tokens, typing, stack, history, bounds>>
-----------------------------------------------------------------------------
\* FSElement_db::remove. Each call is an entry of the stack; only the topmost
\* does something.
Top == stack[Len(stack)]
Removing(e) == stack # << >> /\ e = Top
First(S) == {e \in S : \A f \in S : e <= f}

Delete(u, e) ==
  /\ Idle /\ u \in users /\ e \in Listed(u)
  /\ stack' = <<e>>
  /\ Change("delete")
  /\ UNCHANGED <<storage, names, task, history>>

\* A folder's children first, in the order of their ids.
RemoveChild(c) ==
  /\ stack # << >> /\ row[Top].kind = "dir"
  /\ c \in First(Children(Top)) /\ \A i \in DOMAIN stack : stack[i] # c
  /\ stack' = Append(stack, c)
  /\ UNCHANGED <<storage, names, task, history, bounds>>

\* Then, for a file that is no link: its token, its links, its data.
RemoveToken(f) ==
  /\ Removing(f) /\ Plain(f) /\ f \in tokens
  /\ tokens' = tokens \ {f}
  /\ UNCHANGED <<users, lastId, live, row, disk, typing, names, running, history, bounds>>

DropRow(e) ==
  /\ live' = live \ {e}
  /\ row' = [row EXCEPT ![e] = Blank]
  /\ name' = [name EXCEPT ![e] = RootName]
  /\ shown' = [shown EXCEPT ![e] = RootName]

RemoveLink(f) ==
  /\ Removing(f) /\ Plain(f) /\ f \notin tokens
  /\ \E l \in First(LinksOf(f)) : DropRow(l)
  /\ UNCHANGED <<users, lastId, disk, tokens, typing, running, history, bounds>>

\* Slip: the data go before the links.
RemoveData_First(f) ==
  /\ Removing(f) /\ Plain(f) /\ f \notin tokens /\ f \in disk
  /\ disk' = disk \ {f}
  /\ text' = [text EXCEPT ![f] = {}]
  /\ UNCHANGED <<users, lastId, live, row, tokens, counter, parted, names, running, history, bounds>>

RemoveData(f) ==
  /\ Removing(f) /\ Plain(f) /\ f \notin tokens /\ LinksOf(f) = {} /\ f \in disk
  /\ disk' = disk \ {f}
  /\ text' = [text EXCEPT ![f] = {}]
  /\ UNCHANGED <<users, lastId, live, row, tokens, counter, parted, names, running, history, bounds>>

\* Slips: the links stay; the children stay.
RemoveRow_KeepsLinks(e) ==
  /\ Removing(e)
  /\ row[e].kind = "dir" => Children(e) = {}
  /\ Plain(e) => e \notin tokens
  /\ DropRow(e)
  /\ stack' = SubSeq(stack, 1, Len(stack) - 1)
  /\ UNCHANGED <<users, lastId, disk, tokens, typing, task, history, bounds>>

RemoveRow_KeepsChildren(e) ==
  /\ Removing(e)
  /\ Plain(e) => e \notin tokens /\ LinksOf(e) = {} /\ e \notin disk
  /\ DropRow(e)
  /\ stack' = SubSeq(stack, 1, Len(stack) - 1)
  /\ UNCHANGED <<users, lastId, disk, tokens, typing, task, history, bounds>>

\* At last the row itself, and the call returns.
RemoveRow(e) ==
  /\ Removing(e)
  /\ row[e].kind = "dir" => Children(e) = {}
  /\ Plain(e) => e \notin tokens /\ LinksOf(e) = {} /\ e \notin disk
  /\ DropRow(e)
  /\ stack' = SubSeq(stack, 1, Len(stack) - 1)
  /\ UNCHANGED <<users, lastId, disk, tokens, typing, task, history, bounds>>

\* Slip: the symbol is counted in the row of the original.
Insert_InOriginal(u, e, pars) ==
  /\ Idle /\ u \in users /\ e \in Listed(u)
  /\ row[e].kind = "file" /\ Data(e) \in disk
  /\ text' = [text EXCEPT ![Data(e)] = @ \cup {<<u, counter[e] + pars>>}]
  /\ counter' = [counter EXCEPT ![e] = @ + pars + 1]
  /\ parted' = parted \cup {x \in {e} : pars > 0}
  /\ row' = [row EXCEPT ![Data(e)].charId = @ + 1]
  /\ Change("insert")
  /\ UNCHANGED <<users, lastId, live, disk, tokens, names, running, history>>

\* A symbol typed into a document: the editor numbers the new paragraphs, then
\* the symbol; localInsert counts the symbol in the row of the user, be it the
\* file's own or a link's.
Insert(u, e, pars) ==
  /\ Idle /\ u \in users /\ e \in Listed(u)
  /\ row[e].kind = "file" /\ Data(e) \in disk
  /\ text' = [text EXCEPT ![Data(e)] = @ \cup {<<u, counter[e] + pars>>}]
  /\ counter' = [counter EXCEPT ![e] = @ + pars + 1]
  /\ parted' = parted \cup {x \in {e} : pars > 0}
  /\ row' = [row EXCEPT ![e].charId = @ + 1]
  /\ Change("insert")
  /\ UNCHANGED <<users, lastId, live, disk, tokens, names, running, history>>

\* The user leaves the editor and opens the file again: getFile answers with the
\* number in the row.
Reopen(u, e) ==
  /\ Idle /\ u \in users /\ e \in Listed(u)
  /\ row[e].kind = "file" /\ Data(e) \in disk
  /\ counter' = [counter EXCEPT ![e] = row[e].charId]
  /\ UNCHANGED <<users, lastId, live, row, disk, tokens, text, parted, names, running, history, bounds>>

\* The process dies in the middle of a handler and is started again. A file
\* whose removal has come past its data is left like one never written.
CutOff ==
  IF stack = << >> THEN {task}
  ELSE {Todo("data", f) : f \in {f \in {Top} \ disk : Plain(f)}}

Die ==
  /\ torn' = torn \cup CutOff
  /\ task' = NoTask /\ stack' = << >>
  /\ counter' = [e \in Ids |-> row[e].charId]
  /\ UNCHANGED <<users, lastId, live, row, disk, tokens, text, parted, names,
                 misread, linked, relinked, changes>>

Crash == ~Idle /\ crashes < MaxCrashes /\ crashes' = crashes + 1 /\ Die

\* A child that is an ancestor too: the calls never end, and the stack of the
\* process overflows.
Overflow ==
  /\ stack # << >> /\ row[Top].kind = "dir"
  /\ \E c \in First(Children(Top)), i \in DOMAIN stack : stack[i] = c
  /\ Die /\ UNCHANGED crashes

Request(u) ==
  \/ Register(u) \/ Refresh(u)
  \/ \E d \in live, n \in Typed[u] : MakeDir(u, d, n) \/ MakeFile(u, d, n)
  \/ \E e \in live : \/ Share(u, e) \/ Activate(u, e) \/ Delete(u, e) \/ Reopen(u, e)
                     \/ \E pars \in 0 .. MaxPars[u] : Insert(u, e, pars)
                     \/ \E n \in Typed[u] : Rename(u, e, n)
                     \/ \E d \in live : Move(u, e, d)

Finish ==
  \/ MakeRoot \/ WriteData \/ Place
  \/ \E e \in live : \/ RemoveChild(e) \/ RemoveToken(e) \/ RemoveLink(e)
                     \/ RemoveData(e) \/ RemoveRow(e)

Next == (\E u \in Users : Request(u)) \/ Finish \/ Crash \/ Overflow

Spec == Init /\ [][Next]_vars
-----------------------------------------------------------------------------
\* A link and a token lead to a file that is still there and no link itself,
\* also after a removal that was cut off.
SharesResolve ==
  /\ \A l \in live : IsLink(l) =>
       row[l].original \in live /\ Plain(row[l].original)
  /\ \A f \in tokens : f \in live /\ Plain(f)

\* A user reaches a file through one row at most, so that getIdForUser, which
\* takes the first it finds, tells each user of a document that user's own id.
OneRowEach ==
  \A l, m \in live :
    row[l].kind = "file" /\ row[m].kind = "file" /\ Data(l) = Data(m)
      /\ row[l].owner = row[m].owner => l = m

\* An element lies in a folder of its owner. A link has none before it is
\* moved to the root, and never gets one if the process dies first.
FoldersKept ==
  \A e \in live : row[e].parent # NoId =>
    row[e].parent \in live /\ row[row[e].parent].kind = "dir"
      /\ row[row[e].parent].owner = row[e].owner

\* Only a move that was chosen under an old name puts a folder below itself,
\* where getPathElements and pwd never end.
CyclesOnlyIfMisread == misread \/ \A e \in live : NoId \in Above(e)

\* Two elements of one folder have one name only if one is a link to which
\* checkName has given an ending.
SameNameOnlyIfEnded ==
  \A e, f \in live :
    e # f /\ row[e].parent = row[f].parent /\ row[e].parent # NoId
      /\ name[e] = name[f]
    => \E l \in {e, f} : IsLink(l) /\ name[l][2] > 0

\* FSElement_db::root finds the root of a user unless the process died before
\* it was made, or a link to a file of the user's was left without a folder.
RootLostOnlyIfTorn ==
  \A u \in users : Idle =>
    (RootFound(u) <=> /\ Todo("root", u) \notin torn
                      /\ \A l \in live : row[l].creator = u => Todo("place", l) \notin torn)

\* A document that can be reached can be loaded, unless the process died before
\* it was written or after its data were removed.
Loads ==
  \A e \in live : row[e].kind = "file" =>
    \/ Data(e) \in disk
    \/ Todo("data", Data(e)) \in torn \cup {task}
    \/ Removing(e)

\* The numbers an editor gives to symbols when it is opened are not in the
\* document yet, unless the link was removed and made again, or the user's editor
\* numbered a paragraph, which it takes from the same counter but the server does
\* not count.
NumbersFreshIfCounted ==
  \A e \in live :
    row[e].kind = "file" /\ <<row[e].owner, Data(e)>> \notin relinked /\ e \notin parted =>
      \A s \in text[Data(e)] : s[1] = row[e].owner => s[2] < row[e].charId
=============================================================================
