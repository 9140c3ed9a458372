-------------------------- MODULE FileSystemProofs --------------------------
(***************************************************************************)
(* Proofs about the elements of the users, for any tree, depth and number   *)
(* of users: links and tokens resolve and a user has one row of each file    *)
(* (LinkInv); elements lie in folders of their owners, with a root at the    *)
(* top (FolderInv); documents that can be reached can be loaded (DataInv);   *)
(* a root is found unless one was torn (RootInv); numbers of symbols are     *)
(* fresh (SymbolInv); names are apart (NameInv); and folders have no cycles  *)
(* but by a move chosen under an old name (CycleInv).                        *)
(***************************************************************************)
EXTENDS FileSystem, FiniteSetTheorems, WellFoundedInduction, TLAPS

RowsTyped ==
  /\ lastId \in 0 .. MaxId /\ live \subseteq 1 .. lastId
  /\ row \in [Ids -> Rows]
  /\ task.op = "root" => task.on \in Users

\* A row is a link exactly if it names an original, and links are files.
LinksKnown ==
  \A e \in live : /\ IsLink(e) <=> row[e].original # NoId
                  /\ IsLink(e) => row[e].kind = "file"

LinkInv == RowsTyped /\ LinksKnown /\ SharesResolve /\ OneRowEach
-----------------------------------------------------------------------------
\* What mkdir, mkfile and mkroot save is a row whose creator is its owner.
LEMMA ElementIsRow ==
  ASSUME NEW k \in {"dir", "file"}, NEW u \in Users, NEW p \in Ids \cup {NoId}
  PROVE  /\ Element(k, u, p) \in Rows
         /\ Element(k, u, p).creator = Element(k, u, p).owner
         /\ Element(k, u, p).original = NoId
  BY DEF Element, Rows

\* The row of an id not given out has the type of a row.
LEMMA BlankIsRow ==
  ASSUME NEW u \in Users
  PROVE  Blank \in Rows
  <1>1. (CHOOSE v \in Users : TRUE) \in Users
    OBVIOUS
  <1>2. QED
    BY <1>1, ElementIsRow DEF Blank

\* A step that leaves kind, owner, creator and original of every row alone.
LEMMA RetouchKeeps ==
  ASSUME LinkInv, live' = live, tokens' \subseteq tokens \cup {e \in live : Plain(e)},
         row' \in [Ids -> Rows],
         \A e \in live : /\ row'[e].kind = row[e].kind
                         /\ row'[e].owner = row[e].owner
                         /\ row'[e].creator = row[e].creator
                         /\ row'[e].original = row[e].original
  PROVE  LinksKnown' /\ SharesResolve' /\ OneRowEach'
  <1>1. \A e \in live : /\ IsLink(e)' <=> IsLink(e)
                        /\ Plain(e)' <=> Plain(e)
                        /\ Data(e)' = Data(e)
    BY DEF IsLink, Plain, Data
  <1>2. LinksKnown'
    BY <1>1 DEF LinkInv, LinksKnown
  <1>3. SharesResolve'
    BY <1>1 DEF LinkInv, SharesResolve
  <1>4. OneRowEach'
    BY <1>1 DEF LinkInv, OneRowEach
  <1>5. QED
    BY <1>2, <1>3, <1>4

\* A row nothing refers to may go.
LEMMA DropKeeps ==
  ASSUME LinkInv, NEW e \in live, DropRow(e), tokens' = tokens, e \notin tokens,
         \A l \in live : row[l].original # e
  PROVE  row' \in [Ids -> Rows] /\ LinksKnown' /\ SharesResolve' /\ OneRowEach'
  <1>1. e \in Ids /\ live \subseteq Ids
    BY BoundsAssumption DEF LinkInv, RowsTyped, Ids
  <1>2. row[e].owner \in Users
    BY <1>1 DEF LinkInv, RowsTyped, Rows
  <1>3. row' \in [Ids -> Rows]
    BY <1>1, <1>2, BlankIsRow DEF LinkInv, RowsTyped, DropRow
  <1>4. live' = live \ {e} /\ \A f \in live' : row'[f] = row[f]
    BY <1>1 DEF DropRow, LinkInv, RowsTyped
  <1>5. \A f \in live' : /\ IsLink(f)' <=> IsLink(f)
                         /\ Plain(f)' <=> Plain(f)
                         /\ Data(f)' = Data(f)
    BY <1>4 DEF IsLink, Plain, Data
  <1>6. LinksKnown'
    BY <1>4, <1>5 DEF LinkInv, LinksKnown
  <1>7. SharesResolve'
    BY <1>4, <1>5 DEF LinkInv, SharesResolve
  <1>8. OneRowEach'
    BY <1>4, <1>5 DEF LinkInv, OneRowEach
  <1>9. QED
    BY <1>3, <1>6, <1>7, <1>8

\* What a new row may be: no link, or a link to a file its owner has no row of.
OwnRow(r) == r.creator = r.owner /\ r.original = NoId

LinkRow(r) ==
  /\ r.kind = "file" /\ r.creator # r.owner
  /\ r.original \in live /\ Plain(r.original)
  /\ row[r.original].owner # r.owner
  /\ \A l \in LinksOf(r.original) : row[l].owner # r.owner

\* A row of the user's own, or a link to an original he has no link to, leaves the links resolved.
LEMMA AddKeeps ==
  ASSUME LinkInv, NEW r \in Rows, NEW n, AddRow(r, n), tokens' = tokens,
         OwnRow(r) \/ LinkRow(r)
  PROVE  /\ row' \in [Ids -> Rows] /\ lastId' \in 0 .. MaxId /\ live' \subseteq 1 .. lastId'
         /\ LinksKnown' /\ SharesResolve' /\ OneRowEach'
  <1> DEFINE new == lastId + 1
  <1>1. new \in Ids /\ new \notin live /\ live \subseteq Ids
    BY BoundsAssumption DEF LinkInv, RowsTyped, Ids, AddRow
  <1>2. row' \in [Ids -> Rows] /\ lastId' \in 0 .. MaxId /\ live' \subseteq 1 .. lastId'
    BY BoundsAssumption DEF LinkInv, RowsTyped, Ids, AddRow
  <1>3. /\ live' = live \cup {new} /\ row'[new] = r
        /\ \A e \in live : row'[e] = row[e]
    BY <1>1 DEF AddRow, LinkInv, RowsTyped
  <1>4. \A e \in live : /\ IsLink(e)' <=> IsLink(e)
                        /\ Plain(e)' <=> Plain(e)
                        /\ Data(e)' = Data(e)
    BY <1>3 DEF IsLink, Plain, Data
  <1>5. \A e \in {new} : /\ IsLink(e)' <=> r.creator # r.owner
                         /\ Plain(e)' <=> r.kind = "file" /\ r.creator = r.owner
                         /\ Data(e)' = IF r.creator # r.owner THEN r.original ELSE e
    BY <1>3 DEF IsLink, Plain, Data
  <1>6. NoId \notin live
    BY <1>1 DEF Ids, NoId
  <1>7. LinksKnown'
    BY <1>3, <1>4, <1>5, <1>6 DEF LinkInv, LinksKnown, OwnRow, LinkRow
  <1>8. SharesResolve'
    BY <1>3, <1>4, <1>5 DEF LinkInv, SharesResolve, OwnRow, LinkRow
  <1>9. \A e \in live : Data(e) \in live
    BY DEF LinkInv, SharesResolve, Data
  <1>10. ASSUME NEW e \in {new}, NEW m \in live, row[m].kind = "file", Data(m) = Data(e)',
                row[m].owner = r.owner
         PROVE  FALSE
    <2>1. LinkRow(r) /\ Data(m) = r.original
      BY <1>1, <1>5, <1>9, <1>10 DEF OwnRow, LinkRow
    <2>2. CASE IsLink(m)
      BY <2>1, <2>2, <1>10 DEF LinkRow, LinksOf, Data
    <2>3. CASE ~IsLink(m)
      BY <2>1, <2>3, <1>10 DEF LinkRow, Data
    <2>4. QED
      BY <2>2, <2>3
  <1>11. OneRowEach'
    BY <1>3, <1>4, <1>5, <1>10 DEF LinkInv, OneRowEach
  <1>12. QED
    BY <1>2, <1>7, <1>8, <1>11
-----------------------------------------------------------------------------
\* At the start nothing is linked.
LEMMA InitLinks == Init => LinkInv
  <1> SUFFICES ASSUME Init PROVE LinkInv
    OBVIOUS
  <1>1. live = 1 .. Len(FirstRows) /\ Len(FirstRows) \in Nat
    BY FirstRowsAssumption DEF Init
  <1>2. \A e \in live : /\ e \in Ids /\ row[e] = FirstRows[e] /\ row[e] \in Rows
                        /\ row[e].creator = row[e].owner /\ row[e].original = NoId
    BY <1>1, FirstRowsAssumption, BoundsAssumption DEF Init, Ids
  <1>3. row \in [Ids -> Rows]
    <2> SUFFICES ASSUME NEW e \in Ids
                 PROVE  (IF e \in DOMAIN FirstRows THEN FirstRows[e] ELSE Blank) \in Rows
      BY DEF Init
    <2>1. CASE e \in DOMAIN FirstRows
      BY <2>1, FirstRowsAssumption
    <2>2. CASE e \notin DOMAIN FirstRows
      BY <2>2, BlankIsRow, UsersAssumption
    <2>3. QED
      BY <2>1, <2>2
  <1>4. RowsTyped
    BY <1>1, <1>3, FirstRowsAssumption, BoundsAssumption DEF RowsTyped, Init, NoTask, Todo
  <1>5. \A e \in live : ~IsLink(e) /\ Data(e) = e
    BY <1>2 DEF IsLink, Data
  <1>6. LinksKnown /\ SharesResolve /\ OneRowEach
    BY <1>2, <1>5 DEF LinksKnown, SharesResolve, OneRowEach, Init
  <1>7. QED
    BY <1>4, <1>6 DEF LinkInv

\* Elements have ids that were given out; NoId is none.
LEMMA LiveAreIds ==
  ASSUME LinkInv
  PROVE  live \subseteq Ids /\ NoId \notin live
  BY BoundsAssumption DEF LinkInv, RowsTyped, Ids, NoId

\* A link that goes is no original and is not shared; so is a folder.
LEMMA OnlyFilesReferred ==
  ASSUME LinkInv, NEW e \in live, ~Plain(e)
  PROVE  e \notin tokens /\ \A l \in live : row[l].original # e
  BY LiveAreIds DEF LinkInv, LinksKnown, SharesResolve

\* Every step keeps links and tokens resolved and at most one row per user and file.
LEMMA LinkStep == LinkInv /\ [Next]_vars => LinkInv'
  <1> SUFFICES ASSUME LinkInv, [Next]_vars PROVE LinkInv'
    OBVIOUS
  <1> USE DEF Idle, NoTask, Todo
  <1>0. /\ lastId \in 0 .. MaxId /\ live \subseteq 1 .. lastId
        /\ row \in [Ids -> Rows] /\ live \subseteq Ids /\ NoId \notin live
        /\ task.op = "root" => task.on \in Users
    BY LiveAreIds DEF LinkInv, RowsTyped
  <1>1. ASSUME NEW u \in Users, Request(u) PROVE LinkInv'
    <2>1. CASE Register(u)
      BY <2>1, <1>0, RetouchKeeps DEF Register, LinkInv, RowsTyped
    <2>2. CASE Refresh(u)
      BY <2>2, <1>0, RetouchKeeps DEF Refresh, storage, running, LinkInv, RowsTyped
    <2>3. ASSUME NEW d \in live, NEW n, MakeDir(u, d, n) PROVE LinkInv'
      <3>1. Element("dir", u, d) \in Rows /\ OwnRow(Element("dir", u, d))
        BY <1>0, ElementIsRow DEF OwnRow
      <3>2. QED
        BY <2>3, <3>1, <1>0, AddKeeps DEF MakeDir, running, LinkInv, RowsTyped
    <2>4. ASSUME NEW d \in live, NEW n, MakeFile(u, d, n) PROVE LinkInv'
      <3>1. Element("file", u, d) \in Rows /\ OwnRow(Element("file", u, d))
        BY <1>0, ElementIsRow DEF OwnRow
      <3>2. QED
        BY <2>4, <3>1, <1>0, AddKeeps DEF MakeFile, LinkInv, RowsTyped
    <2>5. ASSUME NEW e \in live, Share(u, e) \/ Reopen(u, e) PROVE LinkInv'
      BY <2>5, <1>0, RetouchKeeps DEF Share, Reopen, running, LinkInv, RowsTyped
    <2>6. ASSUME NEW f \in live, Activate(u, f) PROVE LinkInv'
      <3>1. f \in tokens /\ Plain(f)
        BY <2>6 DEF Activate, LinkInv, SharesResolve
      <3>2. row[f] \in Rows
        BY <1>0
      <3>3. /\ Clone(u, f) \in Rows
            /\ Clone(u, f).kind = row[f].kind /\ Clone(u, f).owner = u
            /\ Clone(u, f).creator = row[f].creator /\ Clone(u, f).original = f
        BY <3>2, <1>0 DEF Clone, Rows
      <3>4. LinkRow(Clone(u, f))
        BY <2>6, <3>1, <3>3 DEF Activate, LinkRow, Plain, IsLink
      <3>5. QED
        BY <2>6, <3>3, <3>4, <1>0, AddKeeps DEF Activate, LinkInv, RowsTyped
    <2>7. ASSUME NEW e \in live, Delete(u, e) PROVE LinkInv'
      BY <2>7, <1>0, RetouchKeeps DEF Delete, storage, LinkInv, RowsTyped
    <2>8. ASSUME NEW e \in live, NEW pars \in 0 .. MaxPars[u], Insert(u, e, pars) PROVE LinkInv'
      <3>1. row[e].charId + 1 \in Nat
        BY <1>0 DEF Rows
      <3>2. row' \in [Ids -> Rows]
        BY <2>8, <3>1, <1>0 DEF Insert, Rows
      <3>3. QED
        BY <2>8, <3>2, <1>0, RetouchKeeps DEF Insert, running, Rows, LinkInv, RowsTyped
    <2>9. ASSUME NEW e \in live, NEW n, Rename(u, e, n) PROVE LinkInv'
      BY <2>9, <1>0, RetouchKeeps DEF Rename, storage, running, LinkInv, RowsTyped
    <2>10. ASSUME NEW e \in live, NEW d \in live, Move(u, e, d) PROVE LinkInv'
      <3>1. row' \in [Ids -> Rows]
        BY <2>10, <1>0 DEF Move, Rows
      <3>2. QED
        BY <2>10, <3>1, <1>0, RetouchKeeps DEF Move, running, Rows, LinkInv, RowsTyped
    <2>11. QED
      BY <1>1, <2>1, <2>2, <2>3, <2>4, <2>5, <2>6, <2>7, <2>8, <2>9, <2>10 DEF Request
  <1>2. ASSUME Finish PROVE LinkInv'
    <2>1. CASE MakeRoot
      <3>1. Element("dir", task.on, NoId) \in Rows /\ OwnRow(Element("dir", task.on, NoId))
        BY <2>1, <1>0, ElementIsRow DEF OwnRow, MakeRoot
      <3>2. QED
        BY <2>1, <3>1, <1>0, AddKeeps DEF MakeRoot, LinkInv, RowsTyped
    <2>2. CASE WriteData
      BY <2>2, <1>0, RetouchKeeps DEF WriteData, LinkInv, RowsTyped
    <2>3. CASE Place
      <3>1. PICK d \in live : row' = [row EXCEPT ![task.on].parent = d]
        BY <2>3 DEF Place, RootRows
      <3>2. row' \in [Ids -> Rows]
        BY <3>1, <1>0 DEF Rows
      <3>3. QED
        BY <2>3, <3>1, <3>2, <1>0, RetouchKeeps DEF Place, Rows, LinkInv, RowsTyped
    <2>4. ASSUME NEW e \in live, RemoveChild(e) PROVE LinkInv'
      BY <2>4, <1>0, RetouchKeeps DEF RemoveChild, storage, LinkInv, RowsTyped
    <2>5. ASSUME NEW e \in live, RemoveToken(e) PROVE LinkInv'
      BY <2>5, <1>0, RetouchKeeps DEF RemoveToken, running, LinkInv, RowsTyped
    <2>6. ASSUME NEW f \in live, RemoveLink(f) PROVE LinkInv'
      <3>1. PICK l \in live : row[l].original = f /\ DropRow(l)
        BY <2>6 DEF RemoveLink, First, LinksOf
      <3>2. ~Plain(l)
        BY <3>1, <1>0 DEF LinkInv, LinksKnown, Plain
      <3>3. row' \in [Ids -> Rows] /\ LinksKnown' /\ SharesResolve' /\ OneRowEach'
        BY <2>6, <3>1, <3>2, OnlyFilesReferred, DropKeeps DEF RemoveLink
      <3>4. QED
        BY <2>6, <3>1, <3>3, <1>0 DEF RemoveLink, DropRow, running, LinkInv, RowsTyped
    <2>7. ASSUME NEW e \in live, RemoveData(e) PROVE LinkInv'
      BY <2>7, <1>0, RetouchKeeps DEF RemoveData, running, LinkInv, RowsTyped
    <2>8. ASSUME NEW e \in live, RemoveRow(e) PROVE LinkInv'
      <3>1. e \notin tokens /\ \A l \in live : row[l].original # e
        <4>1. CASE Plain(e)
          BY <2>8, <4>1 DEF RemoveRow, LinksOf
        <4>2. CASE ~Plain(e)
          BY <4>2, OnlyFilesReferred
        <4>3. QED
          BY <4>1, <4>2
      <3>2. DropRow(e) /\ tokens' = tokens
        BY <2>8 DEF RemoveRow
      <3>3. row' \in [Ids -> Rows] /\ LinksKnown' /\ SharesResolve' /\ OneRowEach'
        BY <3>1, <3>2, DropKeeps
      <3>4. QED
        BY <2>8, <3>3, <1>0 DEF RemoveRow, DropRow, LinkInv, RowsTyped
    <2>9. QED
      BY <1>2, <2>1, <2>2, <2>3, <2>4, <2>5, <2>6, <2>7, <2>8 DEF Finish
  <1>3. ASSUME Crash \/ Overflow PROVE LinkInv'
    <2>1. task' = NoTask /\ UNCHANGED <<lastId, live, row, tokens>>
      BY <1>3 DEF Crash, Overflow, Die
    <2>2. QED
      BY <2>1, <1>0, RetouchKeeps DEF LinkInv, RowsTyped
  <1>4. ASSUME UNCHANGED vars PROVE LinkInv'
    BY <1>4, <1>0, RetouchKeeps DEF vars, storage, running, LinkInv, RowsTyped
  <1>5. QED
    BY <1>1, <1>2, <1>3, <1>4 DEF Next

\* A link and a token lead to a file that is there, whatever is removed and
\* wherever the process dies.
THEOREM SharesAlwaysResolve == Spec => []SharesResolve
  <1>1. Init => LinkInv
    BY InitLinks
  <1>2. LinkInv /\ [Next]_vars => LinkInv'
    BY LinkStep
  <1>3. LinkInv => SharesResolve
    BY DEF LinkInv
  <1>4. QED
    BY <1>1, <1>2, <1>3, PTL DEF Spec

\* A user reaches a file through one row, so that notices about the file name
\* it by the id the user knows.
THEOREM OneRowEachAlways == Spec => []OneRowEach
  <1>1. LinkInv => OneRowEach
    BY DEF LinkInv
  <1>2. QED
    BY InitLinks, LinkStep, <1>1, PTL DEF Spec
-----------------------------------------------------------------------------
IsRoot(e)  == row[e].kind = "dir" /\ row[e].parent = NoId
HasRoot(u) == \E r \in live : IsRoot(r) /\ row[r].owner = u

\* Only roots and links that are not placed yet have no folder, and whoever has
\* made something has a root.
Rooted ==
  \A e \in live : /\ row[e].parent = NoId => IsLink(e) \/ row[e].kind = "dir"
                  /\ HasRoot(row[e].creator)

\* A link that is to be placed: what the query for the root finds is the root.
TaskPlaced ==
  /\ task.op = "place" => \E e \in live :
       /\ task.on = e /\ IsLink(e)
       /\ \A d \in live : row[d].parent = NoId /\ row[d].creator = row[e].owner
            => IsRoot(d) /\ row[d].owner = row[e].owner
  /\ stack # << >> => task = NoTask

NoRootRemoved == stack \in Seq(Ids) /\ \A i \in DOMAIN stack : ~IsRoot(stack[i])

FolderInv == LinkInv /\ FoldersKept /\ Rooted /\ TaskPlaced /\ NoRootRemoved
-----------------------------------------------------------------------------
\* A change that leaves kinds, owners and parents alone leaves the folders as they are.
LEMMA FoldersRetouched ==
  ASSUME FolderInv, live' = live,
         \A e \in live : /\ row'[e].kind = row[e].kind
                         /\ row'[e].owner = row[e].owner
                         /\ row'[e].creator = row[e].creator
                         /\ row'[e].parent = row[e].parent
  PROVE  FoldersKept' /\ Rooted'
  <1>1. FoldersKept'
    BY DEF FolderInv, FoldersKept
  <1>2. \A u \in Users : HasRoot(u) => HasRoot(u)'
    BY DEF HasRoot, IsRoot
  <1>3. \A e \in live : row[e].creator \in Users
    BY LiveAreIds DEF FolderInv, LinkInv, RowsTyped, Rows
  <1>4. Rooted'
    BY <1>2, <1>3 DEF FolderInv, Rooted, IsLink
  <1>5. QED
    BY <1>1, <1>4

\* An element moved to a folder of its owner lies in a folder of its owner.
LEMMA FoldersMoved ==
  ASSUME FolderInv, NEW e \in live, NEW d \in live, live' = live, ~IsRoot(e),
         row' = [row EXCEPT ![e].parent = d],
         row[d].kind = "dir", row[d].owner = row[e].owner
  PROVE  FoldersKept' /\ Rooted'
  <1>1. live \subseteq Ids /\ NoId \notin live /\ row \in [Ids -> Rows]
    BY LiveAreIds DEF FolderInv, LinkInv, RowsTyped
  <1>2. \A f \in live : /\ row'[f].kind = row[f].kind
                        /\ row'[f].owner = row[f].owner
                        /\ row'[f].creator = row[f].creator
                        /\ row'[f].parent = IF f = e THEN d ELSE row[f].parent
    BY <1>1 DEF Rows
  <1>3. FoldersKept'
    BY <1>2 DEF FolderInv, FoldersKept
  <1>4. \A f \in live : HasRoot(row[f].creator) => HasRoot(row[f].creator)'
    <2> SUFFICES ASSUME NEW u \in Users, HasRoot(u) PROVE HasRoot(u)'
      BY <1>1, <1>2 DEF Rows, HasRoot
    <2>1. QED
      BY <1>2 DEF HasRoot, IsRoot
  <1>5. Rooted'
    BY <1>1, <1>2, <1>4 DEF FolderInv, Rooted, IsLink
  <1>6. QED
    BY <1>3, <1>5

\* A row added to a folder of its owner, or without a folder as the code allows, keeps the folders.
LEMMA FoldersAdded ==
  ASSUME FolderInv, NEW r \in Rows, NEW n, AddRow(r, n),
         IF r.parent = NoId THEN r.creator # r.owner \/ r.kind = "dir"
         ELSE /\ r.parent \in live /\ row[r.parent].kind = "dir"
              /\ row[r.parent].owner = r.owner,
         \/ HasRoot(r.creator)
         \/ r.kind = "dir" /\ r.parent = NoId /\ r.owner = r.creator
  PROVE  FoldersKept' /\ Rooted'
  <1> DEFINE new == lastId + 1
  <1>1. /\ new \in Ids /\ new \notin live /\ live \subseteq Ids /\ NoId \notin live
        /\ row \in [Ids -> Rows]
    BY LiveAreIds, BoundsAssumption DEF FolderInv, LinkInv, RowsTyped, Ids, AddRow
  <1>2. /\ live' = live \cup {new} /\ row'[new] = r
        /\ \A e \in live : row'[e] = row[e]
    BY <1>1 DEF AddRow
  <1>3. FoldersKept'
    BY <1>2 DEF FolderInv, FoldersKept
  <1>4. \A u \in Users : HasRoot(u) => HasRoot(u)'
    BY <1>2 DEF HasRoot, IsRoot
  <1>5. \A u \in {r.creator} : HasRoot(u)'
    <2>1. CASE HasRoot(r.creator)
      BY <2>1, <1>4 DEF Rows
    <2>2. CASE r.kind = "dir" /\ r.parent = NoId /\ r.owner = r.creator
      BY <2>2, <1>2 DEF HasRoot, IsRoot
    <2>3. QED
      BY <2>1, <2>2
  <1>6. \A e \in live : row[e].creator \in Users /\ HasRoot(row[e].creator)
    BY <1>1 DEF FolderInv, Rooted, Rows
  <1>7. Rooted'
    BY <1>2, <1>4, <1>5, <1>6 DEF FolderInv, Rooted, IsLink
  <1>8. QED
    BY <1>3, <1>7

\* The removal of an element with nothing in it, which is no root, keeps the folders.
LEMMA FoldersDropped ==
  ASSUME FolderInv, NEW e \in live, DropRow(e), ~IsRoot(e),
         row[e].kind = "dir" => Children(e) = {}
  PROVE  /\ FoldersKept' /\ Rooted'
         /\ \A i \in Ids : ~IsRoot(i) => ~IsRoot(i)'
  <1>1. live \subseteq Ids /\ NoId \notin live /\ row \in [Ids -> Rows]
    BY LiveAreIds DEF FolderInv, LinkInv, RowsTyped
  <1>2. live' = live \ {e} /\ \A f \in Ids \ {e} : row'[f] = row[f]
    BY <1>1 DEF DropRow
  <1>3. \A f \in live : row[f].parent # e
    BY <1>1 DEF FolderInv, FoldersKept, Children
  <1>4. FoldersKept'
    BY <1>1, <1>2, <1>3 DEF FolderInv, FoldersKept
  <1>5. \A u \in Users : HasRoot(u) => HasRoot(u)'
    BY <1>1, <1>2 DEF HasRoot, IsRoot
  <1>6. \A f \in live : row[f].creator \in Users /\ HasRoot(row[f].creator)
    BY <1>1 DEF FolderInv, Rooted, Rows
  <1>7. Rooted'
    BY <1>1, <1>2, <1>5, <1>6 DEF FolderInv, Rooted, IsLink
  <1>8. ~IsRoot(e)'
    BY <1>1 DEF DropRow, IsRoot, Blank, Element
  <1>9. QED
    BY <1>2, <1>4, <1>7, <1>8 DEF IsRoot

\* Where the query finds one row, it is the root and belongs to the user.
LEMMA FoundIsRoot ==
  ASSUME FolderInv, NEW u \in Users, RootFound(u), NEW d \in RootRows(u)
  PROVE  IsRoot(d) /\ row[d].owner = u
  <1>1. IsFiniteSet(RootRows(u))
    <2>1. lastId \in Int /\ live \subseteq 1 .. lastId
      BY BoundsAssumption DEF FolderInv, LinkInv, RowsTyped
    <2>2. IsFiniteSet(1 .. lastId)
      BY <2>1, FS_Interval
    <2>3. RootRows(u) \in SUBSET (1 .. lastId)
      BY <2>1 DEF RootRows
    <2>4. QED
      BY <2>2, <2>3, FS_Subset
  <1>2. PICK x : RootRows(u) = {x}
    BY <1>1, FS_Singleton DEF RootFound
  <1>3. HasRoot(u)
    BY DEF FolderInv, Rooted, RootRows
  <1>4. PICK r \in live : IsRoot(r) /\ row[r].owner = u
    BY <1>3 DEF HasRoot
  <1>5. row[r].creator = u
    BY <1>4 DEF FolderInv, LinkInv, LinksKnown, IsLink, IsRoot
  <1>6. r \in RootRows(u)
    BY <1>4, <1>5 DEF RootRows, IsRoot
  <1>7. QED
    BY <1>2, <1>4, <1>6

\* At the start elements lie in folders of their owners.
LEMMA InitFolders == Init => FolderInv
  <1> SUFFICES ASSUME Init PROVE FolderInv
    OBVIOUS
  <1>1. live = DOMAIN FirstRows /\ LinkInv
    BY InitLinks DEF Init
  <1>2. \A e \in live : e \in Ids /\ row[e] = FirstRows[e]
    BY <1>1, LiveAreIds DEF Init
  <1>3. FoldersKept
    <2> SUFFICES ASSUME NEW e \in live, row[e].parent # NoId
                 PROVE  /\ row[e].parent \in live
                        /\ row[row[e].parent].kind = "dir"
                        /\ row[row[e].parent].owner = row[e].owner
      BY DEF FoldersKept
    <2> DEFINE d == FirstRows[e].parent
    <2>1. /\ d \in DOMAIN FirstRows /\ FirstRows[d].kind = "dir"
          /\ FirstRows[d].owner = FirstRows[e].owner
      BY <1>1, <1>2, FirstRowsAssumption
    <2>2. QED
      BY <1>1, <1>2, <2>1
  <1>4. \A e \in live : HasRoot(row[e].owner) /\ row[e].creator = row[e].owner
    BY <1>1, <1>2, FirstRowsAssumption DEF HasRoot, IsRoot
  <1>5. Rooted
    BY <1>1, <1>2, <1>4, FirstRowsAssumption DEF Rooted
  <1>6. TaskPlaced /\ NoRootRemoved
    BY DEF Init, TaskPlaced, NoRootRemoved, NoTask, Todo
  <1>7. QED
    BY <1>1, <1>3, <1>5, <1>6 DEF FolderInv

\* Every step keeps elements in folders of their owners, and the roots.
LEMMA FolderStep == FolderInv /\ [Next]_vars => FolderInv'
  <1> SUFFICES ASSUME FolderInv, [Next]_vars PROVE FolderInv'
    OBVIOUS
  <1> USE DEF Idle, NoTask, Todo
  <1>0. /\ row \in [Ids -> Rows] /\ live \subseteq Ids /\ NoId \notin live
        /\ stack \in Seq(Ids) /\ \A i \in DOMAIN stack : ~IsRoot(stack[i])
        /\ \A e \in live : row[e] \in Rows
    BY LiveAreIds DEF FolderInv, LinkInv, RowsTyped, NoRootRemoved
  <1>l. LinkInv'
    BY LinkStep DEF FolderInv
  <1>i. ASSUME stack' = << >>, FoldersKept', Rooted', TaskPlaced' PROVE FolderInv'
    BY <1>i, <1>l DEF FolderInv, NoRootRemoved
  <1>1. ASSUME NEW u \in Users, Request(u) PROVE FolderInv'
    <2>1. CASE Register(u) \/ Refresh(u) \/ \E e \in live : Share(u, e) \/ Reopen(u, e)
      <3>1. /\ live' = live /\ row' = row /\ stack' = << >>
            /\ task'.op # "place"
        BY <2>1 DEF Register, Refresh, Share, Reopen, storage, running
      <3>2. QED
        BY <3>1, <1>i, FoldersRetouched DEF TaskPlaced
    <2>2. ASSUME NEW d \in live, NEW n, MakeDir(u, d, n) \/ MakeFile(u, d, n) PROVE FolderInv'
      <3>1. PICK k \in {"dir", "file"} : AddRow(Element(k, u, d), n)
        BY <2>2 DEF MakeDir, MakeFile
      <3>2. /\ row[d].owner = u /\ row[d].kind = "dir"
            /\ stack' = << >> /\ task'.op # "place"
        BY <2>2 DEF MakeDir, MakeFile, Folders, running
      <3>3. row[d].creator = u
        BY <3>2 DEF FolderInv, LinkInv, LinksKnown, IsLink
      <3>4. HasRoot(u)
        BY <3>3 DEF FolderInv, Rooted
      <3>5. Element(k, u, d) \in Rows
        BY ElementIsRow, <1>0
      <3>6. FoldersKept' /\ Rooted'
        BY <3>1, <3>2, <3>4, <3>5, <1>0, FoldersAdded DEF Element
      <3>7. QED
        BY <3>2, <3>6, <1>i DEF TaskPlaced
    <2>3. ASSUME NEW f \in live, Activate(u, f) PROVE FolderInv'
      <3> DEFINE new == lastId + 1
      <3>1. f \in tokens /\ Plain(f) /\ RootFound(u) /\ row[f].creator # u
        BY <2>3 DEF Activate, FolderInv, LinkInv, SharesResolve
      <3>2. /\ Clone(u, f) \in Rows /\ Clone(u, f).parent = NoId
            /\ Clone(u, f).kind = "file" /\ Clone(u, f).owner = u
            /\ Clone(u, f).creator = row[f].creator
        BY <1>0, <3>1 DEF Clone, Rows, Plain
      <3>3. AddRow(Clone(u, f), name[f]) /\ task' = Todo("place", new) /\ stack' = << >>
        BY <2>3 DEF Activate
      <3>4. HasRoot(row[f].creator)
        BY DEF FolderInv, Rooted
      <3>5. FoldersKept' /\ Rooted'
        BY <3>1, <3>2, <3>3, <3>4, FoldersAdded
      <3>6. /\ new \in Ids /\ new \notin live
            /\ live' = live \cup {new} /\ row'[new] = Clone(u, f)
            /\ \A e \in live : row'[e] = row[e]
        BY <3>3, <1>0, BoundsAssumption DEF FolderInv, LinkInv, RowsTyped, Ids, AddRow
      <3>7. \A d \in live : row[d].parent = NoId /\ row[d].creator = u
              => IsRoot(d) /\ row[d].owner = u
        BY <3>1, FoundIsRoot DEF RootRows
      <3>8. \A e \in {new} : IsLink(e)'
        BY <3>1, <3>2, <3>6 DEF IsLink
      <3>9. \A e \in {new} : \A d \in live' :
              row'[d].parent = NoId /\ row'[d].creator = row'[e].owner
                => IsRoot(d)' /\ row'[d].owner = row'[e].owner
        BY <3>1, <3>2, <3>6, <3>7 DEF IsRoot
      <3>10. TaskPlaced'
        BY <3>3, <3>6, <3>8, <3>9 DEF TaskPlaced
      <3>11. QED
        BY <3>3, <3>5, <3>10, <1>i
    <2>4. ASSUME NEW e \in live, Delete(u, e) PROVE FolderInv'
      <3>1. ~IsRoot(e) /\ stack' = <<e>> /\ task' = NoTask /\ live' = live /\ row' = row
        BY <2>4, <1>0 DEF Delete, Listed, IsRoot, storage
      <3>2. FoldersKept' /\ Rooted' /\ TaskPlaced'
        BY <3>1, FoldersRetouched DEF TaskPlaced
      <3>3. NoRootRemoved'
        BY <3>1, <1>0 DEF NoRootRemoved, IsRoot
      <3>4. QED
        BY <3>2, <3>3, <1>l DEF FolderInv
    <2>5. ASSUME NEW e \in live, NEW pars \in 0 .. MaxPars[u], Insert(u, e, pars) PROVE FolderInv'
      <3>1. \A f \in live : /\ row'[f].kind = row[f].kind
                            /\ row'[f].owner = row[f].owner
                            /\ row'[f].creator = row[f].creator
                            /\ row'[f].parent = row[f].parent
        BY <2>5, <1>0 DEF Insert, Rows
      <3>2. live' = live /\ stack' = << >> /\ task'.op # "place"
        BY <2>5 DEF Insert, running
      <3>3. QED
        BY <3>1, <3>2, <1>i, FoldersRetouched DEF TaskPlaced
    <2>6. ASSUME NEW e \in live, NEW n, Rename(u, e, n) PROVE FolderInv'
      <3>1. live' = live /\ row' = row /\ stack' = << >> /\ task'.op # "place"
        BY <2>6 DEF Rename, storage, running
      <3>2. QED
        BY <3>1, <1>i, FoldersRetouched DEF TaskPlaced
    <2>7. ASSUME NEW e \in live, NEW d \in live, Move(u, e, d) PROVE FolderInv'
      <3>1. /\ row[e].owner = u /\ ~IsRoot(e)
            /\ row[d].owner = u /\ row[d].kind = "dir"
            /\ live' = live /\ row' = [row EXCEPT ![e].parent = d]
            /\ stack' = << >> /\ task'.op # "place"
        BY <2>7 DEF Move, Listed, Offered, Folders, IsRoot, running
      <3>2. QED
        BY <3>1, <1>i, FoldersMoved DEF TaskPlaced
    <2>8. QED
      BY <1>1, <2>1, <2>2, <2>3, <2>4, <2>5, <2>6, <2>7 DEF Request
  <1>2. ASSUME MakeRoot \/ WriteData \/ Place PROVE FolderInv'
    <2>1. stack = << >> /\ stack' = << >> /\ TaskPlaced'
      BY <1>2 DEF MakeRoot, WriteData, Place, FolderInv, TaskPlaced
    <2>2. CASE MakeRoot
      <3>1. Element("dir", task.on, NoId) \in Rows
        BY <2>2, ElementIsRow DEF MakeRoot, FolderInv, LinkInv, RowsTyped
      <3>2. FoldersKept' /\ Rooted'
        BY <2>2, <3>1, FoldersAdded DEF MakeRoot, Element
      <3>3. QED
        BY <2>1, <3>2, <1>i
    <2>3. CASE WriteData
      BY <2>1, <2>3, <1>i, FoldersRetouched DEF WriteData
    <2>4. CASE Place
      <3>1. PICK e \in live :
              /\ task.on = e /\ IsLink(e)
              /\ \A d \in live : row[d].parent = NoId /\ row[d].creator = row[e].owner
                   => IsRoot(d) /\ row[d].owner = row[e].owner
        BY <2>4 DEF Place, FolderInv, TaskPlaced
      <3>2. PICK d \in RootRows(row[e].owner) : row' = [row EXCEPT ![e].parent = d]
        BY <2>4, <3>1 DEF Place
      <3>3. d \in live /\ row[d].kind = "dir" /\ row[d].owner = row[e].owner
        BY <3>1, <3>2 DEF RootRows, IsRoot
      <3>4. ~IsRoot(e)
        BY <3>1 DEF IsRoot, FolderInv, LinkInv, LinksKnown
      <3>5. FoldersKept' /\ Rooted'
        BY <2>4, <3>2, <3>3, <3>4, FoldersMoved DEF Place
      <3>6. QED
        BY <2>1, <3>5, <1>i
    <2>5. QED
      BY <1>2, <2>2, <2>3, <2>4
  <1>3. ASSUME NEW e \in live, RemoveChild(e) PROVE FolderInv'
    <2>1. /\ stack # << >> /\ stack' = Append(stack, e) /\ row[e].parent = Top
          /\ task' = task /\ live' = live /\ row' = row
      BY <1>3 DEF RemoveChild, First, Children, storage
    <2>2. Top \in Ids
      BY <2>1, <1>0 DEF Top
    <2>3. ~IsRoot(e)
      BY <2>1, <2>2 DEF IsRoot, NoId, Ids
    <2>4. NoRootRemoved'
      <3>1. /\ stack' \in Seq(Ids) /\ DOMAIN stack' = 1 .. Len(stack) + 1
            /\ stack'[Len(stack) + 1] = e
            /\ \A i \in 1 .. Len(stack) : stack'[i] = stack[i]
        BY <2>1, <1>0
      <3>2. \A i \in DOMAIN stack' : i \in DOMAIN stack \/ i = Len(stack) + 1
        BY <3>1, <1>0
      <3>3. \A i \in DOMAIN stack' : ~IsRoot(stack[i]) \/ i = Len(stack) + 1
        BY <3>2, <1>0
      <3>4. QED
        BY <2>1, <2>3, <3>1, <3>2, <3>3, <1>0 DEF NoRootRemoved, IsRoot
    <2>5. FoldersKept' /\ Rooted' /\ TaskPlaced'
      BY <2>1, FoldersRetouched DEF FolderInv, TaskPlaced
    <2>6. QED
      BY <2>4, <2>5, <1>l DEF FolderInv
  <1>4. ASSUME NEW e \in live, RemoveToken(e) \/ RemoveData(e) PROVE FolderInv'
    <2>1. stack # << >> /\ stack' = stack /\ task' = task /\ live' = live /\ row' = row
      BY <1>4 DEF RemoveToken, RemoveData, Removing, running
    <2>2. FoldersKept' /\ Rooted' /\ TaskPlaced'
      BY <2>1, FoldersRetouched DEF FolderInv, TaskPlaced
    <2>3. NoRootRemoved'
      BY <2>1, <1>0 DEF NoRootRemoved, IsRoot
    <2>4. QED
      BY <2>2, <2>3, <1>l DEF FolderInv
  <1>5. ASSUME NEW f \in live, RemoveLink(f) PROVE FolderInv'
    <2>1. PICK l \in live : row[l].original = f /\ DropRow(l)
      BY <1>5 DEF RemoveLink, First, LinksOf
    <2>2. stack # << >> /\ stack' = stack /\ task' = task
      BY <1>5 DEF RemoveLink, Removing, running
    <2>3. row[l].kind = "file"
      BY <2>1, <1>0 DEF FolderInv, LinkInv, LinksKnown
    <2>4. FoldersKept' /\ Rooted' /\ \A i \in Ids : ~IsRoot(i) => ~IsRoot(i)'
      BY <2>1, <2>3, FoldersDropped DEF IsRoot
    <2>5. TaskPlaced'
      BY <2>2 DEF FolderInv, TaskPlaced
    <2>6. NoRootRemoved'
      BY <2>2, <2>4, <1>0 DEF NoRootRemoved, IsRoot
    <2>7. QED
      BY <2>4, <2>5, <2>6, <1>l DEF FolderInv
  <1>6. ASSUME NEW e \in live, RemoveRow(e) PROVE FolderInv'
    <2>1. /\ stack # << >> /\ e = stack[Len(stack)]
          /\ stack' = SubSeq(stack, 1, Len(stack) - 1) /\ task' = task /\ DropRow(e)
          /\ row[e].kind = "dir" => Children(e) = {}
      BY <1>6 DEF RemoveRow, Removing, Top
    <2>2. ~IsRoot(e)
      BY <2>1, <1>0
    <2>3. FoldersKept' /\ Rooted' /\ \A i \in Ids : ~IsRoot(i) => ~IsRoot(i)'
      BY <2>1, <2>2, FoldersDropped
    <2>4. /\ stack' \in Seq(Ids)
          /\ \A i \in DOMAIN stack' : i \in DOMAIN stack /\ stack'[i] = stack[i]
      BY <2>1, <1>0
    <2>5. NoRootRemoved'
      BY <2>3, <2>4, <1>0 DEF NoRootRemoved, IsRoot
    <2>6. TaskPlaced'
      BY <2>1 DEF FolderInv, TaskPlaced
    <2>7. QED
      BY <2>3, <2>5, <2>6, <1>l DEF FolderInv
  <1>7. ASSUME Crash \/ Overflow PROVE FolderInv'
    <2>1. task' = NoTask /\ stack' = << >> /\ live' = live /\ row' = row
      BY <1>7 DEF Crash, Overflow, Die
    <2>2. QED
      BY <2>1, <1>i, FoldersRetouched DEF TaskPlaced
  <1>8. ASSUME UNCHANGED vars PROVE FolderInv'
    BY <1>8, <1>l DEF vars, storage, running, FolderInv, FoldersKept, Rooted, HasRoot,
       IsRoot, IsLink, TaskPlaced, NoRootRemoved
  <1>9. QED
    BY <1>1, <1>2, <1>3, <1>4, <1>5, <1>6, <1>7, <1>8 DEF Next, Finish

\* An element lies in a folder of its owner, also after a removal or an
\* activation that the death of the process has cut off.
THEOREM FoldersAlwaysKept == Spec => []FoldersKept
  <1>1. FolderInv => FoldersKept
    BY DEF FolderInv
  <1>2. QED
    BY InitFolders, FolderStep, <1>1, PTL DEF Spec
-----------------------------------------------------------------------------
\* Loads, with the one call that may be past the data of its file: the topmost
\* one, of a file that is no link.
DataInv ==
  \A e \in live : row[e].kind = "file" =>
    \/ Data(e) \in disk
    \/ Todo("data", Data(e)) \in torn \cup {task}
    \/ Plain(e) /\ Removing(e)

\* A step that adds no row and takes no data away: who still has to write data
\* writes them, stays, or is remembered in torn.
LEMMA DataStays ==
  ASSUME DataInv, live' \subseteq live, disk \subseteq disk',
         \A e \in live' : /\ row'[e].kind = row[e].kind
                          /\ row'[e].owner = row[e].owner
                          /\ row'[e].creator = row[e].creator
                          /\ row'[e].original = row[e].original,
         \A f : Todo("data", f) \in torn \cup {task} =>
                  f \in disk' \/ Todo("data", f) \in torn' \cup {task'},
         \A e \in live' : Plain(e) /\ Removing(e) /\ e \notin disk' =>
                  Removing(e)' \/ Todo("data", e) \in torn'
  PROVE  DataInv'
  <1> SUFFICES ASSUME NEW e \in live', row'[e].kind = "file"
               PROVE  \/ Data(e)' \in disk'
                      \/ Todo("data", Data(e)') \in torn' \cup {task'}
                      \/ Plain(e)' /\ Removing(e)'
    BY DEF DataInv, Todo
  <1>1. Data(e)' = Data(e) /\ (Plain(e)' <=> Plain(e))
    BY DEF Data, Plain, IsLink
  <1>2. CASE Data(e) \in disk
    BY <1>1, <1>2
  <1>3. CASE Todo("data", Data(e)) \in torn \cup {task}
    BY <1>1, <1>3
  <1>4. CASE Plain(e) /\ Removing(e)
    <2>1. Data(e) = e
      BY <1>4 DEF Data, Plain
    <2>2. QED
      BY <1>1, <1>4, <2>1
  <1>5. QED
    BY <1>2, <1>3, <1>4 DEF DataInv

\* A new row is a folder, a file whose data are written next, or a link.
LEMMA DataAdded ==
  ASSUME LinkInv, DataInv, NEW r, NEW n, AddRow(r, n),
         disk' = disk, torn' = torn, stack = << >>, task.op # "data",
         \/ r.kind = "dir"
         \/ r.creator = r.owner /\ task' = Todo("data", lastId + 1)
         \/ r.creator # r.owner /\ r.original \in live /\ Plain(r.original)
  PROVE  DataInv'
  <1> DEFINE new == lastId + 1
  <1>1. new \in Ids /\ new \notin live /\ live \subseteq Ids
    BY BoundsAssumption DEF LinkInv, RowsTyped, Ids, AddRow
  <1>2. /\ live' = live \cup {new} /\ row'[new] = r
        /\ \A e \in live : row'[e] = row[e]
    BY <1>1 DEF AddRow, LinkInv, RowsTyped
  <1>3. \A f : Todo("data", f) \in torn \cup {task} => Todo("data", f) \in torn'
    BY DEF Todo
  <1>4. \A e \in live : Data(e)' = Data(e)
    BY <1>2 DEF Data, IsLink
  <1>5. \A e \in live : ~Removing(e)
    BY DEF Removing
  <1>6. ASSUME NEW e \in live, row'[e].kind = "file"
        PROVE  Data(e)' \in disk' \/ Todo("data", Data(e)') \in torn' \cup {task'}
    BY <1>2, <1>3, <1>4, <1>5, <1>6 DEF DataInv
  <1>7. ASSUME NEW e \in {new}, row'[e].kind = "file"
        PROVE  Data(e)' \in disk' \/ Todo("data", Data(e)') \in torn' \cup {task'}
    <2>1. CASE r.creator = r.owner /\ task' = Todo("data", new)
      BY <1>2, <2>1 DEF Data, IsLink
    <2>2. CASE r.creator # r.owner /\ r.original \in live /\ Plain(r.original)
      <3> DEFINE f == r.original
      <3>1. Data(e)' = f
        BY <1>2, <2>2 DEF Data, IsLink
      <3>2. row[f].kind = "file" /\ Data(f) = f
        BY <2>2 DEF Plain, Data
      <3>3. f \in disk \/ Todo("data", f) \in torn \cup {task}
        BY <3>2, <2>2, <1>5 DEF DataInv
      <3>4. QED
        BY <1>3, <3>1, <3>3
    <2>3. QED
      BY <1>2, <1>7, <2>1, <2>2
  <1>8. QED
    BY <1>2, <1>6, <1>7 DEF DataInv, Todo

\* The data of a file go after its links, so no other document is lost.
LEMMA DataRemoved ==
  ASSUME LinkInv, DataInv, NEW f \in live, RemoveData(f)
  PROVE  DataInv'
  <1>1. /\ Removing(f) /\ Plain(f) /\ LinksOf(f) = {} /\ disk' = disk \ {f}
        /\ live' = live /\ row' = row /\ torn' = torn /\ task' = task /\ stack' = stack
    BY DEF RemoveData, running, history
  <1>2. \A e \in live : Data(e)' = Data(e) /\ (Plain(e)' <=> Plain(e))
    BY <1>1 DEF Data, Plain, IsLink
  <1>3. \A e \in live : Removing(e)' <=> Removing(e)
    BY <1>1 DEF Removing, Top
  <1>4. \A e \in live : Data(e) = f => e = f
    BY <1>1 DEF Data, LinksOf
  <1>5. \A e \in live : row[e].kind = "file" /\ e # f =>
          \/ Data(e) \in disk'
          \/ Todo("data", Data(e)) \in torn \cup {task}
          \/ Plain(e) /\ Removing(e)
    BY <1>1, <1>4 DEF DataInv
  <1>6. QED
    BY <1>1, <1>2, <1>3, <1>5 DEF DataInv, Todo

\* Every step keeps a document readable, or remembers why it is not.
LEMMA DataStep ==
  ASSUME FolderInv, DataInv, [Next]_vars
  PROVE  DataInv'
  <1> USE DEF Idle, NoTask, Todo
  <1>0. /\ LinkInv /\ row \in [Ids -> Rows] /\ live \subseteq Ids
        /\ stack # << >> => task = NoTask
    BY LiveAreIds DEF FolderInv, LinkInv, RowsTyped, TaskPlaced
  <1>s. ASSUME live' = live, disk' = disk, torn' = torn, stack = << >>, task.op # "data",
               \A e \in live : /\ row'[e].kind = row[e].kind
                               /\ row'[e].owner = row[e].owner
                               /\ row'[e].creator = row[e].creator
                               /\ row'[e].original = row[e].original
        PROVE  DataInv'
    BY <1>s, DataStays DEF Removing
  <1>1. ASSUME NEW u \in Users, Request(u) PROVE DataInv'
    <2>0. Idle
      BY <1>1 DEF Request, Register, Refresh, MakeDir, MakeFile, Share, Activate, Delete,
                  Reopen, Insert, Rename, Move
    <2>1. CASE Register(u)
      BY <2>0, <2>1, <1>s DEF Register, history
    <2>2. CASE Refresh(u)
      BY <2>0, <2>2, <1>s DEF Refresh, storage, history
    <2>3. ASSUME NEW d \in live, NEW n, MakeDir(u, d, n) PROVE DataInv'
      BY <2>0, <2>3, <1>0, DataAdded DEF MakeDir, Element, history
    <2>4. ASSUME NEW d \in live, NEW n, MakeFile(u, d, n) PROVE DataInv'
      BY <2>0, <2>4, <1>0, DataAdded DEF MakeFile, Element, history
    <2>5. ASSUME NEW e \in live, Share(u, e) \/ Reopen(u, e) PROVE DataInv'
      BY <2>0, <2>5, <1>s DEF Share, Reopen, running, history
    <2>6. ASSUME NEW f \in live, Activate(u, f) PROVE DataInv'
      <3>1. f \in tokens /\ Plain(f) /\ row[f].creator # u
        BY <2>6 DEF Activate, LinkInv, SharesResolve, FolderInv
      <3>2. Clone(u, f).creator = row[f].creator /\ Clone(u, f).owner = u
            /\ Clone(u, f).original = f
        BY <1>0 DEF Clone, Rows
      <3>3. QED
        BY <2>0, <2>6, <3>1, <3>2, <1>0, DataAdded DEF Activate
    <2>7. ASSUME NEW e \in live, Delete(u, e) PROVE DataInv'
      BY <2>0, <2>7, <1>s DEF Delete, storage, history
    <2>8. ASSUME NEW e \in live, NEW pars \in 0 .. MaxPars[u], Insert(u, e, pars) PROVE DataInv'
      <3>1. \A x \in live : /\ row'[x].kind = row[x].kind
                            /\ row'[x].owner = row[x].owner
                            /\ row'[x].creator = row[x].creator
                            /\ row'[x].original = row[x].original
        BY <2>8, <1>0 DEF Insert, Rows
      <3>2. QED
        BY <2>0, <2>8, <3>1, <1>s DEF Insert, history
    <2>9. ASSUME NEW e \in live, NEW n, Rename(u, e, n) PROVE DataInv'
      BY <2>0, <2>9, <1>s DEF Rename, storage, history
    <2>10. ASSUME NEW e \in live, NEW d \in live, Move(u, e, d) PROVE DataInv'
      <3>1. \A x \in live : /\ row'[x].kind = row[x].kind
                            /\ row'[x].owner = row[x].owner
                            /\ row'[x].creator = row[x].creator
                            /\ row'[x].original = row[x].original
        BY <2>10, <1>0 DEF Move, Rows
      <3>2. QED
        BY <2>0, <2>10, <3>1, <1>s DEF Move
    <2>11. QED
      BY <1>1, <2>1, <2>2, <2>3, <2>4, <2>5, <2>6, <2>7, <2>8, <2>9, <2>10 DEF Request
  <1>2. CASE MakeRoot
    <2>1. stack = << >> /\ Element("dir", task.on, NoId).kind = "dir"
      BY <1>0, <1>2 DEF MakeRoot, Element
    <2>2. QED
      BY <1>2, <2>1, <1>0, DataAdded DEF MakeRoot, history
  <1>3. CASE WriteData
    <2>1. stack = << >>
      BY <1>0, <1>3 DEF WriteData
    <2>2. \A f : Todo("data", f) \in torn \cup {task} =>
            f \in disk' \/ Todo("data", f) \in torn' \cup {task'}
      BY <1>3 DEF WriteData, history
    <2>3. QED
      BY <1>3, <2>1, <2>2, DataStays DEF WriteData, Removing
  <1>4. CASE Place
    <2>1. PICK d : row' = [row EXCEPT ![task.on].parent = d]
      BY <1>4 DEF Place
    <2>2. \A x \in live : /\ row'[x].kind = row[x].kind
                          /\ row'[x].owner = row[x].owner
                          /\ row'[x].creator = row[x].creator
                          /\ row'[x].original = row[x].original
      BY <2>1, <1>0 DEF Rows
    <2>3. stack = << >>
      BY <1>0, <1>4 DEF Place
    <2>4. QED
      BY <1>4, <2>2, <2>3, <1>s DEF Place, history
  <1>5. ASSUME NEW c \in live, RemoveChild(c) PROVE DataInv'
    <2>1. /\ row[Top].kind = "dir" /\ live' = live /\ row' = row /\ disk' = disk
          /\ torn' = torn /\ task' = task
      BY <1>5 DEF RemoveChild, storage, history
    <2>2. \A e \in live : ~(Plain(e) /\ Removing(e))
      BY <2>1 DEF Plain, Removing
    <2>3. QED
      BY <2>1, <2>2, DataStays
  <1>6. ASSUME NEW f \in live, RemoveToken(f) PROVE DataInv'
    <2>1. /\ live' = live /\ row' = row /\ disk' = disk /\ torn' = torn
          /\ task' = task /\ stack' = stack
      BY <1>6 DEF RemoveToken, running, history
    <2>2. \A e \in live : Removing(e) => Removing(e)'
      BY <2>1 DEF Removing, Top
    <2>3. QED
      BY <2>1, <2>2, DataStays
  <1>7. ASSUME NEW f \in live, RemoveLink(f) PROVE DataInv'
    <2>1. PICK l \in live : DropRow(l)
      BY <1>7 DEF RemoveLink, First, LinksOf
    <2>2. live' = live \ {l} /\ \A e \in live' : row'[e] = row[e]
      BY <2>1, <1>0 DEF DropRow
    <2>3. disk' = disk /\ torn' = torn /\ task' = task /\ stack' = stack
      BY <1>7 DEF RemoveLink, running, history
    <2>4. \A e \in live : Removing(e) => Removing(e)'
      BY <2>3 DEF Removing, Top
    <2>5. QED
      BY <2>2, <2>3, <2>4, DataStays
  <1>8. ASSUME NEW f \in live, RemoveData(f) PROVE DataInv'
    BY <1>0, <1>8, DataRemoved
  <1>9. ASSUME NEW f \in live, RemoveRow(f) PROVE DataInv'
    <2>1. live' = live \ {f} /\ \A e \in live' : row'[e] = row[e]
      BY <1>9, <1>0 DEF RemoveRow, DropRow
    <2>2. disk' = disk /\ torn' = torn /\ task' = task
      BY <1>9 DEF RemoveRow, history
    <2>3. \A e \in live' : ~Removing(e)
      BY <1>9, <2>1 DEF RemoveRow, Removing
    <2>4. QED
      BY <2>1, <2>2, <2>3, DataStays
  <1>10. CASE Crash \/ Overflow
    <2>1. torn' = torn \cup CutOff /\ live' = live /\ row' = row /\ disk' = disk
      BY <1>10 DEF Crash, Overflow, Die
    <2>2. \A f : Todo("data", f) \in torn \cup {task} => Todo("data", f) \in torn'
      BY <2>1, <1>0 DEF CutOff
    <2>3. \A e \in live : Plain(e) /\ Removing(e) /\ e \notin disk => Todo("data", e) \in CutOff
      BY DEF CutOff, Removing
    <2>4. QED
      BY <2>1, <2>2, <2>3, DataStays
  <1>11. CASE UNCHANGED vars
    <2>1. \A e \in live : Removing(e) => Removing(e)'
      BY <1>11 DEF Removing, Top, vars, running
    <2>2. QED
      BY <1>11, <2>1, DataStays DEF vars, storage, running, history
  <1>12. QED
    BY <1>1, <1>2, <1>3, <1>4, <1>5, <1>6, <1>7, <1>8, <1>9, <1>10, <1>11 DEF Next, Finish

\* A document that can be reached can be loaded, unless the process died before
\* it was written or after its data were removed.
THEOREM ReachableMeansLoadable == Spec => []Loads
  <1>1. Init => DataInv
    <2> SUFFICES ASSUME Init PROVE DataInv
      OBVIOUS
    <2>1. \A e \in live : e \in DOMAIN FirstRows /\ e \in Ids /\ row[e] = FirstRows[e]
      BY InitLinks, LiveAreIds DEF Init
    <2>2. \A e \in live : Data(e) = e
      BY <2>1, FirstRowsAssumption DEF Data, IsLink
    <2>3. QED
      BY <2>1, <2>2 DEF Init, DataInv
  <1>2. DataInv => Loads
    BY DEF DataInv, Loads
  <1>3. Init => FolderInv
    BY InitFolders
  <1>4. FolderInv /\ DataInv /\ [Next]_vars => FolderInv' /\ DataInv'
    BY FolderStep, DataStep
  <1>5. QED
    BY <1>1, <1>2, <1>3, <1>4, PTL DEF Spec
-----------------------------------------------------------------------------
\* The roots and links that a handler, running or cut off, still has to make or
\* to place.
Pending == {t \in torn \cup {task} : t.op \in {"root", "place"}}

PendingInv ==
  /\ task = Todo(task.op, task.on) /\ (task \in Pending => task \notin torn)
  /\ \A t \in Pending : /\ t.op = "place" => /\ t.on \in 1 .. lastId
                                             /\ t.on \in live => IsLink(t.on)
                        /\ t.op = "root" => t.on \in users

\* Who owns or has made something is registered.
Registered ==
  users \subseteq Users /\ \A e \in live : row[e].owner \in users /\ row[e].creator \in users

Unplaced ==
  \A l \in live : IsLink(l) => (row[l].parent = NoId <=> Todo("place", l) \in Pending)

RootsMade == \A u \in users : HasRoot(u) <=> Todo("root", u) \notin Pending

OneRoot ==
  \A d, e \in live : IsRoot(d) /\ IsRoot(e) /\ row[d].owner = row[e].owner => d = e

RootInv == PendingInv /\ Registered /\ Unplaced /\ RootsMade /\ OneRoot

\* A step that adds no row and removes no root, and leaves to do what there was.
LEMMA RootsStay ==
  ASSUME FolderInv, RootInv, live' \subseteq live, users' = users, lastId' = lastId,
         Pending' = Pending, task' \in Pending' => task' \notin torn',
         task' = Todo(task'.op, task'.on),
         \A e \in live \ live' : ~IsRoot(e),
         \A e \in live' : /\ row'[e].kind = row[e].kind
                          /\ row'[e].owner = row[e].owner
                          /\ row'[e].creator = row[e].creator
                          /\ row'[e].parent = NoId <=> row[e].parent = NoId
  PROVE  RootInv'
  <1>1. \A e \in live' : (IsRoot(e)' <=> IsRoot(e)) /\ (IsLink(e)' <=> IsLink(e))
    BY DEF IsRoot, IsLink
  <1>2. \A u \in users : HasRoot(u)' <=> HasRoot(u)
    BY <1>1 DEF HasRoot
  <1>3. PendingInv'
    BY <1>1 DEF RootInv, PendingInv
  <1>4. Registered'
    BY DEF RootInv, Registered
  <1>5. Unplaced'
    BY <1>1 DEF RootInv, Unplaced, Todo
  <1>6. RootsMade'
    BY <1>2 DEF RootInv, RootsMade, Todo
  <1>7. OneRoot'
    BY <1>1 DEF RootInv, OneRoot
  <1>8. QED
    BY <1>3, <1>4, <1>5, <1>6, <1>7 DEF RootInv

\* What a new row is for the rows that were there.
LEMMA RowAdded ==
  ASSUME LinkInv, NEW r, NEW n, AddRow(r, n)
  PROVE  /\ lastId + 1 \in Ids /\ lastId + 1 \notin live /\ lastId' = lastId + 1
         /\ live' = live \cup {lastId + 1} /\ row'[lastId + 1] = r
         /\ \A e \in live : /\ row'[e] = row[e]
                            /\ IsRoot(e)' <=> IsRoot(e)
                            /\ IsLink(e)' <=> IsLink(e)
  <1>1. lastId + 1 \in Ids /\ lastId + 1 \notin live /\ live \subseteq Ids
    BY BoundsAssumption DEF LinkInv, RowsTyped, Ids, AddRow
  <1>2. /\ lastId' = lastId + 1 /\ live' = live \cup {lastId + 1} /\ row'[lastId + 1] = r
        /\ \A e \in live : row'[e] = row[e]
    BY <1>1 DEF AddRow, LinkInv, RowsTyped
  <1>3. QED
    BY <1>1, <1>2 DEF IsRoot, IsLink

\* A new folder or file.
LEMMA RootsBeside ==
  ASSUME FolderInv, RootInv, NEW k \in {"dir", "file"}, NEW u \in users, NEW d \in Ids, NEW n,
         AddRow(Element(k, u, d), n), users' = users, Pending' = Pending,
         task' \notin Pending', task' = Todo(task'.op, task'.on)
  PROVE  RootInv'
  <1> DEFINE new == lastId + 1
  <1>1. /\ live' = live \cup {new} /\ new \notin live /\ lastId' = new /\ lastId \in Nat
        /\ \A e \in live : /\ row'[e] = row[e]
                           /\ IsRoot(e)' <=> IsRoot(e)
                           /\ IsLink(e)' <=> IsLink(e)
    BY RowAdded DEF FolderInv, LinkInv, RowsTyped
  <1>2. row'[new] = Element(k, u, d)
    BY RowAdded DEF FolderInv
  <1>3. \A e \in {new} : ~IsRoot(e)' /\ ~IsLink(e)'
    BY <1>2 DEF IsRoot, IsLink, Element, Ids, NoId
  <1>4. \A v \in users : HasRoot(v)' <=> HasRoot(v)
    BY <1>1, <1>3 DEF HasRoot
  <1>5. PendingInv'
    <2>1. \A t \in Pending : t.op = "place" => /\ t.on \in 1 .. new /\ t.on # new
                                               /\ t.on \in live => IsLink(t.on)'
      BY <1>1 DEF RootInv, PendingInv
    <2>2. QED
      BY <1>1, <2>1 DEF RootInv, PendingInv
  <1>6. Registered'
    BY <1>1, <1>2 DEF RootInv, Registered, Element
  <1>7. Unplaced'
    BY <1>1, <1>3 DEF RootInv, Unplaced, Todo
  <1>8. RootsMade'
    BY <1>4 DEF RootInv, RootsMade, Todo
  <1>9. OneRoot'
    BY <1>1, <1>3 DEF RootInv, OneRoot
  <1>10. QED
    BY <1>5, <1>6, <1>7, <1>8, <1>9 DEF RootInv

\* The root of a user who has none yet.
LEMMA RootsGrow ==
  ASSUME FolderInv, RootInv, MakeRoot
  PROVE  RootInv'
  <1> DEFINE new == lastId + 1
             u == task.on
  <1> USE DEF NoTask, Todo
  <1>0. /\ task.op = "root" /\ task' = NoTask /\ torn' = torn /\ users' = users
        /\ AddRow(Element("dir", u, NoId), RootName) /\ LinkInv
    BY DEF MakeRoot, history, FolderInv
  <1>1. /\ live' = live \cup {new} /\ new \notin live /\ lastId' = new /\ lastId \in Nat
        /\ \A e \in live : /\ row'[e] = row[e]
                           /\ IsRoot(e)' <=> IsRoot(e)
                           /\ IsLink(e)' <=> IsLink(e)
    BY <1>0, RowAdded DEF LinkInv, RowsTyped
  <1>2. row'[new] = Element("dir", u, NoId)
    BY <1>0, RowAdded
  <1>3. \A e \in {new} : IsRoot(e)' /\ ~IsLink(e)' /\ row'[e].owner = u
    BY <1>2 DEF IsRoot, IsLink, Element
  <1>4. task \in Pending /\ task \notin torn /\ u \in users
    BY <1>0 DEF Pending, RootInv, PendingInv
  <1>5. Pending' = Pending \ {task}
    BY <1>0, <1>4 DEF Pending
  <1>6. \A v \in users : HasRoot(v)' <=> HasRoot(v) \/ v = u
    BY <1>1, <1>3 DEF HasRoot
  <1>7. PendingInv'
    <2>1. \A t \in Pending : t.op = "place" => /\ t.on \in 1 .. new /\ t.on # new
                                               /\ t.on \in live => IsLink(t.on)'
      BY <1>1 DEF RootInv, PendingInv
    <2>2. task' \notin Pending'
      BY <1>0 DEF Pending
    <2>3. QED
      BY <1>0, <1>1, <1>5, <2>1, <2>2 DEF RootInv, PendingInv
  <1>8. Registered'
    BY <1>0, <1>1, <1>2, <1>4 DEF RootInv, Registered, Element
  <1>9. Unplaced'
    <2>1. \A l \in live : Todo("place", l) # task
      BY <1>0
    <2>2. QED
      BY <1>1, <1>3, <1>5, <2>1 DEF RootInv, Unplaced
  <1>10. ~HasRoot(u)
    <2>1. Todo("root", u) = task
      BY <1>0, <1>4 DEF FolderInv, LinkInv, RowsTyped, RootInv, PendingInv
    <2>2. QED
      BY <1>4, <2>1 DEF RootInv, RootsMade
  <1>11. RootsMade'
    <2>1. \A v \in users : Todo("root", v) \in Pending' <=> Todo("root", v) \in Pending /\ v # u
      <3>1. task = Todo("root", u)
        BY <1>0 DEF RootInv, PendingInv
      <3>2. \A v \in users : Todo("root", v) = Todo("root", u) <=> v = u
        OBVIOUS
      <3>3. QED
        BY <1>5, <3>1, <3>2
    <2>2. QED
      BY <1>0, <1>6, <2>1 DEF RootInv, RootsMade
  <1>12. OneRoot'
    BY <1>1, <1>3, <1>10 DEF RootInv, OneRoot, HasRoot
  <1>13. QED
    BY <1>7, <1>8, <1>9, <1>11, <1>12 DEF RootInv

\* A link to a file, which is to be placed next.
LEMMA RootsBesideLink ==
  ASSUME FolderInv, RootInv, NEW u \in users, NEW f \in live, Activate(u, f)
  PROVE  RootInv'
  <1> DEFINE new == lastId + 1
             r   == Clone(u, f)
  <1>0. /\ Idle /\ task' = Todo("place", new) /\ torn' = torn /\ users' = users
        /\ AddRow(r, name[f]) /\ LinkInv /\ row[f].creator # u /\ row[f] \in Rows
    BY LiveAreIds DEF Activate, FolderInv, LinkInv, RowsTyped
  <1>1. /\ live' = live \cup {new} /\ new \notin live /\ lastId' = new /\ lastId \in Nat
        /\ \A e \in live : /\ row'[e] = row[e]
                           /\ IsRoot(e)' <=> IsRoot(e)
                           /\ IsLink(e)' <=> IsLink(e)
    BY <1>0, RowAdded DEF LinkInv, RowsTyped
  <1>2. row'[new] = r /\ r.owner = u /\ r.creator = row[f].creator /\ r.parent = NoId
    BY <1>0, RowAdded DEF Clone, Rows
  <1>3. f \in tokens /\ r.kind = "file"
    BY <1>0 DEF Activate, LinkInv, SharesResolve, Plain, Clone, Rows
  <1>4. \A e \in {new} : ~IsRoot(e)' /\ IsLink(e)'
    BY <1>0, <1>2, <1>3 DEF IsRoot, IsLink
  <1>5. \A v \in users : HasRoot(v)' <=> HasRoot(v)
    BY <1>1, <1>4 DEF HasRoot
  <1>6. Pending' = Pending \cup {task'}
    BY <1>0 DEF Pending, Idle, NoTask, Todo
  <1>7. Todo("place", new) \notin Pending
    BY <1>1 DEF RootInv, PendingInv, Todo
  <1>8. PendingInv'
    <2>1. task' \notin torn'
      BY <1>0, <1>6, <1>7 DEF Pending
    <2>2. \A t \in Pending : t.op = "place" => /\ t.on \in 1 .. new
                                               /\ t.on \in live' => IsLink(t.on)'
      BY <1>1, <1>4 DEF RootInv, PendingInv
    <2>3. \A t \in {task'} : t.op = "place" /\ t.on = new /\ new \in 1 .. new /\ t = Todo(t.op, t.on)
      BY <1>0, <1>1 DEF Todo
    <2>4. QED
      BY <1>0, <1>1, <1>4, <1>6, <2>1, <2>2, <2>3 DEF RootInv, PendingInv
  <1>9. Registered'
    BY <1>0, <1>1, <1>2 DEF RootInv, Registered
  <1>10. Unplaced'
    <2>1. \A l \in live : Todo("place", l) \in Pending' <=> Todo("place", l) \in Pending
      BY <1>0, <1>1, <1>6 DEF Todo
    <2>2. \A l \in {new} : row'[l].parent = NoId /\ Todo("place", l) \in Pending'
      BY <1>0, <1>2, <1>6
    <2>3. QED
      BY <1>1, <2>1, <2>2 DEF RootInv, Unplaced, Todo
  <1>11. RootsMade'
    <2>1. \A v \in users : Todo("root", v) \in Pending' <=> Todo("root", v) \in Pending
      BY <1>0, <1>6 DEF Todo
    <2>2. QED
      BY <1>0, <1>5, <2>1 DEF RootInv, RootsMade
  <1>12. OneRoot'
    BY <1>1, <1>4 DEF RootInv, OneRoot
  <1>13. QED
    BY <1>8, <1>9, <1>10, <1>11, <1>12 DEF RootInv

\* A new user, whose root is made next.
LEMMA RootsAwaited ==
  ASSUME FolderInv, RootInv, NEW u \in Users, Register(u)
  PROVE  RootInv'
  <1>0. /\ Idle /\ task' = Todo("root", u) /\ torn' = torn /\ users' = users \cup {u}
        /\ u \notin users /\ lastId' = lastId /\ live' = live /\ row' = row
    BY DEF Register, history
  <1>1. Pending' = Pending \cup {task'}
    BY <1>0 DEF Pending, Idle, NoTask, Todo
  <1>2. task' \notin Pending
    BY <1>0 DEF RootInv, PendingInv, Todo
  <1>3. \A e \in live : (IsRoot(e)' <=> IsRoot(e)) /\ (IsLink(e)' <=> IsLink(e))
    BY <1>0 DEF IsRoot, IsLink
  <1>4. \A v \in Users : HasRoot(v)' <=> HasRoot(v)
    BY <1>0, <1>3 DEF HasRoot
  <1>5. PendingInv'
    <2>1. task' \notin torn'
      BY <1>0, <1>1, <1>2 DEF Pending, Todo
    <2>2. \A t \in {task'} : t.op = "root" /\ t.on = u /\ t = Todo(t.op, t.on)
      BY <1>0 DEF Todo
    <2>3. QED
      BY <1>0, <1>1, <1>3, <2>1, <2>2 DEF RootInv, PendingInv
  <1>6. Registered'
    BY <1>0 DEF RootInv, Registered
  <1>7. Unplaced'
    <2>1. \A l \in live : Todo("place", l) \in Pending' <=> Todo("place", l) \in Pending
      BY <1>0, <1>1 DEF Todo
    <2>2. QED
      BY <1>0, <1>3, <2>1 DEF RootInv, Unplaced
  <1>8. RootsMade'
    <2>1. \A v \in users : Todo("root", v) \in Pending' <=> Todo("root", v) \in Pending
      BY <1>0, <1>1 DEF Todo
    <2>2. ~HasRoot(u)
      BY <1>0 DEF HasRoot, RootInv, Registered
    <2>3. Todo("root", u) \in Pending'
      BY <1>0, <1>1
    <2>4. users \subseteq Users
      BY DEF RootInv, Registered
    <2>5. ASSUME NEW v \in users PROVE HasRoot(v)' <=> Todo("root", v) \notin Pending'
      BY <1>4, <2>1, <2>4 DEF RootInv, RootsMade
    <2>6. QED
      BY <1>0, <1>4, <2>2, <2>3, <2>5 DEF RootsMade
  <1>9. OneRoot'
    BY <1>0, <1>3 DEF RootInv, OneRoot
  <1>10. QED
    BY <1>5, <1>6, <1>7, <1>8, <1>9 DEF RootInv

\* The link gets its folder.
LEMMA RootsPlaced ==
  ASSUME FolderInv, RootInv, Place
  PROVE  RootInv'
  <1> DEFINE e == task.on
  <1>0. /\ task.op = "place" /\ task' = NoTask /\ torn' = torn /\ users' = users
        /\ live' = live /\ lastId' = lastId
    BY DEF Place, history
  <1>1. row \in [Ids -> Rows] /\ live \subseteq Ids /\ NoId \notin live
    BY LiveAreIds DEF FolderInv, LinkInv, RowsTyped
  <1>2. task \in Pending /\ task \notin torn /\ task = Todo("place", e)
    BY <1>0 DEF Pending, RootInv, PendingInv
  <1>3. e \in live /\ IsLink(e)
    BY <1>0 DEF FolderInv, TaskPlaced
  <1>4. PICK d \in live : row' = [row EXCEPT ![e].parent = d]
    BY DEF Place, RootRows
  <1>5. \A x \in live : /\ row'[x].kind = row[x].kind
                        /\ row'[x].owner = row[x].owner
                        /\ row'[x].creator = row[x].creator
                        /\ row'[x].parent = IF x = e THEN d ELSE row[x].parent
    BY <1>1, <1>4 DEF Rows
  <1>6. ~IsRoot(e)
    BY <1>3 DEF IsRoot, FolderInv, LinkInv, LinksKnown
  <1>7. \A x \in live : (IsRoot(x)' <=> IsRoot(x)) /\ (IsLink(x)' <=> IsLink(x))
    BY <1>1, <1>5, <1>6 DEF IsRoot, IsLink
  <1>8. \A v \in users : HasRoot(v)' <=> HasRoot(v)
    BY <1>0, <1>5, <1>7 DEF HasRoot
  <1>9. Pending' = Pending \ {task}
    BY <1>0, <1>2 DEF Pending, NoTask, Todo
  <1>10. PendingInv'
    <2>1. task' \notin Pending' /\ task' = Todo(task'.op, task'.on)
      BY <1>0 DEF Pending, NoTask, Todo
    <2>2. QED
      BY <1>0, <1>7, <1>9, <2>1 DEF RootInv, PendingInv
  <1>11. Registered'
    BY <1>0, <1>5 DEF RootInv, Registered
  <1>12. Unplaced'
    <2>1. \A l \in live : Todo("place", l) \in Pending' <=> Todo("place", l) \in Pending /\ l # e
      BY <1>2, <1>9 DEF Todo
    <2>2. QED
      BY <1>0, <1>1, <1>5, <1>7, <2>1 DEF RootInv, Unplaced
  <1>13. RootsMade'
    <2>1. \A v \in users : Todo("root", v) \in Pending' <=> Todo("root", v) \in Pending
      BY <1>2, <1>9 DEF Todo
    <2>2. QED
      BY <1>0, <1>8, <2>1 DEF RootInv, RootsMade
  <1>14. OneRoot'
    BY <1>0, <1>5, <1>7 DEF RootInv, OneRoot
  <1>15. QED
    BY <1>10, <1>11, <1>12, <1>13, <1>14 DEF RootInv

\* Every step keeps the account of the roots.
LEMMA RootStep ==
  ASSUME FolderInv, RootInv, [Next]_vars
  PROVE  RootInv'
  <1>0. /\ LinkInv /\ row \in [Ids -> Rows] /\ live \subseteq Ids /\ NoId \notin live
        /\ stack # << >> => task = NoTask
        /\ task = Todo(task.op, task.on) /\ (task \in Pending => task \notin torn)
        /\ stack \in Seq(Ids) /\ \A i \in DOMAIN stack : ~IsRoot(stack[i])
    BY LiveAreIds DEF FolderInv, LinkInv, RowsTyped, TaskPlaced, NoRootRemoved, RootInv, PendingInv
  <1>n. NoTask = Todo(NoTask.op, NoTask.on) /\ NoTask.op \notin {"root", "place"}
    BY DEF NoTask, Todo
  <1>s. ASSUME live' = live, users' = users, lastId' = lastId, torn' = torn,
               task' = task \/ (task' = NoTask /\ task.op \notin {"root", "place"}),
               \A e \in live : /\ row'[e].kind = row[e].kind
                               /\ row'[e].owner = row[e].owner
                               /\ row'[e].creator = row[e].creator
                               /\ row'[e].parent = NoId <=> row[e].parent = NoId
        PROVE  RootInv'
    <2>1. Pending' = Pending /\ task' = Todo(task'.op, task'.on)
      BY <1>s, <1>0, <1>n DEF Pending
    <2>2. task' \in Pending' => task' \notin torn'
      BY <1>s, <1>0, <1>n DEF Pending
    <2>3. QED
      BY <1>s, <2>1, <2>2, RootsStay
  <1>d. ASSUME NEW e \in live, ~IsRoot(e), DropRow(e), users' = users, lastId' = lastId,
               torn' = torn, task' = task
        PROVE  RootInv'
    <2>1. live' = live \ {e} /\ \A x \in live' : row'[x] = row[x]
      BY <1>d, <1>0 DEF DropRow
    <2>2. Pending' = Pending
      BY <1>d DEF Pending
    <2>3. QED
      BY <1>d, <1>0, <2>1, <2>2, RootsStay
  <1>1. ASSUME NEW u \in Users, Request(u) PROVE RootInv'
    <2>1. CASE Register(u)
      BY <2>1, RootsAwaited
    <2>2. CASE Refresh(u)
      BY <2>2, <1>s DEF Refresh, storage, running, history
    <2>3. ASSUME NEW d \in live, NEW n, MakeDir(u, d, n) \/ MakeFile(u, d, n) PROVE RootInv'
      <3>1. PICK k \in {"dir", "file"} : AddRow(Element(k, u, d), n)
        BY <2>3 DEF MakeDir, MakeFile
      <3>2. /\ u \in users /\ users' = users /\ torn' = torn /\ task = NoTask
            /\ task' = NoTask \/ task' = Todo("data", lastId + 1)
        BY <2>3 DEF MakeDir, MakeFile, running, history, Idle
      <3>3. task' = Todo(task'.op, task'.on) /\ task'.op \notin {"root", "place"}
        BY <3>2 DEF NoTask, Todo
      <3>4. Pending' = Pending /\ task' \notin Pending'
        BY <3>2, <3>3, <1>n DEF Pending
      <3>5. QED
        BY <3>1, <3>2, <3>3, <3>4, <1>0, RootsBeside
    <2>4. ASSUME NEW e \in live, Share(u, e) \/ Reopen(u, e) PROVE RootInv'
      BY <2>4, <1>s DEF Share, Reopen, running, history
    <2>5. ASSUME NEW f \in live, Activate(u, f) PROVE RootInv'
      BY <2>5, RootsBesideLink DEF Activate
    <2>6. ASSUME NEW e \in live, Delete(u, e) PROVE RootInv'
      BY <2>6, <1>s DEF Delete, storage, history
    <2>7. ASSUME NEW e \in live, NEW pars \in 0 .. MaxPars[u], Insert(u, e, pars) PROVE RootInv'
      <3>1. \A x \in live : /\ row'[x].kind = row[x].kind
                            /\ row'[x].owner = row[x].owner
                            /\ row'[x].creator = row[x].creator
                            /\ row'[x].parent = row[x].parent
        BY <2>7, <1>0 DEF Insert, Rows
      <3>2. QED
        BY <2>7, <3>1, <1>s DEF Insert, running, history
    <2>8. ASSUME NEW e \in live, NEW n, Rename(u, e, n) PROVE RootInv'
      BY <2>8, <1>s DEF Rename, storage, running, history
    <2>9. ASSUME NEW e \in live, NEW d \in live, Move(u, e, d) PROVE RootInv'
      <3>1. row[e].parent # NoId /\ d # NoId
        BY <2>9, <1>0 DEF Move
      <3>2. \A x \in live : /\ row'[x].kind = row[x].kind
                            /\ row'[x].owner = row[x].owner
                            /\ row'[x].creator = row[x].creator
                            /\ row'[x].parent = NoId <=> row[x].parent = NoId
        BY <2>9, <3>1, <1>0 DEF Move, Rows
      <3>3. QED
        BY <2>9, <3>2, <1>s DEF Move, running
    <2>10. QED
      BY <1>1, <2>1, <2>2, <2>3, <2>4, <2>5, <2>6, <2>7, <2>8, <2>9 DEF Request
  <1>2. CASE MakeRoot
    BY <1>2, RootsGrow
  <1>3. CASE WriteData
    BY <1>3, <1>s DEF WriteData, history
  <1>4. CASE Place
    BY <1>4, RootsPlaced
  <1>5. ASSUME NEW e \in live, RemoveChild(e) \/ RemoveToken(e) \/ RemoveData(e) PROVE RootInv'
    BY <1>5, <1>s DEF RemoveChild, RemoveToken, RemoveData, storage, running, history
  <1>6. ASSUME NEW f \in live, RemoveLink(f) PROVE RootInv'
    <2>1. PICK l \in live : row[l].original = f /\ DropRow(l)
      BY <1>6 DEF RemoveLink, First, LinksOf
    <2>2. ~IsRoot(l)
      BY <2>1, <1>0 DEF IsRoot, LinkInv, LinksKnown
    <2>3. QED
      BY <1>6, <2>1, <2>2, <1>d DEF RemoveLink, running, history
  <1>7. ASSUME NEW e \in live, RemoveRow(e) PROVE RootInv'
    <2>1. ~IsRoot(e)
      BY <1>7, <1>0 DEF RemoveRow, Removing, Top
    <2>2. QED
      BY <1>7, <2>1, <1>d DEF RemoveRow, history
  <1>8. CASE Crash \/ Overflow
    <2>1. /\ torn' = torn \cup CutOff /\ task' = NoTask
          /\ UNCHANGED <<users, lastId, live, row>> /\ ~Idle
      BY <1>8 DEF Crash, Overflow, Die, Idle
    <2>2. Pending' = Pending
      <3>1. CASE stack = << >>
        BY <2>1, <3>1, <1>n DEF Pending, CutOff
      <3>2. CASE stack # << >>
        <4>1. task = NoTask /\ \A t \in CutOff : t.op = "data"
          BY <3>2, <1>0 DEF CutOff, Todo
        <4>2. QED
          BY <2>1, <4>1, <1>n DEF Pending
      <3>3. QED
        BY <3>1, <3>2
    <2>3. task' \notin Pending' /\ task' = Todo(task'.op, task'.on)
      BY <2>1, <1>n DEF Pending
    <2>4. QED
      BY <2>1, <2>2, <2>3, RootsStay
  <1>9. CASE UNCHANGED vars
    BY <1>9, <1>s DEF vars, storage, running, history
  <1>10. QED
    BY <1>1, <1>2, <1>3, <1>4, <1>5, <1>6, <1>7, <1>8, <1>9 DEF Next, Finish

\* At the start everybody has one root.
LEMMA InitRoots == Init => RootInv
  <1> SUFFICES ASSUME Init PROVE RootInv
    OBVIOUS
  <1>1. live = DOMAIN FirstRows /\ FolderInv
    BY InitFolders DEF Init
  <1>2. \A e \in live : e \in Ids /\ row[e] = FirstRows[e] /\ row[e] \in Rows
    BY <1>1, LiveAreIds, FirstRowsAssumption DEF Init, FolderInv
  <1>3. Pending = {} /\ task = Todo(task.op, task.on)
    BY DEF Init, Pending, NoTask, Todo
  <1>4. Registered
    <2>1. \A e \in live : row[e].owner \in Users /\ row[e].creator = row[e].owner
      BY <1>1, <1>2, FirstRowsAssumption DEF Rows
    <2>2. users = {row[e].owner : e \in live}
      BY <1>1, <1>2 DEF Init
    <2>3. QED
      BY <2>1, <2>2 DEF Registered
  <1>5. Unplaced
    BY <1>1, <1>2, FirstRowsAssumption DEF Unplaced, IsLink
  <1>6. RootsMade
    <2>1. \A e \in live : HasRoot(row[e].owner)
      BY <1>1, <1>2, FirstRowsAssumption DEF HasRoot, IsRoot
    <2>2. users = {row[e].owner : e \in live}
      BY <1>1, <1>2 DEF Init
    <2>3. QED
      BY <1>3, <2>1, <2>2 DEF RootsMade
  <1>7. OneRoot
    BY <1>1, <1>2, FirstRowsAssumption DEF OneRoot, IsRoot
  <1>8. QED
    BY <1>3, <1>4, <1>5, <1>6, <1>7 DEF RootInv, PendingInv

\* The query finds the root of a user exactly if it was made and no link to one
\* of the user's files lies without a folder.
LEMMA RootFoundIf ==
  ASSUME FolderInv, RootInv, Idle, NEW u \in users
  PROVE  RootFound(u) <=> /\ Todo("root", u) \notin torn
                          /\ \A l \in live : row[l].creator = u => Todo("place", l) \notin torn
  <1>1. \A t : t \in Pending <=> t \in torn /\ t.op \in {"root", "place"}
    BY DEF Pending, Idle, NoTask, Todo
  <1>2. IsFiniteSet(RootRows(u))
    <2>1. lastId \in Int /\ live \subseteq 1 .. lastId
      BY BoundsAssumption DEF FolderInv, LinkInv, RowsTyped
    <2>2. IsFiniteSet(1 .. lastId)
      BY <2>1, FS_Interval
    <2>3. RootRows(u) \in SUBSET (1 .. lastId)
      BY <2>1 DEF RootRows
    <2>4. QED
      BY <2>2, <2>3, FS_Subset
  <1>3. RootFound(u) <=> \E r : RootRows(u) = {r}
    BY <1>2, FS_Singleton DEF RootFound
  <1>4. HasRoot(u) <=> Todo("root", u) \notin torn
    BY <1>1 DEF RootInv, RootsMade, Todo
  <1>5. \A l \in live : Todo("place", l) \in torn => IsLink(l) /\ row[l].parent = NoId
    BY <1>1 DEF RootInv, PendingInv, Unplaced, Todo
  <1>6. \A l \in RootRows(u) : HasRoot(u) /\ l \in live
    BY DEF RootRows, FolderInv, Rooted
  <1>7. ASSUME NEW r \in live, IsRoot(r), row[r].owner = u
        PROVE  r \in RootRows(u) /\ ~IsLink(r)
    BY <1>7 DEF IsRoot, RootRows, IsLink, FolderInv, LinkInv, LinksKnown
  <1>8. ASSUME HasRoot(u), \A l \in live : row[l].creator = u => Todo("place", l) \notin torn
        PROVE  \E r : RootRows(u) = {r}
    <2>1. PICK r \in live : IsRoot(r) /\ row[r].owner = u
      BY <1>8 DEF HasRoot
    <2>2. ASSUME NEW x \in RootRows(u) PROVE x = r
      <3>1. x \in live /\ row[x].parent = NoId /\ row[x].creator = u
        BY DEF RootRows
      <3>2. ~IsLink(x)
        BY <1>1, <1>8, <3>1 DEF RootInv, Unplaced, Todo
      <3>3. IsRoot(x) /\ row[x].owner = u
        BY <3>1, <3>2 DEF IsRoot, IsLink, FolderInv, Rooted
      <3>4. QED
        BY <2>1, <3>1, <3>3 DEF RootInv, OneRoot
    <2>3. QED
      BY <1>7, <2>1, <2>2
  <1>9. ASSUME NEW x, RootRows(u) = {x} PROVE HasRoot(u)
    BY <1>6, <1>9
  <1>10. ASSUME NEW x, RootRows(u) = {x}, NEW l \in live, row[l].creator = u,
                Todo("place", l) \in torn
         PROVE  FALSE
    <2>1. IsLink(l) /\ l \in RootRows(u)
      BY <1>5, <1>10 DEF RootRows
    <2>2. PICK r \in live : IsRoot(r) /\ row[r].owner = u
      BY <1>9, <1>10 DEF HasRoot
    <2>3. QED
      BY <1>7, <1>10, <2>1, <2>2
  <1>11. QED
    BY <1>3, <1>4, <1>8, <1>9, <1>10

\* FSElement_db::root fails only for a user whose root, or whose file's link,
\* the death of the process has cut off.
THEOREM RootIsFound == Spec => []RootLostOnlyIfTorn
  <1>1. FolderInv /\ RootInv => RootLostOnlyIfTorn
    BY RootFoundIf DEF RootLostOnlyIfTorn
  <1>2. Init => FolderInv /\ RootInv
    BY InitFolders, InitRoots
  <1>3. FolderInv /\ RootInv /\ [Next]_vars => FolderInv' /\ RootInv'
    BY FolderStep, RootStep
  <1>4. QED
    BY <1>1, <1>2, <1>3, PTL DEF Spec
-----------------------------------------------------------------------------
\* Who has written in a document owns the file, or was given a link to it; a
\* document without a row is empty.
WriterInv ==
  /\ text \in [Ids -> SUBSET (Users \X Nat)]
  /\ \A f \in Ids : text[f] # {} => f <= lastId
  /\ \A l \in live : IsLink(l) => <<row[l].owner, row[l].original>> \in linked
  /\ \A f \in live : Plain(f) =>
       \A s \in text[f] : s[1] = row[f].owner \/ <<s[1], f>> \in linked

\* An editor in which no paragraph has taken a number counts with the server.
CounterInv ==
  /\ counter \in [Ids -> Nat]
  /\ \A e \in live : e \notin parted => counter[e] = row[e].charId

SymbolInv == WriterInv /\ CounterInv /\ NumbersFreshIfCounted

\* A step that adds neither rows nor symbols.
LEMMA SymbolsStay ==
  ASSUME LinkInv, SymbolInv, live' \subseteq live, lastId' = lastId,
         linked' = linked, relinked' = relinked, parted' = parted,
         counter' \in [Ids -> Nat],
         \A e \in live' : counter'[e] \in {counter[e], row[e].charId},
         text' \in [Ids -> SUBSET (Users \X Nat)],
         \A f \in Ids : text'[f] \subseteq text[f],
         \A e \in live' : /\ row'[e].kind = row[e].kind
                          /\ row'[e].owner = row[e].owner
                          /\ row'[e].creator = row[e].creator
                          /\ row'[e].original = row[e].original
                          /\ row'[e].charId = row[e].charId
  PROVE  SymbolInv'
  <1>1. \A e \in live' : /\ IsLink(e)' <=> IsLink(e)
                         /\ Plain(e)' <=> Plain(e)
                         /\ Data(e)' = Data(e)
    BY DEF IsLink, Plain, Data
  <1>2. live \subseteq Ids /\ \A e \in live : row[e].kind = "file" => Data(e) \in Ids
    BY LiveAreIds DEF LinkInv, SharesResolve, Data
  <1>3. WriterInv'
    BY <1>1, <1>2 DEF SymbolInv, WriterInv
  <1>4. NumbersFreshIfCounted'
    BY <1>1, <1>2 DEF SymbolInv, NumbersFreshIfCounted
  <1>5. CounterInv'
    BY DEF SymbolInv, CounterInv
  <1>6. QED
    BY <1>3, <1>4, <1>5 DEF SymbolInv

\* A new row: the document of a file is empty, and a link's user has written
\* nothing there unless he had a link before.
LEMMA SymbolsBeside ==
  ASSUME LinkInv, SymbolInv, NEW r \in Rows, NEW n, AddRow(r, n), text' = text,
         parted' = parted,
         \/ OwnRow(r) /\ linked' = linked /\ relinked' = relinked
         \/ /\ LinkRow(r)
            /\ relinked' = relinked \cup ({<<r.owner, r.original>>} \cap linked)
            /\ linked' = linked \cup {<<r.owner, r.original>>}
  PROVE  SymbolInv'
  <1> DEFINE new == lastId + 1
  <1>1. /\ new \in Ids /\ new \notin live /\ live \subseteq Ids /\ lastId \in Nat
        /\ \A e \in live : row[e].kind = "file" => Data(e) \in live
    BY BoundsAssumption, LiveAreIds DEF LinkInv, RowsTyped, Ids, AddRow, SharesResolve, Data
  <1>2. /\ live' = live \cup {new} /\ row'[new] = r /\ lastId' = new
        /\ \A e \in live : row'[e] = row[e]
    BY <1>1 DEF AddRow, LinkInv, RowsTyped
  <1>3. \A e \in live : /\ IsLink(e)' <=> IsLink(e)
                        /\ Plain(e)' <=> Plain(e)
                        /\ Data(e)' = Data(e)
    BY <1>2 DEF IsLink, Plain, Data
  <1>4. linked \subseteq linked' /\ relinked \subseteq relinked'
    OBVIOUS
  <1>5. text[new] = {}
    BY <1>1 DEF SymbolInv, WriterInv
  <1>6. \A e \in {new} : /\ IsLink(e)' => LinkRow(r) /\ <<r.owner, r.original>> \in linked'
                         /\ Plain(e)' => text'[e] = {}
    BY <1>2, <1>5 DEF IsLink, OwnRow
  <1>7. WriterInv'
    <2>1. \A f \in Ids : text'[f] # {} => f <= lastId'
      BY <1>1, <1>2 DEF SymbolInv, WriterInv, Ids
    <2>2. \A l \in live' : IsLink(l)' => <<row'[l].owner, row'[l].original>> \in linked'
      BY <1>2, <1>3, <1>4, <1>6 DEF SymbolInv, WriterInv
    <2>3. \A f \in live' : Plain(f)' =>
            \A s \in text'[f] : s[1] = row'[f].owner \/ <<s[1], f>> \in linked'
      BY <1>2, <1>3, <1>4, <1>6 DEF SymbolInv, WriterInv
    <2>4. QED
      BY <2>1, <2>2, <2>3 DEF SymbolInv, WriterInv
  <1>8. ASSUME NEW e \in {new}, row'[e].kind = "file",
               <<row'[e].owner, Data(e)'>> \notin relinked',
               NEW s \in text'[Data(e)'], s[1] = row'[e].owner
        PROVE  FALSE
    <2>1. CASE OwnRow(r)
      <3>1. Data(e)' = new
        BY <1>2, <2>1 DEF Data, IsLink, OwnRow
      <3>2. QED
        BY <1>5, <1>8, <3>1
    <2>2. CASE /\ LinkRow(r)
               /\ relinked' = relinked \cup ({<<r.owner, r.original>>} \cap linked)
      <3>1. Data(e)' = r.original
        BY <1>2, <2>2 DEF Data, IsLink, LinkRow
      <3>2. <<r.owner, r.original>> \notin linked
        BY <1>2, <1>8, <2>2, <3>1
      <3>3. s[1] = r.owner /\ s \in text[r.original]
        BY <1>2, <1>8, <3>1
      <3>4. QED
        BY <2>2, <3>2, <3>3 DEF LinkRow, SymbolInv, WriterInv
    <2>3. QED
      BY <2>1, <2>2
  <1>9. NumbersFreshIfCounted'
    <2>1. ASSUME NEW e \in live, row'[e].kind = "file",
                 <<row'[e].owner, Data(e)'>> \notin relinked', e \notin parted',
                 NEW s \in text'[Data(e)'], s[1] = row'[e].owner
          PROVE  s[2] < row'[e].charId
      BY <1>2, <1>3, <1>4, <2>1 DEF SymbolInv, NumbersFreshIfCounted
    <2>2. QED
      BY <1>2, <1>8, <2>1 DEF NumbersFreshIfCounted
  <1>10. CounterInv'
    <2>1. counter' = [counter EXCEPT ![new] = r.charId] /\ r.charId \in Nat
      BY DEF AddRow, Rows
    <2>2. counter \in [Ids -> Nat] /\ \A e \in live : e \notin parted => counter[e] = row[e].charId
      BY DEF SymbolInv, CounterInv
    <2>3. QED
      BY <1>1, <1>2, <2>1, <2>2 DEF CounterInv
  <1>11. QED
    BY <1>7, <1>9, <1>10 DEF SymbolInv

\* A symbol typed takes the number of the editor's counter, which is the one in
\* the one row its user has of the file if no paragraph has taken a number.
LEMMA SymbolTyped ==
  ASSUME LinkInv, SymbolInv, NEW u \in Users, NEW e \in live, NEW pars \in 0 .. MaxPars[u],
         Insert(u, e, pars)
  PROVE  SymbolInv'
  <1> DEFINE d == Data(e)
             s0 == <<u, counter[e] + pars>>
  <1>a. /\ counter \in [Ids -> Nat] /\ pars \in Nat
        /\ counter' = [counter EXCEPT ![e] = @ + pars + 1]
        /\ parted' = parted \cup {x \in {e} : pars > 0}
    BY BoundsAssumption DEF Insert, SymbolInv, CounterInv
  <1>b. /\ \A x \in live : x \notin parted => counter[x] = row[x].charId
        /\ parted \subseteq parted' /\ (e \notin parted' => pars = 0)
    BY <1>a DEF SymbolInv, CounterInv
  <1>0. /\ row[e].owner = u /\ row[e].kind = "file"
        /\ text' = [text EXCEPT ![d] = @ \cup {s0}]
        /\ row' = [row EXCEPT ![e].charId = @ + 1]
        /\ live' = live /\ lastId' = lastId /\ linked' = linked /\ relinked' = relinked
    BY DEF Insert, Listed, history
  <1>1. /\ live \subseteq Ids /\ row \in [Ids -> Rows] /\ lastId \in Nat /\ live \subseteq 1 .. lastId
        /\ \A x \in live : row[x].kind = "file" => Data(x) \in live /\ Plain(Data(x))
    BY BoundsAssumption, LiveAreIds DEF LinkInv, RowsTyped, SharesResolve, Data, Plain
  <1>2. d \in live /\ Plain(d) /\ d \in Ids /\ d <= lastId
    BY <1>0, <1>1
  <1>3. row[e].charId \in Nat /\ counter[e] \in Nat /\ s0 \in Users \X Nat
    <2>1. row[e] \in Rows /\ counter[e] \in Nat
      BY <1>a, <1>1
    <2>2. counter[e] + pars \in Nat
      BY <2>1, <1>a
    <2>3. QED
      BY <2>1, <2>2 DEF Rows
  <1>4. \A x \in live : /\ row'[x].kind = row[x].kind
                        /\ row'[x].owner = row[x].owner
                        /\ row'[x].creator = row[x].creator
                        /\ row'[x].original = row[x].original
                        /\ row'[x].charId = IF x = e THEN row[e].charId + 1 ELSE row[x].charId
    BY <1>0, <1>1 DEF Rows
  <1>5. \A x \in live : /\ IsLink(x)' <=> IsLink(x)
                        /\ Plain(x)' <=> Plain(x)
                        /\ Data(x)' = Data(x)
    BY <1>4 DEF IsLink, Plain, Data
  <1>6. /\ text' \in [Ids -> SUBSET (Users \X Nat)]
        /\ text'[d] = text[d] \cup {s0} /\ \A f \in Ids : f # d => text'[f] = text[f]
    BY <1>0, <1>2, <1>3 DEF SymbolInv, WriterInv
  <1>7. u = row[d].owner \/ <<u, d>> \in linked
    <2>1. CASE IsLink(e)
      BY <1>0, <2>1 DEF Data, SymbolInv, WriterInv
    <2>2. CASE ~IsLink(e)
      BY <1>0, <2>2 DEF Data
    <2>3. QED
      BY <2>1, <2>2
  <1>8. WriterInv'
    <2>1. \A f \in Ids : text'[f] # {} => f <= lastId'
      BY <1>0, <1>2, <1>6 DEF SymbolInv, WriterInv
    <2>2. \A l \in live' : IsLink(l)' => <<row'[l].owner, row'[l].original>> \in linked'
      BY <1>0, <1>4, <1>5 DEF SymbolInv, WriterInv
    <2>3. ASSUME NEW f \in live, Plain(f), NEW s \in text'[f]
          PROVE  s[1] = row[f].owner \/ <<s[1], f>> \in linked
      <3>1. CASE s \in text[f]
        BY <2>3, <3>1 DEF SymbolInv, WriterInv
      <3>2. CASE s \notin text[f]
        <4>1. f = d /\ s = s0
          BY <1>1, <1>6, <2>3, <3>2
        <4>2. QED
          BY <1>7, <4>1
      <3>3. QED
        BY <3>1, <3>2
    <2>4. QED
      BY <1>0, <1>4, <1>5, <1>6, <2>1, <2>2, <2>3 DEF WriterInv
  <1>9. ASSUME NEW x \in live, row[x].kind = "file", <<row[x].owner, Data(x)>> \notin relinked,
               x \notin parted', NEW s \in text'[Data(x)], s[1] = row[x].owner
        PROVE  s[2] < row'[x].charId
    <2>1. Data(x) \in Ids /\ row[x].charId \in Nat
      BY <1>1, <1>9 DEF Rows
    <2>2. CASE s \in text[Data(x)]
      <3>1. s[2] < row[x].charId /\ s[2] \in Nat
        BY <1>9, <1>b, <2>1, <2>2 DEF SymbolInv, NumbersFreshIfCounted, WriterInv
      <3>2. row'[x].charId = row[x].charId \/ row'[x].charId = row[x].charId + 1
        BY <1>4
      <3>3. QED
        BY <2>1, <3>1, <3>2
    <2>3. CASE s \notin text[Data(x)]
      <3>1. Data(x) = d /\ s = s0
        BY <1>6, <1>9, <2>1, <2>3
      <3>2. x = e
        BY <1>0, <1>9, <3>1 DEF LinkInv, OneRowEach
      <3>3. row'[x].charId = row[e].charId + 1 /\ s[2] = row[e].charId
        BY <1>3, <1>4, <1>9, <1>b, <3>1, <3>2
      <3>4. QED
        BY <1>3, <3>3
    <2>4. QED
      BY <2>2, <2>3
  <1>10. NumbersFreshIfCounted'
    BY <1>0, <1>4, <1>5, <1>9 DEF NumbersFreshIfCounted
  <1>11. CounterInv'
    <2>1. counter' \in [Ids -> Nat] /\ live' = live
      BY <1>0, <1>1, <1>3, <1>a
    <2>2. ASSUME NEW x \in live, x \notin parted' PROVE counter'[x] = row'[x].charId
      BY <1>1, <1>3, <1>4, <1>a, <1>b, <2>2
    <2>3. QED
      BY <2>1, <2>2 DEF CounterInv
  <1>12. QED
    BY <1>8, <1>10, <1>11 DEF SymbolInv

\* Every step keeps the numbers apart.
LEMMA SymbolStep ==
  ASSUME LinkInv, SymbolInv, [Next]_vars
  PROVE  SymbolInv'
  <1>0. /\ row \in [Ids -> Rows] /\ live \subseteq Ids /\ NoId \notin live
        /\ text \in [Ids -> SUBSET (Users \X Nat)] /\ counter \in [Ids -> Nat]
        /\ task.op = "root" => task.on \in Users
        /\ \A e \in Ids : row[e].charId \in Nat
    BY LiveAreIds DEF LinkInv, RowsTyped, SymbolInv, WriterInv, CounterInv, Rows
  <1>s. ASSUME live' = live, row' = row, lastId' = lastId, linked' = linked,
               relinked' = relinked, text' = text, counter' = counter, parted' = parted
        PROVE  SymbolInv'
    BY <1>s, <1>0, SymbolsStay
  <1>d. ASSUME NEW e \in live, DropRow(e), lastId' = lastId, linked' = linked,
               relinked' = relinked, text' = text, counter' = counter, parted' = parted
        PROVE  SymbolInv'
    <2>1. live' = live \ {e} /\ \A x \in live' : row'[x] = row[x]
      BY <1>d, <1>0 DEF DropRow
    <2>2. QED
      BY <1>d, <1>0, <2>1, SymbolsStay
  <1>1. ASSUME NEW u \in Users, Request(u) PROVE SymbolInv'
    <2>1. ASSUME \/ Register(u) \/ Refresh(u)
                 \/ \E e \in live : \/ Share(u, e) \/ Delete(u, e)
                                    \/ \E n \in Typed[u] : Rename(u, e, n)
          PROVE  SymbolInv'
      BY <2>1, <1>s DEF Register, Refresh, Share, Delete, Rename, storage, typing, history
    <2>2. ASSUME NEW d \in live, NEW n, MakeDir(u, d, n) \/ MakeFile(u, d, n) PROVE SymbolInv'
      <3>1. PICK k \in {"dir", "file"} : AddRow(Element(k, u, d), n)
        BY <2>2 DEF MakeDir, MakeFile
      <3>2. Element(k, u, d) \in Rows /\ OwnRow(Element(k, u, d))
        BY <1>0, ElementIsRow DEF OwnRow
      <3>3. text' = text /\ parted' = parted /\ linked' = linked /\ relinked' = relinked
        BY <2>2 DEF MakeDir, MakeFile, history
      <3>4. QED
        BY <3>1, <3>2, <3>3, SymbolsBeside
    <2>3. ASSUME NEW f \in live, Activate(u, f) PROVE SymbolInv'
      <3>1. f \in tokens /\ Plain(f) /\ row[f] \in Rows
        BY <2>3, <1>0 DEF Activate, LinkInv, SharesResolve
      <3>2. /\ Clone(u, f) \in Rows
            /\ Clone(u, f).kind = row[f].kind /\ Clone(u, f).owner = u
            /\ Clone(u, f).creator = row[f].creator /\ Clone(u, f).original = f
        BY <3>1, <1>0 DEF Clone, Rows
      <3>3. LinkRow(Clone(u, f))
        BY <2>3, <3>1, <3>2 DEF Activate, LinkRow, Plain, IsLink
      <3>4. QED
        BY <2>3, <3>2, <3>3, SymbolsBeside DEF Activate
    <2>4. ASSUME NEW e \in live, NEW pars \in 0 .. MaxPars[u], Insert(u, e, pars) PROVE SymbolInv'
      BY <2>4, SymbolTyped
    <2>5. ASSUME NEW e \in live, NEW d \in live, Move(u, e, d) PROVE SymbolInv'
      <3>1. \A x \in live : /\ row'[x].kind = row[x].kind
                            /\ row'[x].owner = row[x].owner
                            /\ row'[x].creator = row[x].creator
                            /\ row'[x].original = row[x].original
                            /\ row'[x].charId = row[x].charId
        BY <2>5, <1>0 DEF Move, Rows
      <3>2. QED
        BY <2>5, <3>1, <1>0, SymbolsStay DEF Move, typing
    <2>6. ASSUME NEW e \in live, Reopen(u, e) PROVE SymbolInv'
      <3>1. counter' = [counter EXCEPT ![e] = row[e].charId]
        BY <2>6 DEF Reopen
      <3>2. /\ counter' \in [Ids -> Nat]
            /\ \A x \in live : counter'[x] \in {counter[x], row[x].charId}
        BY <3>1, <1>0
      <3>3. QED
        BY <2>6, <3>2, <1>0, SymbolsStay DEF Reopen, history
    <2>7. QED
      BY <1>1, <2>1, <2>2, <2>3, <2>4, <2>5, <2>6 DEF Request
  <1>2. CASE MakeRoot
    <2>1. /\ Element("dir", task.on, NoId) \in Rows /\ OwnRow(Element("dir", task.on, NoId))
          /\ AddRow(Element("dir", task.on, NoId), RootName)
          /\ text' = text /\ parted' = parted /\ linked' = linked /\ relinked' = relinked
      BY <1>2, <1>0, ElementIsRow DEF OwnRow, MakeRoot, history
    <2>2. QED
      BY <2>1, SymbolsBeside
  <1>3. CASE Place
    <2>1. PICK d : row' = [row EXCEPT ![task.on].parent = d]
      BY <1>3 DEF Place
    <2>2. \A x \in live : /\ row'[x].kind = row[x].kind
                          /\ row'[x].owner = row[x].owner
                          /\ row'[x].creator = row[x].creator
                          /\ row'[x].original = row[x].original
                          /\ row'[x].charId = row[x].charId
      BY <2>1, <1>0 DEF Rows
    <2>3. QED
      BY <1>3, <2>2, <1>0, SymbolsStay DEF Place, typing, history
  <1>4. ASSUME \/ WriteData
               \/ \E e \in live : RemoveChild(e) \/ RemoveToken(e)
        PROVE  SymbolInv'
    BY <1>4, <1>s DEF WriteData, RemoveChild, RemoveToken, storage, typing, history
  <1>5. ASSUME NEW f \in live, RemoveLink(f) PROVE SymbolInv'
    <2>1. PICK l \in live : DropRow(l)
      BY <1>5 DEF RemoveLink, First, LinksOf
    <2>2. QED
      BY <1>5, <2>1, <1>d DEF RemoveLink, typing, history
  <1>6. ASSUME NEW f \in live, RemoveData(f) PROVE SymbolInv'
    BY <1>6, <1>0, SymbolsStay DEF RemoveData, history
  <1>7. ASSUME NEW e \in live, RemoveRow(e) PROVE SymbolInv'
    BY <1>7, <1>d DEF RemoveRow, typing, history
  <1>8. CASE Crash \/ Overflow
    <2>1. /\ counter' = [e \in Ids |-> row[e].charId]
          /\ UNCHANGED <<lastId, live, row, text, parted, linked, relinked>>
      BY <1>8 DEF Crash, Overflow, Die
    <2>2. /\ counter' \in [Ids -> Nat]
          /\ \A x \in live : counter'[x] \in {counter[x], row[x].charId}
      BY <2>1, <1>0
    <2>3. QED
      BY <2>1, <2>2, <1>0, SymbolsStay
  <1>9. CASE UNCHANGED vars
    BY <1>9, <1>s DEF vars, storage, typing, history
  <1>10. QED
    BY <1>1, <1>2, <1>3, <1>4, <1>5, <1>6, <1>7, <1>8, <1>9 DEF Next, Finish

\* The numbers an editor that is opened gives next are in no symbol of its user,
\* unless a link was removed and made again or a paragraph has taken a number of
\* the editor's counter: no other sequence of requests, and no death of the
\* process, hands a number out twice.
THEOREM NumbersAreFresh == Spec => []NumbersFreshIfCounted
  <1>1. Init => SymbolInv
    <2> SUFFICES ASSUME Init PROVE SymbolInv
      OBVIOUS
    <2>1. \A e \in live : e \in DOMAIN FirstRows /\ e \in Ids /\ row[e] = FirstRows[e]
      BY InitLinks, LiveAreIds DEF Init
    <2>2. \A e \in live : Data(e) = e /\ ~IsLink(e)
      BY <2>1, FirstRowsAssumption DEF Data, IsLink
    <2>3. text \in [Ids -> SUBSET (Users \X Nat)] /\ \A f \in Ids : text[f] = {}
      BY DEF Init
    <2>4. CounterInv
      BY InitLinks, LiveAreIds DEF Init, CounterInv, LinkInv, RowsTyped, Rows
    <2>5. QED
      BY <2>1, <2>2, <2>3, <2>4 DEF SymbolInv, WriterInv, NumbersFreshIfCounted
  <1>2. SymbolInv => NumbersFreshIfCounted
    BY DEF SymbolInv
  <1>3. LinkInv /\ SymbolInv /\ [Next]_vars => LinkInv' /\ SymbolInv'
    BY LinkStep, SymbolStep
  <1>4. QED
    BY InitLinks, <1>1, <1>2, <1>3, PTL DEF Spec
-----------------------------------------------------------------------------
\* Every set of natural numbers that is not empty has a least element.
LEMMA LeastElement ==
  ASSUME NEW T \in SUBSET Nat, T # {}
  PROVE  \E m \in T : \A n \in T : m <= n
  <1> DEFINE R == {p \in Nat \X Nat : p[1] < p[2]}
  <1>1. IsWellFoundedOn(R, Nat)
    BY NatLessThanWellFounded DEF OpToRel
  <1> HIDE DEF R
  <1>2. PICK m \in T : \A n \in T : <<n, m>> \notin R
    BY <1>1, WFMin
  <1>3. \A n \in T : ~(n < m)
    BY <1>2 DEF R
  <1>4. QED
    BY <1>3

\* Induction up to a bound, over a set instead of a formula.
LEMMA UpToBound ==
  ASSUME NEW N \in Nat, NEW S, 0 \in S,
         \A n \in 0 .. (N - 1) : n \in S => n + 1 \in S
  PROVE  0 .. N \subseteq S
  <1> SUFFICES ASSUME (0 .. N) \ S # {} PROVE FALSE
    OBVIOUS
  <1> DEFINE T == (0 .. N) \ S
  <1>0. T \in SUBSET Nat /\ T # {}
    OBVIOUS
  <1>1. PICK m \in T : \A n \in T : m <= n
    <2> HIDE DEF T
    <2>1. QED
      BY <1>0, LeastElement
  <1>2. m - 1 \in 0 .. (N - 1) /\ m - 1 \in S
    BY <1>1
  <1>3. QED
    BY <1>1, <1>2

\* g holds what n steps make of x, one after the other.
Iterates(g, n, M, x, step) ==
  /\ g \in [0 .. n -> M]
  /\ g[0] = x /\ \A i \in 1 .. n : g[i] = step[i][g[i - 1]]

\* A step taken again and again from a first value.
LEMMA Iterated ==
  ASSUME NEW N \in Nat, NEW M, NEW x \in M, NEW step \in [1 .. N -> [M -> M]]
  PROVE  \E g : Iterates(g, N, M, x, step)
  <1> DEFINE Good(k, g) == g[0] = x /\ \A i \in 1 .. k : g[i] = step[i][g[i - 1]]
             S == {k \in 0 .. N : \E g \in [0 .. k -> M] : Good(k, g)}
  <1>1. 0 \in S
    <2>1. [i \in 0 .. 0 |-> x] \in [0 .. 0 -> M] /\ Good(0, [i \in 0 .. 0 |-> x])
      OBVIOUS
    <2>2. \E g \in [0 .. 0 -> M] : Good(0, g)
      BY <2>1
    <2>3. QED
      BY <2>2
  <1>2. ASSUME NEW k \in 0 .. (N - 1), k \in S PROVE k + 1 \in S
    <2>1. PICK g \in [0 .. k -> M] : Good(k, g)
      BY <1>2
    <2> DEFINE h == [i \in 0 .. (k + 1) |-> IF i = k + 1 THEN step[k + 1][g[k]] ELSE g[i]]
    <2>2. g[k] \in M /\ k + 1 \in 1 .. N
      OBVIOUS
    <2>3. step[k + 1][g[k]] \in M
      BY <2>2
    <2>4. h \in [0 .. (k + 1) -> M]
      BY <2>3
    <2>5. h[k + 1] = step[k + 1][g[k]] /\ \A i \in 0 .. k : h[i] = g[i]
      OBVIOUS
    <2> HIDE DEF h
    <2>6. \A i \in 1 .. (k + 1) : i - 1 \in 0 .. k /\ (i = k + 1 \/ i \in 1 .. k)
      OBVIOUS
    <2>7. \A i \in 1 .. k : h[i] = step[i][h[i - 1]]
      BY <2>1, <2>5, <2>6
    <2>8. h[k + 1] = step[k + 1][h[k + 1 - 1]]
      <3>1. k + 1 - 1 = k /\ k \in 0 .. k
        OBVIOUS
      <3>2. QED
        BY <2>5, <3>1
    <2>9. Good(k + 1, h)
      BY <2>1, <2>5, <2>6, <2>7, <2>8
    <2>10. QED
      BY <2>4, <2>9
  <1>3. 0 .. N \subseteq S
    <2> HIDE DEF S
    <2>1. QED
      BY <1>1, <1>2, UpToBound
  <1>4. QED
    BY <1>3 DEF Iterates
-----------------------------------------------------------------------------
\* checkName with an ending: the result has one, or no brother has the name.
LEMMA NameAppended ==
  ASSUME name \in [Ids -> Names], live \subseteq Ids, NEW e, NEW p, NEW n \in Names
  PROVE  LET r == AppendedName(e, p, n)
         IN /\ r \in Names
            /\ r[2] > 0 \/ (r = n /\ \A b \in Children(p) : b # e => name[b] # n)
  <1> DEFINE Next1(m, i) == IF i \in Children(p) \ {e} /\ name[i] = m THEN Suffixed(m) ELSE m
             step == [i \in 1 .. MaxId |-> [m \in Names |-> Next1(m, i)]]
             after[i \in 0 .. MaxId] ==
               IF i = 0 THEN n
               ELSE LET m == after[i - 1]
                    IN IF i \in Children(p) \ {e} /\ name[i] = m THEN Suffixed(m) ELSE m
  <1>0. MaxId \in Nat
    BY BoundsAssumption
  <1>1. \A m \in Names : Suffixed(m) \in Names /\ Suffixed(m)[2] > 0
    BY DEF Names, Suffixed
  <1>2. step \in [1 .. MaxId -> [Names -> Names]]
    BY <1>1
  <1>3. PICK g : Iterates(g, MaxId, Names, n, step)
    <2> HIDE DEF step
    <2>1. QED
      BY <1>0, <1>2, Iterated
  <1>4. \A i \in 1 .. MaxId : g[i] = Next1(g[i - 1], i)
    <2> SUFFICES ASSUME NEW i \in 1 .. MaxId PROVE g[i] = Next1(g[i - 1], i)
      OBVIOUS
    <2>1. g[i - 1] \in Names /\ g[i] = step[i][g[i - 1]]
      BY <1>0, <1>3 DEF Iterates
    <2>2. QED
      BY <2>1
  <1>5. g = [i \in 0 .. MaxId |->
               IF i = 0 THEN n
               ELSE LET m == g[i - 1]
                    IN IF i \in Children(p) \ {e} /\ name[i] = m THEN Suffixed(m) ELSE m]
    <2>1. \A i \in 0 .. MaxId : i = 0 \/ i \in 1 .. MaxId
      OBVIOUS
    <2>2. g \in [0 .. MaxId -> Names] /\ g[0] = n
      BY <1>3 DEF Iterates
    <2>3. QED
      BY <1>4, <2>1, <2>2
  <1>6. after = [i \in 0 .. MaxId |->
               IF i = 0 THEN n
               ELSE LET m == after[i - 1]
                    IN IF i \in Children(p) \ {e} /\ name[i] = m THEN Suffixed(m) ELSE m]
    BY <1>5
  <1>7. AppendedName(e, p, n) = after[MaxId]
    BY DEF AppendedName
  <1> HIDE DEF after
  <1> DEFINE S == {i \in 0 .. MaxId :
                     /\ after[i] \in Names
                     /\ \/ after[i][2] > 0
                        \/ /\ after[i] = n
                           /\ \A b \in Children(p) : b # e /\ b <= i => name[b] # n}
  <1>8. 0 \in S
    <2>1. after[0] = n /\ 0 \in 0 .. MaxId
      BY <1>0, <1>6
    <2>2. \A b \in Children(p) : ~(b <= 0)
      BY DEF Children, Ids
    <2>3. QED
      BY <2>1, <2>2
  <1>9. ASSUME NEW k \in 0 .. (MaxId - 1), k \in S PROVE k + 1 \in S
    <2>1. after[k + 1] = Next1(after[k], k + 1) /\ k + 1 \in 0 .. MaxId
      BY <1>0, <1>6
    <2>2. after[k] \in Names
      BY <1>9
    <2>3. after[k + 1] \in Names /\ (after[k + 1][2] > 0 \/ after[k + 1] = after[k])
      BY <1>1, <2>1, <2>2
    <2>4. CASE after[k + 1][2] > 0
      BY <2>1, <2>3, <2>4
    <2>5. CASE ~(after[k + 1][2] > 0)
      <3>1. after[k + 1] = after[k] /\ after[k] = n
            /\ \A b \in Children(p) : b # e /\ b <= k => name[b] # n
        BY <1>9, <2>3, <2>5
      <3>2. k + 1 \in Children(p) \ {e} => name[k + 1] # n
        BY <1>1, <2>1, <2>5, <3>1
      <3>3. \A b \in Children(p) : b <= k + 1 => b <= k \/ b = k + 1
        BY DEF Children, Ids
      <3>4. QED
        BY <2>1, <2>3, <3>1, <3>2, <3>3
    <2>6. QED
      BY <2>4, <2>5
  <1>10. MaxId \in S
    <2> HIDE DEF S
    <2>1. 0 .. MaxId \subseteq S
      BY <1>0, <1>8, <1>9, UpToBound
    <2>2. QED
      BY <1>0, <2>1
  <1>11. \A b \in Children(p) : b <= MaxId
    BY DEF Children, Ids
  <1>12. QED
    BY <1>7, <1>10, <1>11

NameInv == name \in [Ids -> Names] /\ SameNameOnlyIfEnded

\* A step that changes neither names nor folders of the elements it leaves.
LEMMA NamesStay ==
  ASSUME NameInv, live' \subseteq live, name' \in [Ids -> Names],
         \A e \in live' : /\ name'[e] = name[e]
                          /\ row'[e].parent = row[e].parent
                          /\ row'[e].owner = row[e].owner
                          /\ row'[e].creator = row[e].creator
  PROVE  NameInv'
  <1>1. \A e \in live' : IsLink(e)' <=> IsLink(e)
    BY DEF IsLink
  <1>2. SameNameOnlyIfEnded'
    BY <1>1 DEF NameInv, SameNameOnlyIfEnded
  <1>3. QED
    BY <1>2 DEF NameInv

\* One element is named, moved or both: no brother has its name, or it is a link
\* with an ending.
LEMMA NameGiven ==
  ASSUME NameInv, LinkInv, NEW e \in live, live' = live, NEW n \in Names, NEW p,
         name' = [name EXCEPT ![e] = n], row' = [row EXCEPT ![e].parent = p],
         \/ p = NoId
         \/ \A b \in Children(p) : b # e => name[b] # n
         \/ IsLink(e) /\ n[2] > 0
  PROVE  NameInv'
  <1>1. row \in [Ids -> Rows] /\ live \subseteq Ids /\ name \in [Ids -> Names]
    BY LiveAreIds DEF LinkInv, RowsTyped, NameInv
  <1>2. name' \in [Ids -> Names]
    BY <1>1
  <1>3. \A x \in live : /\ row'[x].owner = row[x].owner
                        /\ row'[x].creator = row[x].creator
                        /\ row'[x].parent = IF x = e THEN p ELSE row[x].parent
                        /\ name'[x] = IF x = e THEN n ELSE name[x]
    BY <1>1 DEF Rows
  <1>4. \A x \in live : IsLink(x)' <=> IsLink(x)
    BY <1>3 DEF IsLink
  <1>5. ASSUME NEW x \in live, x # e, row[x].parent = p, p # NoId, name[x] = n
        PROVE  IsLink(e) /\ n[2] > 0
    BY <1>5 DEF Children
  <1>6. ASSUME NEW x \in live, NEW y \in live, x # y, row'[x].parent = row'[y].parent,
               row'[x].parent # NoId, name'[x] = name'[y]
        PROVE  \E l \in {x, y} : IsLink(l)' /\ name'[l][2] > 0
    <2>1. CASE x = e
      BY <1>3, <1>4, <1>5, <1>6, <2>1
    <2>2. CASE y = e
      BY <1>3, <1>4, <1>5, <1>6, <2>2
    <2>3. CASE x # e /\ y # e
      BY <1>3, <1>4, <1>6, <2>3 DEF NameInv, SameNameOnlyIfEnded
    <2>4. QED
      BY <2>1, <2>2, <2>3
  <1>7. QED
    BY <1>2, <1>6 DEF NameInv, SameNameOnlyIfEnded

\* A new element has no folder yet, or no brother with its name.
LEMMA NameAdded ==
  ASSUME NameInv, LinkInv, NEW r, NEW n \in Names, AddRow(r, n),
         r.parent = NoId \/ \A b \in Children(r.parent) : name[b] # n
  PROVE  NameInv'
  <1> DEFINE new == lastId + 1
  <1>1. /\ new \in Ids /\ new \notin live /\ live \subseteq Ids
        /\ row \in [Ids -> Rows] /\ name \in [Ids -> Names]
    BY BoundsAssumption DEF LinkInv, RowsTyped, Ids, AddRow, NameInv
  <1>2. /\ live' = live \cup {new} /\ row'[new] = r /\ name'[new] = n
        /\ \A e \in live : row'[e] = row[e] /\ name'[e] = name[e]
        /\ name' \in [Ids -> Names]
    BY <1>1 DEF AddRow
  <1>3. \A x \in live : IsLink(x)' <=> IsLink(x)
    BY <1>2 DEF IsLink
  <1>4. \A x \in live : row[x].parent = r.parent /\ r.parent # NoId => name[x] # n
    BY DEF Children
  <1>5. QED
    BY <1>2, <1>3, <1>4 DEF NameInv, SameNameOnlyIfEnded

\* Every step keeps the names of a folder apart.
LEMMA NameStep ==
  ASSUME FolderInv, NameInv, [Next]_vars
  PROVE  NameInv'
  <1>0. /\ LinkInv /\ row \in [Ids -> Rows] /\ live \subseteq Ids /\ NoId \notin live
        /\ name \in [Ids -> Names]
    BY LiveAreIds DEF FolderInv, LinkInv, RowsTyped, NameInv
  <1>n. RootName \in Names
    BY DEF RootName, Names
  <1>s. ASSUME live' = live, row' = row, name' = name PROVE NameInv'
    BY <1>s, <1>0, NamesStay
  <1>d. ASSUME NEW e \in live, DropRow(e) PROVE NameInv'
    <2>1. /\ live' = live \ {e} /\ name' \in [Ids -> Names]
          /\ \A x \in live' : row'[x] = row[x] /\ name'[x] = name[x]
      BY <1>d, <1>0, <1>n DEF DropRow
    <2>2. QED
      BY <2>1, NamesStay
  <1>1. ASSUME NEW u \in Users, Request(u) PROVE NameInv'
    <2>0. \A n \in Typed[u] : n \in Names
      BY NamesAssumption
    <2>1. ASSUME \/ Register(u) \/ Refresh(u)
                 \/ \E e \in live : Share(u, e) \/ Delete(u, e) \/ Reopen(u, e)
          PROVE  NameInv'
      BY <2>1, <1>s DEF Register, Refresh, Share, Delete, Reopen, storage, names
    <2>2. ASSUME NEW d \in live, NEW n \in Typed[u], MakeDir(u, d, n) \/ MakeFile(u, d, n)
          PROVE  NameInv'
      <3>1. PICK k \in {"dir", "file"} : AddRow(Element(k, u, d), n) /\ NameFree(NoId, d, n)
        BY <2>2 DEF MakeDir, MakeFile
      <3>2. Element(k, u, d).parent = d /\ \A b \in Children(d) : name[b] # n
        BY <3>1, <1>0 DEF Element, NameFree, Children
      <3>3. QED
        BY <2>0, <3>1, <3>2, <1>0, NameAdded
    <2>3. ASSUME NEW f \in live, Activate(u, f) PROVE NameInv'
      <3>1. AddRow(Clone(u, f), name[f]) /\ Clone(u, f).parent = NoId /\ name[f] \in Names
        BY <2>3, <1>0 DEF Activate, Clone, Rows
      <3>2. QED
        BY <3>1, <1>0, NameAdded
    <2>4. ASSUME NEW e \in live, NEW pars \in 0 .. MaxPars[u], Insert(u, e, pars) PROVE NameInv'
      <3>1. \A x \in live : /\ row'[x].owner = row[x].owner
                            /\ row'[x].creator = row[x].creator
                            /\ row'[x].parent = row[x].parent
        BY <2>4, <1>0 DEF Insert, Rows
      <3>2. live' = live /\ name' = name
        BY <2>4 DEF Insert, names
      <3>3. QED
        BY <3>1, <3>2, <1>0, NamesStay
    <2>5. ASSUME NEW e \in live, NEW n \in Typed[u], Rename(u, e, n) PROVE NameInv'
      <3>1. /\ name' = [name EXCEPT ![e] = n] /\ live' = live /\ row' = row
            /\ NameFree(e, row[e].parent, n)
        BY <2>5 DEF Rename, storage
      <3>2. row' = [row EXCEPT ![e].parent = row[e].parent]
        BY <3>1, <1>0 DEF Rows
      <3>3. row[e].parent = NoId \/ \A b \in Children(row[e].parent) : b # e => name[b] # n
        BY <3>1 DEF NameFree
      <3>4. QED
        BY <2>0, <3>1, <3>2, <3>3, <1>0, NameGiven
    <2>6. ASSUME NEW e \in live, NEW d \in live, Move(u, e, d) PROVE NameInv'
      <3>1. /\ row' = [row EXCEPT ![e].parent = d] /\ live' = live /\ name' = name
            /\ NameFree(e, d, name[e])
        BY <2>6 DEF Move, names
      <3>2. name' = [name EXCEPT ![e] = name[e]] /\ name[e] \in Names
        BY <3>1, <1>0
      <3>3. d = NoId \/ \A b \in Children(d) : b # e => name[b] # name[e]
        BY <3>1 DEF NameFree
      <3>4. QED
        BY <3>1, <3>2, <3>3, <1>0, NameGiven
    <2>7. QED
      BY <1>1, <2>1, <2>2, <2>3, <2>4, <2>5, <2>6 DEF Request
  <1>2. CASE MakeRoot
    <2>1. Element("dir", task.on, NoId).parent = NoId
      BY DEF Element
    <2>2. QED
      BY <1>2, <2>1, <1>0, <1>n, NameAdded DEF MakeRoot
  <1>3. CASE Place
    <2> DEFINE e == task.on
    <2>1. e \in live /\ IsLink(e)
      BY <1>3 DEF Place, FolderInv, TaskPlaced
    <2>2. PICK d \in live : /\ row' = [row EXCEPT ![e].parent = d]
                           /\ name' = [name EXCEPT ![e] = AppendedName(e, d, name[e])]
      BY <1>3 DEF Place, RootRows
    <2> DEFINE n == AppendedName(e, d, name[e])
    <2>3. name[e] \in Names
      BY <1>0, <2>1
    <2>4. /\ n \in Names
          /\ n[2] > 0 \/ (n = name[e] /\ \A b \in Children(d) : b # e => name[b] # n)
      BY <1>0, <2>3, NameAppended
    <2>5. live' = live
      BY <1>3 DEF Place
    <2> HIDE DEF n
    <2>6. QED
      BY <2>1, <2>2, <2>4, <2>5, <1>0, NameGiven DEF n
  <1>4. ASSUME \/ WriteData
               \/ \E e \in live : RemoveChild(e) \/ RemoveToken(e) \/ RemoveData(e)
        PROVE  NameInv'
    BY <1>4, <1>s DEF WriteData, RemoveChild, RemoveToken, RemoveData, storage, names
  <1>5. ASSUME NEW f \in live, RemoveLink(f) PROVE NameInv'
    <2>1. PICK l \in live : DropRow(l)
      BY <1>5 DEF RemoveLink, First, LinksOf
    <2>2. QED
      BY <2>1, <1>d
  <1>6. ASSUME NEW e \in live, RemoveRow(e) PROVE NameInv'
    BY <1>6, <1>d DEF RemoveRow
  <1>7. CASE Crash \/ Overflow
    BY <1>7, <1>s DEF Crash, Overflow, Die, names
  <1>8. CASE UNCHANGED vars
    BY <1>8, <1>s DEF vars, storage, names
  <1>9. QED
    BY <1>1, <1>2, <1>3, <1>4, <1>5, <1>6, <1>7, <1>8 DEF Next, Finish

\* Two elements of a folder have the same name only if one is a link whose name
\* checkName has lengthened, past which it does not look again.
THEOREM NamesAreApart == Spec => []SameNameOnlyIfEnded
  <1>1. Init => NameInv
    <2> SUFFICES ASSUME Init PROVE NameInv
      OBVIOUS
    <2>1. name \in [Ids -> Names]
      BY NamesAssumption DEF Init, RootName, Names
    <2>2. \A e \in live : /\ e \in DOMAIN FirstRows
                          /\ row[e] = FirstRows[e] /\ name[e] = FirstNames[e]
      BY InitLinks, LiveAreIds DEF Init
    <2>3. QED
      BY <2>1, <2>2, NamesAssumption DEF NameInv, SameNameOnlyIfEnded
  <1>2. NameInv => SameNameOnlyIfEnded
    BY DEF NameInv
  <1>3. Init => FolderInv
    BY InitFolders
  <1>4. FolderInv /\ NameInv /\ [Next]_vars => FolderInv' /\ NameInv'
    BY FolderStep, NameStep
  <1>5. QED
    BY <1>1, <1>2, <1>3, <1>4, PTL DEF Spec
-----------------------------------------------------------------------------
Closed(S) == Parents(S) \subseteq S

\* The iteration of Above, as steps.
LEMMA AboveSteps ==
  ASSUME LinkInv, NEW e
  PROVE  \E g : /\ g \in [0 .. MaxId -> SUBSET (Ids \cup {NoId})]
                /\ g[0] = Parents({e})
                /\ \A i \in 1 .. MaxId : g[i] = g[i - 1] \cup Parents(g[i - 1])
                /\ Above(e) = g[MaxId]
  <1> DEFINE M == SUBSET (Ids \cup {NoId})
             step == [i \in 1 .. MaxId |-> [S \in M |-> S \cup Parents(S)]]
             upTo[i \in 0 .. MaxId] ==
               IF i = 0 THEN Parents({e})
               ELSE LET S == upTo[i - 1] IN S \cup Parents(S)
  <1>0. MaxId \in Nat /\ row \in [Ids -> Rows] /\ live \subseteq Ids
    BY BoundsAssumption, LiveAreIds DEF LinkInv, RowsTyped
  <1>1. \A S : Parents(S) \in M
    <2>1. \A x \in live : row[x].parent \in Ids \cup {NoId}
      BY <1>0 DEF Rows
    <2>2. QED
      BY <2>1 DEF Parents
  <1>2. step \in [1 .. MaxId -> [M -> M]]
    <2>1. \A S \in M : S \cup Parents(S) \in M
      BY <1>1
    <2> HIDE DEF M
    <2>2. QED
      BY <2>1
  <1>3. PICK g : Iterates(g, MaxId, M, Parents({e}), step)
    <2> HIDE DEF M, step
    <2>1. QED
      BY <1>0, <1>1, <1>2, Iterated
  <1>4. g \in [0 .. MaxId -> M] /\ g[0] = Parents({e})
    BY <1>3 DEF Iterates
  <1>5. \A i \in 1 .. MaxId : g[i] = g[i - 1] \cup Parents(g[i - 1])
    <2> SUFFICES ASSUME NEW i \in 1 .. MaxId PROVE g[i] = g[i - 1] \cup Parents(g[i - 1])
      OBVIOUS
    <2>1. g[i - 1] \in M /\ g[i] = step[i][g[i - 1]]
      <3>1. i - 1 \in 0 .. MaxId
        BY <1>0
      <3> HIDE DEF M, step
      <3>2. QED
        BY <1>3, <3>1 DEF Iterates
    <2> HIDE DEF M
    <2>2. QED
      BY <2>1
  <1>6. g = [i \in 0 .. MaxId |->
               IF i = 0 THEN Parents({e})
               ELSE LET S == g[i - 1] IN S \cup Parents(S)]
    <2>1. \A i \in 0 .. MaxId : i = 0 \/ i \in 1 .. MaxId
      OBVIOUS
    <2> HIDE DEF M
    <2>2. QED
      BY <1>4, <1>5, <2>1
  <1>7. upTo = [i \in 0 .. MaxId |->
               IF i = 0 THEN Parents({e})
               ELSE LET S == upTo[i - 1] IN S \cup Parents(S)]
    BY <1>6
  <1>8. Above(e) = upTo[MaxId]
    BY DEF Above
  <1> HIDE DEF upTo
  <1>9. upTo \in [0 .. MaxId -> M] /\ upTo[0] = Parents({e})
        /\ \A i \in 1 .. MaxId : upTo[i] = upTo[i - 1] \cup Parents(upTo[i - 1])
    <2>1. DOMAIN upTo = 0 .. MaxId /\ upTo[0] = Parents({e})
      BY <1>0, <1>7
    <2>2. \A i \in 1 .. MaxId : upTo[i] = upTo[i - 1] \cup Parents(upTo[i - 1])
      <3>1. \A i \in 1 .. MaxId : i \in 0 .. MaxId /\ i # 0
        OBVIOUS
      <3>2. QED
        BY <1>7, <3>1
    <2> DEFINE T == {i \in 0 .. MaxId : upTo[i] \in M}
    <2>3. 0 \in T
      BY <1>0, <1>1, <2>1
    <2>4. ASSUME NEW k \in 0 .. (MaxId - 1), k \in T PROVE k + 1 \in T
      <3>1. k + 1 \in 1 .. MaxId /\ k + 1 - 1 = k /\ k + 1 \in 0 .. MaxId
        BY <1>0
      <3>2. upTo[k + 1] = upTo[k] \cup Parents(upTo[k])
        BY <2>2, <3>1
      <3>3. QED
        BY <1>1, <2>4, <3>1, <3>2
    <2>5. 0 .. MaxId \subseteq T
      <3> HIDE DEF T
      <3>1. QED
        BY <1>0, <2>3, <2>4, UpToBound
    <2> HIDE DEF M
    <2>6. QED
      BY <1>7, <2>1, <2>2, <2>5
  <1>10. QED
    BY <1>8, <1>9

\* Above(e) holds the parent of e and with every element its parent, and nothing
\* else: MaxId steps are enough, since each adds one of at most MaxId elements.
LEMMA AboveIsClosure ==
  ASSUME LinkInv, NEW e
  PROVE  /\ Parents({e}) \subseteq Above(e) /\ Closed(Above(e))
         /\ \A C : Parents({e}) \subseteq C /\ Closed(C) => Above(e) \subseteq C
  <1>0. MaxId \in Nat /\ live \subseteq 1 .. MaxId
    BY BoundsAssumption DEF LinkInv, RowsTyped
  <1>1. PICK g : /\ g[0] = Parents({e})
                 /\ \A i \in 1 .. MaxId : g[i] = g[i - 1] \cup Parents(g[i - 1])
                 /\ Above(e) = g[MaxId]
    BY AboveSteps
  <1>2. \A k \in 0 .. (MaxId - 1) : /\ k + 1 \in 0 .. MaxId
                                    /\ g[k + 1] = g[k] \cup Parents(g[k])
    <2> SUFFICES ASSUME NEW k \in 0 .. (MaxId - 1)
                 PROVE  k + 1 \in 0 .. MaxId /\ g[k + 1] = g[k] \cup Parents(g[k])
      OBVIOUS
    <2>1. k + 1 \in 1 .. MaxId /\ k + 1 - 1 = k
      BY <1>0
    <2>2. QED
      BY <1>1, <2>1
  <1>3. \A S, T : S \subseteq T => Parents(S) \subseteq Parents(T)
    BY DEF Parents
  <1>4. Parents({e}) \subseteq g[MaxId]
    <2> DEFINE S == {i \in 0 .. MaxId : Parents({e}) \subseteq g[i]}
    <2>1. 0 \in S
      BY <1>0, <1>1
    <2>2. ASSUME NEW k \in 0 .. (MaxId - 1), k \in S PROVE k + 1 \in S
      BY <1>2, <2>2
    <2>3. 0 .. MaxId \subseteq S
      <3> HIDE DEF S
      <3>1. QED
        BY <1>0, <2>1, <2>2, UpToBound
    <2>4. QED
      BY <1>0, <2>3
  <1>5. ASSUME NEW C, Parents({e}) \subseteq C, Closed(C) PROVE g[MaxId] \subseteq C
    <2> DEFINE S == {i \in 0 .. MaxId : g[i] \subseteq C}
    <2>1. 0 \in S
      <3>1. g[0] \subseteq C /\ 0 \in 0 .. MaxId
        BY <1>0, <1>1, <1>5
      <3>2. QED
        BY <3>1
    <2>2. ASSUME NEW k \in 0 .. (MaxId - 1), k \in S PROVE k + 1 \in S
      <3>1. Parents(g[k]) \subseteq C
        BY <1>3, <1>5, <2>2 DEF Closed
      <3>2. QED
        BY <1>2, <2>2, <3>1
    <2>3. 0 .. MaxId \subseteq S
      <3> HIDE DEF S
      <3>1. QED
        BY <1>0, <2>1, <2>2, UpToBound
    <2>4. QED
      BY <1>0, <2>3
  <1>6. IsFiniteSet(live) /\ Cardinality(live) <= MaxId
    <2>1. IsFiniteSet(1 .. MaxId) /\ Cardinality(1 .. MaxId) = MaxId
      BY <1>0, FS_Interval
    <2>2. QED
      BY <1>0, <2>1, FS_Subset
  <1>7. \A S : /\ IsFiniteSet(S \cap live) /\ Cardinality(S \cap live) \in Nat
               /\ Cardinality(S \cap live) <= MaxId
               /\ S \cap live # {} => Cardinality(S \cap live) >= 1
    <2> SUFFICES ASSUME NEW S
                 PROVE  /\ IsFiniteSet(S \cap live) /\ Cardinality(S \cap live) \in Nat
                        /\ Cardinality(S \cap live) <= MaxId
                        /\ S \cap live # {} => Cardinality(S \cap live) >= 1
      OBVIOUS
    <2>1. /\ IsFiniteSet(S \cap live)
          /\ Cardinality(S \cap live) <= Cardinality(live)
      BY <1>6, FS_Subset
    <2>2. Cardinality(S \cap live) \in Nat /\ Cardinality(live) \in Nat
      BY <1>6, <2>1, FS_CardinalityType
    <2>3. S \cap live # {} => Cardinality(S \cap live) # 0
      BY <2>1, FS_EmptySet
    <2>4. QED
      BY <1>0, <1>6, <2>1, <2>2, <2>3
  <1>8. Closed(g[MaxId])
    <2> DEFINE S == {i \in 0 .. MaxId : Closed(g[i]) \/ Cardinality(g[i] \cap live) >= i + 1}
    <2>1. 0 \in S
      <3>1. CASE g[0] \cap live = {}
        BY <1>0, <3>1 DEF Closed, Parents
      <3>2. CASE g[0] \cap live # {}
        BY <1>0, <1>7, <3>2
      <3>3. QED
        BY <3>1, <3>2
    <2>2. ASSUME NEW k \in 0 .. (MaxId - 1), k \in S PROVE k + 1 \in S
      <3> DEFINE A == g[k] \cap live
                 B == g[k + 1] \cap live
      <3>1. CASE Closed(g[k])
        <4>1. g[k + 1] = g[k]
          BY <1>2, <3>1 DEF Closed
        <4>2. Closed(g[k + 1])
          BY <3>1, <4>1
        <4>3. QED
          BY <1>2, <4>2
      <3>2. CASE A = B
        <4>1. Parents(g[k + 1]) = Parents(g[k])
          BY <3>2 DEF Parents
        <4>2. Closed(g[k + 1])
          BY <1>2, <4>1 DEF Closed
        <4>3. QED
          BY <1>2, <4>2
      <3>3. CASE ~Closed(g[k]) /\ A # B
        <4>1. A \in SUBSET B
          BY <1>2
        <4>2. IsFiniteSet(B) /\ Cardinality(A) \in Nat /\ Cardinality(B) \in Nat
          BY <1>7
        <4> HIDE DEF A, B
        <4>3. Cardinality(A) <= Cardinality(B) /\ Cardinality(A) # Cardinality(B)
          BY <3>3, <4>1, <4>2, FS_Subset
        <4>4. Cardinality(A) >= k + 1
          BY <2>2, <3>3 DEF A
        <4>5. Cardinality(B) >= k + 1 + 1
          BY <4>2, <4>3, <4>4
        <4>6. QED
          BY <1>2, <4>5 DEF B
      <3>4. QED
        BY <3>1, <3>2, <3>3
    <2>3. MaxId \in S
      <3> HIDE DEF S
      <3>1. 0 .. MaxId \subseteq S
        BY <1>0, <2>1, <2>2, UpToBound
      <3>2. QED
        BY <1>0, <3>1
    <2>4. ~(Cardinality(g[MaxId] \cap live) >= MaxId + 1)
      <3>1. Cardinality(g[MaxId] \cap live) \in Nat /\ Cardinality(g[MaxId] \cap live) <= MaxId
        BY <1>7
      <3>2. QED
        BY <1>0, <3>1
    <2>5. QED
      BY <2>3, <2>4
  <1>9. QED
    BY <1>1, <1>4, <1>5, <1>8
-----------------------------------------------------------------------------
\* Every folder has a number below those of its elements.
Ranks(rank) ==
  /\ rank \in [Ids -> Nat]
  /\ \A e \in live : row[e].parent # NoId => rank[row[e].parent] < rank[e]

CycleInv == misread \/ \E rank : Ranks(rank)

\* No element that goes or stays where it is disturbs the order.
LEMMA RanksStay ==
  ASSUME CycleInv, live' \subseteq live, misread' = misread,
         \A e \in live' : row'[e].parent = row[e].parent
  PROVE  CycleInv'
  <1>1. ASSUME NEW rank, Ranks(rank) PROVE Ranks(rank)'
    BY <1>1 DEF Ranks
  <1>2. QED
    BY <1>1 DEF CycleInv

\* A new element comes after its folder.
LEMMA RanksAdded ==
  ASSUME FolderInv, CycleInv, NEW r, NEW n, AddRow(r, n), misread' = misread,
         r.parent # NoId => r.parent \in live
  PROVE  CycleInv'
  <1> DEFINE new == lastId + 1
  <1>1. new \in Ids /\ new \notin live /\ live \subseteq Ids /\ row \in [Ids -> Rows]
    BY BoundsAssumption DEF FolderInv, LinkInv, RowsTyped, Ids, AddRow
  <1>2. /\ live' = live \cup {new} /\ row'[new] = r
        /\ \A e \in live : row'[e] = row[e]
    BY <1>1 DEF AddRow
  <1>3. ASSUME NEW rank, Ranks(rank) PROVE \E rank2 : Ranks(rank2)'
    <2> DEFINE k == IF r.parent = NoId THEN 0 ELSE rank[r.parent] + 1
               rank2 == [rank EXCEPT ![new] = k]
    <2>1. k \in Nat
      BY <1>1, <1>3 DEF Ranks
    <2>2. /\ rank2 \in [Ids -> Nat] /\ rank2[new] = k
          /\ \A e \in live : rank2[e] = rank[e]
      BY <1>1, <1>3, <2>1 DEF Ranks
    <2>3. \A e \in live : row[e].parent # NoId => row[e].parent \in live
      BY DEF FolderInv, FoldersKept
    <2>4. \A e \in live : row'[e].parent # NoId => rank2[row'[e].parent] < rank2[e]
      BY <1>2, <1>3, <2>2, <2>3 DEF Ranks
    <2>5. r.parent # NoId => rank2[r.parent] < rank2[new]
      <3>1. r.parent # NoId => rank[r.parent] \in Nat /\ rank2[r.parent] = rank[r.parent]
        BY <1>1, <1>3, <2>2 DEF Ranks
      <3>2. QED
        BY <2>2, <3>1
    <2> HIDE DEF new
    <2>6. \A e \in live' : row'[e].parent # NoId => rank2[row'[e].parent] < rank2[e]
      BY <1>2, <2>4, <2>5
    <2> HIDE DEF rank2
    <2>7. PICK q : q = rank2
      OBVIOUS
    <2>8. Ranks(q)'
      BY <2>2, <2>6, <2>7 DEF Ranks
    <2>9. QED
      BY <2>8
  <1>4. QED
    BY <1>3 DEF CycleInv

\* Where everything has a number, the parents of an element end.
LEMMA RankedEnds ==
  ASSUME FolderInv, NEW rank, Ranks(rank), NEW e \in live
  PROVE  NoId \in Above(e)
  <1> SUFFICES ASSUME NoId \notin Above(e) PROVE FALSE
    OBVIOUS
  <1>1. live \subseteq Ids /\ row \in [Ids -> Rows] /\ LinkInv
    BY LiveAreIds DEF FolderInv, LinkInv, RowsTyped
  <1>2. Parents({e}) \subseteq Above(e) /\ Closed(Above(e))
    BY <1>1, AboveIsClosure
  <1>3. \A x \in live : x = e \/ x \in Above(e) => row[x].parent \in Above(e)
    BY <1>2 DEF Closed, Parents
  <1>4. \A x \in live : row[x].parent # NoId => row[x].parent \in live
    BY DEF FolderInv, FoldersKept
  <1> DEFINE A == Above(e) \cap live
             T == {rank[x] : x \in A}
  <1>5. A # {}
    BY <1>3, <1>4
  <1>6. T \in SUBSET Nat /\ T # {}
    BY <1>1, <1>5 DEF Ranks
  <1>7. PICK m \in T : \A n \in T : m <= n
    <2> HIDE DEF T
    <2>1. QED
      BY <1>6, LeastElement
  <1>8. PICK x \in A : rank[x] = m
    OBVIOUS
  <1>9. row[x].parent \in A /\ row[x].parent # NoId
    BY <1>3, <1>4
  <1>10. rank[row[x].parent] < rank[x]
    BY <1>9 DEF Ranks
  <1>11. rank[row[x].parent] \in T
    BY <1>9
  <1>12. m <= rank[row[x].parent]
    BY <1>7, <1>11
  <1>13. rank[x] \in Nat /\ rank[row[x].parent] \in Nat
    BY <1>1, <1>9 DEF Ranks
  <1>14. QED
    BY <1>8, <1>10, <1>12, <1>13

\* An element moved into a folder that is not below it: it and what is below it
\* come after the folder.
LEMMA RanksMoved ==
  ASSUME FolderInv, NEW rank, Ranks(rank), NEW e \in live, NEW d \in live,
         live' = live, row' = [row EXCEPT ![e].parent = d],
         d # e, e \notin Above(d)
  PROVE  \E rank2 : Ranks(rank2)'
  <1> DEFINE Below == {x \in live : x = e \/ e \in Above(x)}
             up == rank[d] + 1
             rank2 == [x \in Ids |-> IF x \in Below THEN rank[x] + up ELSE rank[x]]
  <1>1. live \subseteq Ids /\ row \in [Ids -> Rows] /\ LinkInv /\ rank \in [Ids -> Nat]
    BY LiveAreIds DEF FolderInv, LinkInv, RowsTyped, Ranks
  <1>2. \A x \in live : /\ row'[x].parent = IF x = e THEN d ELSE row[x].parent
                        /\ row[x].parent # NoId => row[x].parent \in live
    BY <1>1 DEF Rows, FolderInv, FoldersKept
  <1>3. d \notin Below /\ e \in Below
    OBVIOUS
  <1>4. ASSUME NEW x \in live, NEW p \in live, row[x].parent = p, p \in Below
        PROVE  x \in Below
    <2>1. p \in Above(x) /\ Closed(Above(x))
      BY <1>1, <1>4, AboveIsClosure DEF Parents
    <2>2. Parents({p}) \subseteq Above(x)
      BY <2>1 DEF Closed, Parents
    <2>3. Above(p) \subseteq Above(x)
      BY <1>1, <2>1, <2>2, AboveIsClosure
    <2>4. QED
      BY <1>4, <2>1, <2>3
  <1>5. ASSUME NEW x \in live, NEW p \in live, row[x].parent = p, x \in Below, x # e
        PROVE  p \in Below
    <2> DEFINE C == {p} \cup Above(p)
    <2>1. Parents({p}) \subseteq Above(p) /\ Closed(Above(p))
      BY <1>1, AboveIsClosure
    <2>2. Closed(C) /\ Parents({x}) \subseteq C
      BY <1>5, <2>1 DEF Closed, Parents
    <2>3. Above(x) \subseteq C
      <3> HIDE DEF C
      <3>1. QED
        BY <1>1, <2>2, AboveIsClosure
    <2>4. QED
      BY <1>5, <2>3
  <1>6. up \in Nat /\ \A x \in Ids : rank[x] \in Nat
    BY <1>1
  <1> HIDE DEF Below, up
  <1>7. rank2 \in [Ids -> Nat]
    BY <1>6
  <1>8. ASSUME NEW x \in live, row'[x].parent # NoId
        PROVE  rank2[row'[x].parent] < rank2[x]
    <2>1. CASE x = e
      <3>1. row'[x].parent = d /\ rank2[d] = rank[d] /\ rank2[x] = rank[x] + up
        BY <1>1, <1>2, <1>3, <2>1
      <3>2. rank[d] < rank[x] + up
        <4>1. rank[d] \in Nat /\ rank[x] \in Nat
          BY <1>1
        <4>2. QED
          BY <4>1 DEF up
      <3>3. QED
        BY <3>1, <3>2
    <2>2. CASE x # e
      <3> DEFINE p == row[x].parent
      <3>1. row'[x].parent = p /\ p \in live
        BY <1>2, <1>8, <2>2
      <3>2. rank[p] < rank[x] /\ rank[p] \in Nat /\ rank[x] \in Nat
        BY <1>1, <1>8, <3>1 DEF Ranks
      <3>3. x \in Below <=> p \in Below
        BY <1>4, <1>5, <2>2, <3>1
      <3> HIDE DEF p
      <3>4. CASE x \in Below
        <4>1. rank2[p] = rank[p] + up /\ rank2[x] = rank[x] + up
          BY <1>1, <3>1, <3>3, <3>4
        <4>2. rank[p] + up < rank[x] + up
          BY <1>6, <3>2
        <4>3. QED
          BY <3>1, <4>1, <4>2
      <3>5. CASE x \notin Below
        <4>1. rank2[p] = rank[p] /\ rank2[x] = rank[x]
          BY <1>1, <3>1, <3>3, <3>5
        <4>2. QED
          BY <3>1, <3>2, <4>1
      <3>6. QED
        BY <3>4, <3>5
    <2>3. QED
      BY <2>1, <2>2
  <1>9. \A x \in live' : row'[x].parent # NoId => rank2[row'[x].parent] < rank2[x]
    BY <1>8
  <1> HIDE DEF rank2
  <1>10. PICK q : q = rank2
    OBVIOUS
  <1>11. Ranks(q)'
    BY <1>7, <1>9, <1>10 DEF Ranks
  <1>12. QED
    BY <1>11

\* Every step keeps the folders without cycles, or was chosen under an old name.
LEMMA CycleStep ==
  ASSUME FolderInv, CycleInv, [Next]_vars
  PROVE  CycleInv'
  <1>0. /\ LinkInv /\ row \in [Ids -> Rows] /\ live \subseteq Ids /\ NoId \notin live
    BY LiveAreIds DEF FolderInv, LinkInv, RowsTyped
  <1>s. ASSUME live' = live, row' = row, misread' = misread PROVE CycleInv'
    BY <1>s, RanksStay
  <1>d. ASSUME NEW e \in live, DropRow(e), misread' = misread PROVE CycleInv'
    <2>1. live' \subseteq live /\ \A x \in live' : row'[x] = row[x]
      BY <1>d, <1>0 DEF DropRow
    <2>2. QED
      BY <2>1, <1>d, RanksStay
  <1>1. ASSUME NEW u \in Users, Request(u) PROVE CycleInv'
    <2>1. ASSUME \/ Register(u) \/ Refresh(u)
                 \/ \E e \in live : \/ Share(u, e) \/ Delete(u, e) \/ Reopen(u, e)
                                    \/ \E n \in Typed[u] : Rename(u, e, n)
          PROVE  CycleInv'
      BY <2>1, <1>s DEF Register, Refresh, Share, Delete, Reopen, Rename, storage, history
    <2>2. ASSUME NEW d \in live, NEW n, MakeDir(u, d, n) \/ MakeFile(u, d, n) PROVE CycleInv'
      <3>1. PICK k \in {"dir", "file"} : AddRow(Element(k, u, d), n)
        BY <2>2 DEF MakeDir, MakeFile
      <3>2. Element(k, u, d).parent = d /\ misread' = misread
        BY <2>2 DEF Element, MakeDir, MakeFile, history
      <3>3. QED
        BY <3>1, <3>2, RanksAdded
    <2>3. ASSUME NEW f \in live, Activate(u, f) PROVE CycleInv'
      <3>1. AddRow(Clone(u, f), name[f]) /\ Clone(u, f).parent = NoId /\ misread' = misread
        BY <2>3, <1>0 DEF Activate, Clone, Rows
      <3>2. QED
        BY <3>1, RanksAdded
    <2>4. ASSUME NEW e \in live, NEW pars \in 0 .. MaxPars[u], Insert(u, e, pars) PROVE CycleInv'
      <3>1. \A x \in live : row'[x].parent = row[x].parent
        BY <2>4, <1>0 DEF Insert, Rows
      <3>2. live' = live /\ misread' = misread
        BY <2>4 DEF Insert, history
      <3>3. QED
        BY <3>1, <3>2, RanksStay
    <2>5. ASSUME NEW e \in live, NEW d \in live, Move(u, e, d) PROVE CycleInv'
      <3>1. /\ row' = [row EXCEPT ![e].parent = d] /\ live' = live /\ d \in Offered(u, e)
            /\ misread' = (misread \/ shown[e] # name[e])
        BY <2>5 DEF Move
      <3>2. CASE misread \/ shown[e] # name[e]
        BY <3>1, <3>2 DEF CycleInv
      <3>3. CASE ~(misread \/ shown[e] # name[e])
        <4>1. d # e /\ e \notin Above(d)
          BY <3>1, <3>3 DEF Offered
        <4>2. PICK rank : Ranks(rank)
          BY <3>3 DEF CycleInv
        <4>3. \E rank2 : Ranks(rank2)'
          BY <3>1, <4>1, <4>2, RanksMoved
        <4>4. QED
          BY <4>3 DEF CycleInv
      <3>4. QED
        BY <3>2, <3>3
    <2>6. QED
      BY <1>1, <2>1, <2>2, <2>3, <2>4, <2>5 DEF Request
  <1>2. CASE MakeRoot
    <2>1. Element("dir", task.on, NoId).parent = NoId
      BY DEF Element
    <2>2. QED
      BY <1>2, <2>1, RanksAdded DEF MakeRoot, history
  <1>3. CASE Place
    <2> DEFINE e == task.on
    <2>1. e \in live /\ IsLink(e)
      BY <1>3 DEF Place, FolderInv, TaskPlaced
    <2>2. PICK d \in RootRows(row[e].owner) : row' = [row EXCEPT ![e].parent = d]
      BY <1>3 DEF Place
    <2>3. d \in live /\ row[d].kind = "dir" /\ row[e].kind = "file" /\ row[d].parent = NoId
      <3>1. PICK x \in live :
              /\ task.on = x
              /\ \A y \in live : row[y].parent = NoId /\ row[y].creator = row[x].owner
                   => IsRoot(y) /\ row[y].owner = row[x].owner
        BY <1>3 DEF Place, FolderInv, TaskPlaced
      <3>2. QED
        BY <2>1, <2>2, <3>1 DEF RootRows, IsRoot, FolderInv, LinkInv, LinksKnown
    <2>4. live' = live /\ misread' = misread
      BY <1>3 DEF Place, history
    <2>5. e \notin Above(d)
      <3>1. Parents({d}) \subseteq {NoId} /\ Closed({NoId})
        BY <1>0, <2>3 DEF Parents, Closed
      <3>2. Above(d) \subseteq {NoId}
        BY <1>0, <3>1, AboveIsClosure
      <3>3. QED
        BY <1>0, <2>1, <3>2
    <2>6. ASSUME NEW rank, Ranks(rank) PROVE \E rank2 : Ranks(rank2)'
      BY <2>1, <2>2, <2>3, <2>4, <2>5, <2>6, RanksMoved
    <2>7. QED
      BY <2>4, <2>6 DEF CycleInv
  <1>4. ASSUME \/ WriteData
               \/ \E e \in live : RemoveChild(e) \/ RemoveToken(e) \/ RemoveData(e)
        PROVE  CycleInv'
    BY <1>4, <1>s DEF WriteData, RemoveChild, RemoveToken, RemoveData, storage, history
  <1>5. ASSUME NEW f \in live, RemoveLink(f) PROVE CycleInv'
    <2>1. PICK l \in live : DropRow(l)
      BY <1>5 DEF RemoveLink, First, LinksOf
    <2>2. QED
      BY <2>1, <1>5, <1>d DEF RemoveLink, history
  <1>6. ASSUME NEW e \in live, RemoveRow(e) PROVE CycleInv'
    BY <1>6, <1>d DEF RemoveRow, history
  <1>7. CASE Crash \/ Overflow
    BY <1>7, <1>s DEF Crash, Overflow, Die
  <1>8. CASE UNCHANGED vars
    BY <1>8, <1>s DEF vars, storage, history
  <1>9. QED
    BY <1>1, <1>2, <1>3, <1>4, <1>5, <1>6, <1>7, <1>8 DEF Next, Finish

\* No folder comes to lie below itself, for any depth of the tree, unless a move
\* was chosen while the browser showed an old name.
THEOREM CyclesAreMisread == Spec => []CyclesOnlyIfMisread
  <1>1. Init => CycleInv
    <2> SUFFICES ASSUME Init PROVE CycleInv
      OBVIOUS
    <2> DEFINE rank == [e \in Ids |-> e]
    <2>1. \A e \in live : /\ e \in DOMAIN FirstRows /\ e \in Ids
                          /\ row[e] = FirstRows[e]
      BY InitLinks, LiveAreIds DEF Init
    <2>2. rank \in [Ids -> Nat]
      BY DEF Ids
    <2>3. ASSUME NEW e \in live, row[e].parent # NoId PROVE rank[row[e].parent] < rank[e]
      <3> DEFINE p == row[e].parent
      <3>1. p \in 1 .. (e - 1) /\ e \in 1 .. MaxId /\ MaxId \in Nat
        BY <2>1, <2>3, FirstRowsAssumption, BoundsAssumption DEF Ids
      <3> HIDE DEF p
      <3>2. p \in 1 .. MaxId /\ p < e
        BY <3>1
      <3> USE DEF p
      <3>3. rank[p] = p /\ rank[e] = e
        BY <3>1, <3>2 DEF Ids
      <3>4. QED
        BY <3>2, <3>3
    <2>4. Ranks(rank)
      BY <2>2, <2>3 DEF Ranks
    <2>5. QED
      BY <2>4 DEF CycleInv
  <1>2. FolderInv /\ CycleInv => CyclesOnlyIfMisread
    BY RankedEnds DEF CycleInv, CyclesOnlyIfMisread
  <1>3. Init => FolderInv
    BY InitFolders
  <1>4. FolderInv /\ CycleInv /\ [Next]_vars => FolderInv' /\ CycleInv'
    BY FolderStep, CycleStep
  <1>5. QED
    BY <1>1, <1>2, <1>3, <1>4, PTL DEF Spec
=============================================================================
