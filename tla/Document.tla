------------------------------ MODULE Document ------------------------------
(***************************************************************************)
(* What File (File.cpp) does to its list of symbols, at a client (local     *)
(* operations, by index) and at the server and the other clients (remote    *)
(* operations, by symbol). A symbol is its identifier, the pair of its      *)
(* author and the author's counter, and its position; characters and        *)
(* formats are left out.                                                    *)
(***************************************************************************)
EXTENDS Positions, SequencesExt

\* Slip: the identifiers are compared before the positions.
SymLess_ByIdFirst(s, t) ==
  IF s.id # t.id THEN s.id[1] < t.id[1] \/ (s.id[1] = t.id[1] /\ s.id[2] < t.id[2])
  ELSE PosLess(s.pos, t.pos)

\* operator<(const Symbol&, const Symbol&)
SymLess(s, t) ==
  IF s.pos # t.pos THEN PosLess(s.pos, t.pos)
  ELSE s.id[1] < t.id[1] \/ (s.id[1] = t.id[1] /\ s.id[2] < t.id[2])

Ids(doc) == [i \in DOMAIN doc |-> doc[i].id]

\* _symbols.emplace(iterator at i, s)
Emplace(doc, i, s) == SubSeq(doc, 1, i - 1) \o <<s>> \o SubSeq(doc, i, Len(doc))

\* The smallest index from n on that satisfies the test, or the past-the-end
\* one: std::find_if(it, _symbols.end(), ...).
FirstFrom(doc, n, Test(_)) ==
  CHOOSE i \in n .. (Len(doc) + 1) :
    /\ i <= Len(doc) => Test(doc[i])
    /\ \A j \in n .. (i - 1) : ~ Test(doc[j])

(***************************************************************************)
(* localInsert: the new symbol goes before the one at index k (k is          *)
(* Len(doc) + 1 at the end) with a position between its neighbours. The      *)
(* result says whether findPosition threw.                                  *)
(***************************************************************************)
LocalInsert(doc, k, id) ==
  LET l == IF k > 1 THEN doc[k - 1].pos ELSE << >>
      r == IF k <= Len(doc) THEN doc[k].pos ELSE << >>
      found == FindPosition[<<id[1], l, r>>]
      sym == [id |-> id, pos |-> found.position]
  IN  [thrown |-> found.thrown, sym |-> sym,
       doc |-> IF found.thrown THEN doc ELSE Emplace(doc, k, sym)]

LocalDelete(doc, k) == RemoveAt(doc, k)

(***************************************************************************)
(* A remote operation carries an iterator from one symbol of its message to *)
(* the next: the state it works on is the list and the index the iterator   *)
(* stands at.                                                               *)
(***************************************************************************)
AtStart(doc) == [doc |-> doc, it |-> 1, wild |-> FALSE]

RemoteInsert(at, sym) ==
  LET i == FirstFrom(at.doc, at.it, LAMBDA cmp : SymLess(sym, cmp))
  IN  [at EXCEPT !.doc = Emplace(@, i, sym), !.it = i]

\* What the build finds where getSymbolId() reads past the last symbol: in
\* libstdc++ the end node of a list is followed by the list's size, which an
\* identifier read there takes for its first component, with 0 for the second.
EndNodeId(doc) == << Len(doc), 0 >>

\* Slip: the iterator moves past the symbol that follows the erased one.
RemoteDelete_SkipsNext(at, id) ==
  LET i == FirstFrom(at.doc, at.it, LAMBDA cmp : cmp.id = id)
  IN  IF i <= Len(at.doc) THEN [at EXCEPT !.doc = RemoveAt(@, i), !.it = i + 1] ELSE at

\* remoteDelete compares the symbol at the iterator first, without asking
\* whether there is one; only then it searches, and a symbol that is gone
\* leaves list and iterator as they are. Erasing the end node leaves memory in
\* no defined state: wild.
RemoteDelete(at, id) ==
  LET i == FirstFrom(at.doc, at.it, LAMBDA cmp : cmp.id = id)
  IN  CASE i <= Len(at.doc) -> [at EXCEPT !.doc = RemoveAt(@, i), !.it = i]
        [] at.it > Len(at.doc) /\ id = EndNodeId(at.doc) -> [at EXCEPT !.wild = TRUE]
        [] OTHER -> at

\* The loops of MessageManager::addSymbols and deleteSymbols and of
\* TextEditor::remoteInsert and remoteDelete.
RemoteInsertAll(doc, syms) == FoldLeft(RemoteInsert, AtStart(doc), syms).doc
RemoteDeleteAll(doc, ids)  == FoldLeft(RemoteDelete, AtStart(doc), ids)
-----------------------------------------------------------------------------
\* The list is in the order of its positions, no two of which are equal.
SortedDoc(doc) ==
  \A i \in 1 .. (Len(doc) - 1) : PosLess(doc[i].pos, doc[i + 1].pos)

\* No two symbols have the same identifier.
DistinctIds(doc) == \A i, j \in DOMAIN doc : doc[i].id = doc[j].id => i = j
=============================================================================
