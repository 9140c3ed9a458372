-------------------------------- MODULE Markup --------------------------------
(***************************************************************************)
(* What an open file holds besides its characters, in the editors of       *)
(* several clients and on the server: the formats, each with the time of   *)
(* its last change (Symbol.cpp, File::localUpdate and remoteUpdate), the   *)
(* paragraphs, one for each line of the text (texteditor_crdt.cpp), and    *)
(* the comments (texteditor_comments.cpp). Positions are CoEdit's matter:  *)
(* here a symbol or a paragraph is a number that says where it goes, and   *)
(* the numbers that are not in the text yet are the ones still to be       *)
(* typed. CoEdit has the notices of who comes and goes, ClientView the     *)
(* answers and errors.                                                     *)
(***************************************************************************)
EXTENDS Integers, FiniteSetsExt, SequencesExt

CONSTANTS
  Users,          \* the users, one client each
  Owner,          \* the user whose file it is: Remove deletes it for everyone
  Symbols,        \* the symbols there are or will be, numbers in their order
  Breaks,         \* those that are line breaks
  Author,         \* symbol -> the user it is of
  InitialText,    \* the symbols of the text at the start
  Paragraphs,     \* the paragraphs there are or will be, in their order
  InitialPars,    \* those of the text at the start
  ParOf,          \* line break of that text -> the paragraph it begins
  Formats, Plain, \* the formats, and the one a typed symbol has
  Inside,         \* the users whose editor shows the file at the start
  Ranges,         \* bound: the ranges of symbols that are given a format
  Mixes,          \* bound: the kinds of work one behaviour mixes, and how often
                  \* the users, and the map of open files, do something
  MaxClock        \* bound: the time

Server == 0
Replicas == Users \cup {Server}
Lines(t) == 1 + Cardinality(t \cap Breaks)

ASSUME UsersAssumption == Users \subseteq Nat \ {0} /\ Owner \in Users /\ Inside \subseteq Users
ASSUME TextAssumption ==
  /\ Symbols \subseteq Nat /\ IsFiniteSet(Symbols)
  /\ Paragraphs \subseteq Nat /\ IsFiniteSet(Paragraphs)
  /\ Breaks \subseteq Symbols /\ InitialText \subseteq Symbols
  /\ Author \in [Symbols -> Users]
  /\ InitialPars \subseteq Paragraphs
  /\ ParOf \in [InitialText \cap Breaks -> InitialPars]
  /\ \A b, c \in InitialText \cap Breaks : b < c => ParOf[b] < ParOf[c]
  /\ \E p \in InitialPars : /\ InitialPars = {p} \cup {ParOf[b] : b \in InitialText \cap Breaks}
                           /\ \A b \in InitialText \cap Breaks : p < ParOf[b]
  /\ Plain \in Formats
ASSUME ClockAssumption == MaxClock \in Nat

VARIABLES
  \* the File of every replica
  text, pars,  \* the symbols and the paragraphs of its lists
  mark,        \* symbol -> its format, _timestamp and _lastUser
  comments,    \* its comments; of an editor, the widgets that show them
  \* the server
  inFile,      \* the users whose client is in _fileClients
  known,       \* the users of its File's user map
  \* the clients
  window,      \* "closed", "opening", "open", "left", or how the client ended
  listed,      \* the users of the editor's list
  widget,      \* symbol -> the format the text widget shows it in
  nblocks,     \* the editor's count of the lines
  lastNo,      \* the number of the user's last comment
  \* the connections and the clock
  up, down, now,
  sent,        \* user -> the time of the last change of formats it sent
  typed, made, \* the symbols and the paragraphs used so far
  given,       \* line break -> the paragraph it began when it was typed
  \* history
  newest,      \* symbol -> format and time of the newest change
  vague,       \* symbols whose newest change the clocks do not tell, or a
               \* replica did not record, or does not know the time of
  drifted,     \* editors that took an update of which they refused a part
  miscounted,  \* a line was typed or joined by an editor with a wrong count
  hurt,        \* users whose client met something it is not made for
  acts, kinds  \* bounds

file     == <<text, pars, mark, comments>>
server   == <<inFile, known>>
client   == <<window, listed, widget, nblocks, lastNo>>
channels == <<up, down>>
history  == <<newest, vague, drifted, miscounted, hurt>>
vars == <<file, server, client, channels, now, sent, typed, made, given, history, acts, kinds>>

\* A symbol that was typed or read has no time (QDateTime()), which every time
\* is later than; _lastUser is read only when times are equal.
Unchanged(s) == [fmt |-> Plain, at |-> 0, by |-> Author[s]]

Init ==
  /\ text = [r \in Replicas |-> InitialText]
  /\ pars = [r \in Replicas |-> InitialPars]
  /\ mark = [r \in Replicas |-> [s \in Symbols |-> Unchanged(s)]]
  /\ comments = [r \in Replicas |-> {}]
  /\ inFile = Inside /\ known = Users
  /\ window = [u \in Users |-> IF u \in Inside THEN "open" ELSE "closed"]
  /\ listed = [u \in Users |-> Users]
  /\ widget = [u \in Users |-> [s \in Symbols |-> Plain]]
  /\ nblocks = [u \in Users |-> Lines(InitialText)]
  /\ lastNo = [u \in Users |-> 0]
  /\ up = [u \in Users |-> << >>] /\ down = [u \in Users |-> << >>]
  /\ now = 1 /\ sent = [u \in Users |-> 0]
  /\ typed = InitialText /\ made = InitialPars
  /\ given = [b \in Breaks |-> IF b \in InitialText THEN ParOf[b] ELSE 0]
  /\ newest = [s \in Symbols |-> [fmt |-> Plain, at |-> 0]]
  /\ vague = {} /\ drifted = {} /\ miscounted = FALSE /\ hurt = {}
  /\ acts = 0 /\ kinds = {}
-----------------------------------------------------------------------------
\* Messages.
Get == [type |-> "get"]
CloseMsg == [type |-> "close"]
RemoveMsg == [type |-> "remove"]
Ins(syms, ps) == [type |-> "ins", syms |-> syms, pars |-> ps]
Del(syms, ps) == [type |-> "del", syms |-> syms, pars |-> ps]
Upd(syms, f, t) == [type |-> "upd", syms |-> syms, fmt |-> f, at |-> t]
Com(type, c) == [type |-> type, comment |-> c]

SendUp(u, msgs) == up' = [up EXCEPT ![u] = @ \o msgs]

Ended(v) == window[v] \in {"endedByEdit", "endedByUpdate", "endedByFile", "endedByComment",
                           "endedByHighlight"}

\* What a handler passes on: the message with its sender's name.
Named(u, m) == [x \in {"user"} \cup DOMAIN m |-> IF x = "user" THEN u ELSE m[x]]

\* The loop of every handler over getClientsInFile: everyone but the sender.
\* What is written to a client that has ended is lost.
Relay(u) ==
  LET m == Named(u, Head(up[u]))
  IN  down' = [v \in Users |-> IF v \in inFile \ {u} /\ ~ Ended(v)
                               THEN Append(down[v], m) ELSE down[v]]

\* An exception nobody catches ends the client: of what it had written the
\* server sees a part, then the end of the connection, and closes the file.
Ends(u, how, written) ==
  /\ window' = [window EXCEPT ![u] = how]
  /\ \E n \in 0 .. Len(written) : up' = [up EXCEPT ![u] = Append(SubSeq(written, 1, n), CloseMsg)]
  /\ down' = [down EXCEPT ![u] = << >>]

Received(u, type) == up[u] # << >> /\ Head(up[u]).type = type
Consume(u) == up' = [up EXCEPT ![u] = Tail(@)]
Arrived(u, type) == down[u] # << >> /\ Head(down[u]).type = type
Drop(u) == down' = [down EXCEPT ![u] = Tail(@)]

\* What a user does is bounded in number, and in the kinds mixed.
Acts(kind) ==
  /\ acts' = acts + 1 /\ kinds' = kinds \cup {kind}
  /\ \E mix \in Mixes : kinds' \subseteq mix.kinds /\ acts' <= mix.acts
Idle == UNCHANGED <<acts, kinds>>
-----------------------------------------------------------------------------
\* Lists in order.
Rank(S, x) == Cardinality({y \in S : y <= x})
Order(S) == [i \in 1 .. Cardinality(S) |-> CHOOSE x \in S : Rank(S, x) = i]
Contiguous(S, T) ==
  \A x \in T \ S : (\A y \in S : x < y) \/ (\A y \in S : y < x)

(***************************************************************************)
(* Formats. isOlder lets the greater user id lose when times are equal; a    *)
(* local change counts as the author's, not as the user's who made it.       *)
(***************************************************************************)
IsOlder(m, t, user) == IF m.at = t THEN m.by > user ELSE m.at < t

\* File::localUpdate over the range the user formatted.
LocalUpdate(m, S, f) ==
  [s \in Symbols |-> IF s \in S /\ m[s].fmt # f
                     THEN [fmt |-> f, at |-> now, by |-> Author[s]] ELSE m[s]]

\* Slip: the greater time is not asked for.
Takes_LastCome(t, m, msg, user) == {s \in msg.syms \cap t : m[s].fmt # msg.fmt}

\* The symbols of an update that File::remoteUpdate changes.
Takes(t, m, msg, user) ==
  {s \in msg.syms \cap t : IsOlder(m[s], msg.at, user) /\ m[s].fmt # msg.fmt}

\* Symbol::remoteUpdate.
RemoteUpdate(t, m, msg, user) ==
  [s \in Symbols |-> IF s \in Takes(t, m, msg, user)
                     THEN [fmt |-> msg.fmt, at |-> msg.at, by |-> user] ELSE m[s]]

\* Those it leaves because they have the format already: their time stays.
Unrecorded(t, m, msg, user) ==
  {s \in msg.syms \cap t : IsOlder(m[s], msg.at, user) /\ m[s].fmt = msg.fmt}

(***************************************************************************)
(* The loop of TextEditor::remoteUpdate. it is the iterator the symbols      *)
(* share, as an index of the list, pos the position of the widget that goes  *)
(* with it: a symbol that is refused moves the one and not the other.        *)
(***************************************************************************)
WalkStep_PosKept(t, takes, fmt, at, s) ==
  IF at.it > Cardinality(t) THEN [at EXCEPT !.past = TRUE]
  ELSE IF s \notin t \/ Rank(t, s) < at.it THEN at
  ELSE IF s \notin takes THEN [at EXCEPT !.it = Rank(t, s)]
  ELSE [at EXCEPT !.it = Rank(t, s) + 1,
                  !.widget = [@ EXCEPT ![Order(t)[at.pos + (Rank(t, s) - at.it) + 1]] = fmt]]

WalkStep(t, takes, fmt, at, s) ==
  IF at.it > Cardinality(t) THEN [at EXCEPT !.past = TRUE]
  ELSE IF s \notin t \/ Rank(t, s) < at.it THEN at
  ELSE IF s \notin takes THEN [at EXCEPT !.it = Rank(t, s)]
  ELSE LET newpos == at.pos + (Rank(t, s) - at.it)
       IN  [at EXCEPT !.it = Rank(t, s) + 1, !.pos = newpos + 1,
                      !.widget = [@ EXCEPT ![Order(t)[newpos + 1]] = fmt]]

Walk(t, m, w, msg, user) ==
  FoldLeft(LAMBDA at, s : WalkStep(t, Takes(t, m, msg, user), msg.fmt, at, s),
           [it |-> 1, pos |-> 0, widget |-> w, past |-> FALSE], Order(msg.syms))

\* The user gives a range a format (_handleSymbolUpdate). The File's symbols
\* take the time of the loop, the message a time after it.
Format(u, S, f) ==
  LET changed == {s \in S : mark[u][s].fmt # f}
  IN  /\ window[u] = "open" /\ sent[u] <= now
      /\ Acts("format")
      /\ S \subseteq text[u] /\ Contiguous(S, text[u])
      /\ changed # {}
      /\ mark' = [mark EXCEPT ![u] = LocalUpdate(@, S, f)]
      /\ widget' = [widget EXCEPT ![u] = [s \in Symbols |-> IF s \in S THEN f ELSE @[s]]]
      /\ \E t \in now .. Min({now + 1, MaxClock}) :
            /\ SendUp(u, <<Upd(changed, f, t)>>)
            /\ sent' = [sent EXCEPT ![u] = t]
            /\ newest' = [s \in Symbols |-> IF s \in changed /\ newest[s].at <= t
                                            THEN [fmt |-> f, at |-> t] ELSE newest[s]]
      /\ vague' = vague \cup {s \in changed : newest[s].at >= now}
      /\ UNCHANGED <<text, pars, comments, server, window, listed, nblocks, lastNo, down,
                     now, typed, made, given, drifted, miscounted, hurt>>

\* Only changes of formats look at the clock.
Tick ==
  /\ now < MaxClock /\ "format" \in kinds
  /\ now' = now + 1
  /\ UNCHANGED <<file, server, client, channels, sent, typed, made, given, history, acts, kinds>>

\* localUpdate of the server and updateSymbols. A message takes time.
ServerUpdate(u) ==
  LET m == Head(up[u])
  IN  /\ Received(u, "upd") /\ m.at <= now
      /\ u \in inFile
      /\ mark' = [mark EXCEPT ![Server] = RemoteUpdate(text[Server], @, m, u)]
      /\ vague' = vague \cup Unrecorded(text[Server], mark[Server], m, u)
      /\ Relay(u) /\ Consume(u) /\ Idle
      /\ UNCHANGED <<text, pars, comments, server, client, now, sent, typed, made, given, newest,
                     drifted, miscounted, hurt>>

\* A symbol the editor refuses, before one it takes.
RefusedInPart(t, m, msg, user) ==
  \E s \in msg.syms \cap t : \E x \in Takes(t, m, msg, user) :
     s < x /\ s \notin Takes(t, m, msg, user)

\* TextEditor::remoteUpdate. Past the last symbol it reads the format of the
\* list's end node, which may end the client.
ClientUpdate(u) ==
  LET m == Head(down[u])
      w == Walk(text[u], mark[u], widget[u], m, m.user)
  IN  /\ Arrived(u, "upd")
      /\ mark' = [mark EXCEPT ![u] = RemoteUpdate(text[u], @, m, m.user)]
      /\ widget' = [widget EXCEPT ![u] = w.widget]
      /\ \/ Drop(u) /\ UNCHANGED <<window, up>>
         \/ w.past /\ Ends(u, "endedByUpdate", up[u])
      /\ vague' = vague \cup Unrecorded(text[u], mark[u], m, m.user)
      /\ drifted' = IF RefusedInPart(text[u], mark[u], m, m.user) THEN drifted \cup {u} ELSE drifted
      /\ hurt' = IF m.syms \subseteq text[u] THEN hurt ELSE hurt \cup {u}
      /\ Idle
      /\ UNCHANGED <<text, pars, comments, server, listed, nblocks, lastNo, now, sent, typed,
                     made, given, newest, miscounted>>
-----------------------------------------------------------------------------
(***************************************************************************)
(* Text and paragraphs. The editor tells by its own count of the lines how   *)
(* many paragraphs an edit adds or removes, and by the line of the edit      *)
(* which ones.                                                               *)
(***************************************************************************)
LineOf(t, k) == Cardinality({b \in t \cap Breaks : b < k})

\* Elements of S from index i on (from 0), n of them.
Segment(S, i, n) == {x \in S : Rank(S, x) \in (i + 1) .. (i + n)}

\* The user replaces the symbols gone by one new symbol, or by none. What
\* replaces a symbol by an equal one is a phantom update and ignored.
EditFits(u, gone, new) ==
  /\ gone \subseteq text[u] /\ gone \cup new # {}
  /\ Contiguous(gone, text[u])
  /\ Contiguous(gone \cup new, (text[u] \ gone) \cup new)
  /\ \A s \in new : s \notin typed /\ Author[s] = u
  /\ ~ (Cardinality(gone) = Cardinality(new) /\ gone \cup new \subseteq Breaks)

\* The paragraphs a new line may be given: none that was used, and after the
\* first n of the list.
FreshPars(S, n) ==
  {p \in Paragraphs \ made : \A q \in S : IF Rank(S, q) <= n THEN q < p ELSE p < q}

\* Lines that were typed at the same time may have their paragraphs in another
\* order.
Shuffled(u) == \E b, c \in text[u] \cap Breaks : b < c /\ given[c] < given[b]

\* _handleDelete, then _handleInsert. Both see the widget after the whole edit;
\* the deletion is sent before the insertion is handled. A list that is shorter
\* than the lines ask for is an exception.
Edit(u, gone, new) ==
  LET t == (text[u] \ gone) \cup new
      line == LineOf(t, Min(gone \cup new))
      removed == IF gone = {} THEN 0 ELSE Max({0, nblocks[u] - Lines(t)})
      added == IF new = {} THEN 0 ELSE Max({0, Lines(t) - (nblocks[u] - removed)})
      lost == Segment(pars[u], line + 1, removed)
      kept == pars[u] \ lost
      deletion == IF gone = {} THEN << >> ELSE <<Del(gone, lost)>>
      deletes == removed = 0 \/ line + 1 + removed <= Cardinality(pars[u])
      inserts == /\ added = 0 \/ line + 1 <= Cardinality(kept)
                 /\ new = {} \/ line <= Cardinality(kept) + added
  IN  /\ window[u] = "open"
      /\ EditFits(u, gone, new)
      /\ Acts(IF new = {} /\ gone \cap Breaks = {} THEN "erase" ELSE "line")
      /\ text' = [text EXCEPT ![u] = t]
      /\ typed' = typed \cup new
      /\ \/ /\ deletes /\ inserts
            /\ \E found \in kSubset(added, FreshPars(kept, line + 1)) :
                  /\ pars' = [pars EXCEPT ![u] = kept \cup found]
                  /\ made' = made \cup found
                  /\ given' = [b \in Breaks |-> IF b \in new /\ found # {}
                                               THEN CHOOSE p \in found : TRUE ELSE given[b]]
                  /\ SendUp(u, deletion \o IF new = {} THEN << >> ELSE <<Ins(new, found)>>)
            /\ nblocks' = [nblocks EXCEPT ![u] = @ - removed + added]
            /\ UNCHANGED <<window, down>>
         \/ /\ ~ deletes
            /\ Ends(u, "endedByEdit", up[u])
            /\ UNCHANGED <<pars, made, given, nblocks>>
         \/ /\ deletes /\ ~ inserts
            /\ Ends(u, "endedByEdit", up[u] \o deletion)
            /\ UNCHANGED <<pars, made, given, nblocks>>
      /\ miscounted' = \/ miscounted
                       \/ nblocks[u] # Lines(text[u])
                       \/ gone \cap Breaks # {} /\ (new \cap Breaks # {} \/ Shuffled(u))
      /\ hurt' = IF nblocks[u] # Lines(text[u]) \/ Cardinality(pars[u]) # Lines(text[u])
                 THEN hurt \cup {u} ELSE hurt
      /\ UNCHANGED <<mark, comments, server, listed, widget, lastNo, now, sent, newest, vague,
                     drifted>>

\* localInsert and localDelete of the server.
ServerInsert(u) ==
  LET m == Head(up[u])
  IN  /\ Received(u, "ins") /\ u \in inFile
      /\ text' = [text EXCEPT ![Server] = @ \cup m.syms]
      /\ pars' = [pars EXCEPT ![Server] = @ \cup m.pars]
      /\ Relay(u) /\ Consume(u) /\ Idle
      /\ UNCHANGED <<mark, comments, server, client, now, sent, typed, made, given, history>>

\* Slip: the paragraphs of the message are not read.
ServerDelete_TextOnly(u) ==
  LET m == Head(up[u])
  IN  /\ Received(u, "del") /\ u \in inFile
      /\ text' = [text EXCEPT ![Server] = @ \ m.syms]
      /\ Relay(u) /\ Consume(u) /\ Idle
      /\ UNCHANGED <<pars, mark, comments, server, client, now, sent, typed, made, given, history>>

ServerDelete(u) ==
  LET m == Head(up[u])
  IN  /\ Received(u, "del") /\ u \in inFile
      /\ text' = [text EXCEPT ![Server] = @ \ m.syms]
      /\ pars' = [pars EXCEPT ![Server] = @ \ m.pars]
      /\ Relay(u) /\ Consume(u) /\ Idle
      /\ UNCHANGED <<mark, comments, server, client, now, sent, typed, made, given, history>>

\* TextEditor::remoteInsert and remoteDelete. The widget's own change is not
\* reported while _blockSignals is set, and the count of the lines stays.
ClientInsert(u) ==
  LET m == Head(down[u])
  IN  /\ Arrived(u, "ins")
      /\ text' = [text EXCEPT ![u] = @ \cup m.syms]
      /\ pars' = [pars EXCEPT ![u] = @ \cup m.pars]
      /\ Drop(u) /\ Idle
      /\ UNCHANGED <<mark, comments, server, client, up, now, sent, typed, made, given, history>>

ClientDelete(u) ==
  LET m == Head(down[u])
  IN  /\ Arrived(u, "del")
      /\ text' = [text EXCEPT ![u] = @ \ m.syms]
      /\ pars' = [pars EXCEPT ![u] = @ \ m.pars]
      /\ Drop(u) /\ Idle
      /\ UNCHANGED <<mark, comments, server, client, up, now, sent, typed, made, given, history>>
-----------------------------------------------------------------------------
(***************************************************************************)
(* Comments: an author, the author's number and the words. Only the author   *)
(* has the buttons to edit and delete; the words tell the first version from *)
(* a later one.                                                              *)
(***************************************************************************)
Key(c) == <<c.author, c.no>>
Without(C, c) == {d \in C : Key(d) # Key(c)}
Has(C, c) == \E d \in C : Key(d) = Key(c)
Own(u) == {c \in comments[u] : c.author = u}

InsertComment(u) ==
  LET c == [author |-> u, no |-> lastNo[u] + 1, words |-> "first"]
  IN  /\ window[u] = "open" /\ Acts("comment")
      /\ comments' = [comments EXCEPT ![u] = @ \cup {c}]
      /\ lastNo' = [lastNo EXCEPT ![u] = @ + 1]
      /\ SendUp(u, <<Com("new", c)>>)
      /\ UNCHANGED <<text, pars, mark, server, window, listed, widget, nblocks, down, now, sent,
                     typed, made, given, history>>

EditComment(u, c) ==
  LET d == [c EXCEPT !.words = "later"]
  IN  /\ window[u] = "open" /\ Acts("comment")
      /\ comments' = [comments EXCEPT ![u] = Without(@, c) \cup {d}]
      /\ SendUp(u, <<Com("words", d)>>)
      /\ UNCHANGED <<text, pars, mark, server, client, down, now, sent, typed, made, given,
                     history>>

DeleteComment(u, c) ==
  /\ window[u] = "open" /\ Acts("comment")
  /\ comments' = [comments EXCEPT ![u] = Without(@, c)]
  /\ SendUp(u, <<Com("erase", c)>>)
  /\ UNCHANGED <<text, pars, mark, server, client, down, now, sent, typed, made, given, history>>

\* newComment, updateComment and deleteComment of the server: the author only,
\* and an update of a comment there is.
Permitted(u, m) ==
  /\ m.type # "new" => m.comment.author = u
  /\ m.type = "words" => Has(comments[Server], m.comment)

CommentsAfter(C, m) ==
  IF m.type = "erase" THEN Without(C, m.comment)
  ELSE Without(C, m.comment) \cup {m.comment}

ReceivedComment(u) == Received(u, "new") \/ Received(u, "words") \/ Received(u, "erase")

\* Slip: a change of words is stored but not passed on.
ServerComment_KeepsWords(u) ==
  LET m == Head(up[u])
  IN  /\ ReceivedComment(u) /\ u \in inFile
      /\ Permitted(u, m)
      /\ comments' = [comments EXCEPT ![Server] = CommentsAfter(@, m)]
      /\ IF m.type = "words" THEN UNCHANGED down ELSE Relay(u)
      /\ Consume(u) /\ Idle
      /\ UNCHANGED <<text, pars, mark, server, client, now, sent, typed, made, given, history>>

ServerComment(u) ==
  LET m == Head(up[u])
  IN  /\ ReceivedComment(u) /\ u \in inFile
      /\ Permitted(u, m)
      /\ comments' = [comments EXCEPT ![Server] = CommentsAfter(@, m)]
      /\ Relay(u) /\ Consume(u) /\ Idle
      /\ UNCHANGED <<text, pars, mark, server, client, now, sent, typed, made, given, history>>

\* commentRemoteInsert, commentRemoteUpdate and commentRemoteDelete: the latter
\* two throw for a comment without a widget.
ClientComment(u) ==
  LET m == Head(down[u])
  IN  /\ Arrived(u, "new") \/ Arrived(u, "words") \/ Arrived(u, "erase")
      /\ IF m.type = "new" \/ Has(comments[u], m.comment)
           THEN /\ comments' = [comments EXCEPT ![u] = CommentsAfter(@, m)]
                /\ Drop(u) /\ UNCHANGED <<window, up>>
           ELSE Ends(u, "endedByComment", up[u]) /\ UNCHANGED comments
      /\ Idle
      /\ UNCHANGED <<text, pars, mark, server, listed, widget, nblocks, lastNo, now, sent,
                     typed, made, given, history>>
-----------------------------------------------------------------------------
\* The users open the file, leave it for the browser, or drop their link to it.
Open(u) ==
  /\ window[u] = "closed" /\ Acts("visit")
  /\ window' = [window EXCEPT ![u] = "opening"]
  /\ SendUp(u, <<Get>>)
  /\ UNCHANGED <<file, server, listed, widget, nblocks, lastNo, down, now, sent, typed, made,
                 given, history>>

Leave(u, how, m) ==
  /\ window[u] = "open" /\ Acts("visit")
  /\ window' = [window EXCEPT ![u] = how]
  /\ SendUp(u, <<m>>)
  /\ UNCHANGED <<file, server, listed, widget, nblocks, lastNo, down, now, sent, typed, made,
                 given, history>>

Close(u) == Leave(u, "closed", CloseMsg)
DropLink(u) == u # Owner /\ Leave(u, "left", RemoveMsg)

\* Symbols with a change on the way that is not newer than the server's: a
\* replica without the times will take it.
Overtaken ==
  {s \in Symbols : \E v \in Users : \E i \in DOMAIN up[v] :
      /\ up[v][i].type = "upd" /\ s \in up[v][i].syms
      /\ up[v][i].at <= mark[Server][s].at}

\* getFile. The times are not part of what is sent (Symbol::toJsonObject).
ServerGet(u) ==
  /\ Received(u, "get") /\ u \notin inFile
  /\ known' = known \cup {u}
  /\ inFile' = inFile \cup {u}
  /\ down' = [down EXCEPT ![u] = IF Ended(u) THEN @ ELSE Append(@,
                [type |-> "file", text |-> text[Server], pars |-> pars[Server],
                 fmts |-> [s \in Symbols |-> mark[Server][s].fmt],
                 comments |-> comments[Server], known |-> known'])]
  /\ vague' = vague \cup Overtaken
  /\ Consume(u) /\ Idle
  /\ UNCHANGED <<file, client, now, sent, typed, made, given, newest, drifted, miscounted, hurt>>

\* Slip of closeFile: who closes is removed as who drops the link is.
ServerClose_Removes(u) ==
  /\ Received(u, "close")
  /\ inFile' = inFile \ {u}
  /\ known' = known \ {u}
  /\ Consume(u) /\ Idle
  /\ UNCHANGED <<file, client, down, now, sent, typed, made, given, history>>

\* closeFile of a client that closes or has ended: the user stays in the map.
ServerClose(u) ==
  /\ Received(u, "close")
  /\ inFile' = inFile \ {u}
  /\ Consume(u) /\ Idle
  /\ UNCHANGED <<file, known, client, down, now, sent, typed, made, given, history>>

\* deleteFile of a link: closeFile removes the user from the File's map.
ServerRemove(u) ==
  /\ Received(u, "remove")
  /\ inFile' = inFile \ {u}
  /\ known' = known \ {u}
  /\ Consume(u) /\ Idle
  /\ UNCHANGED <<file, client, down, now, sent, typed, made, given, history>>

\* The map of open files drops the file, saved, and loadFile reads it again.
Reload ==
  /\ Acts("reload")
  /\ mark' = [mark EXCEPT ![Server] = [s \in Symbols |-> [@[s] EXCEPT !.at = 0, !.by = Author[s]]]]
  /\ vague' = vague \cup Overtaken
  /\ UNCHANGED <<text, pars, comments, server, client, channels, now, sent, typed, made, given,
                 newest, drifted, miscounted, hurt>>

\* TextEditor::clear: the file, then the users, then the comments, whose
\* authors' names and colours are looked up in the list of the users.
ClientFile(u) ==
  LET m == Head(down[u])
  IN  /\ Arrived(u, "file")
      /\ text' = [text EXCEPT ![u] = m.text]
      /\ pars' = [pars EXCEPT ![u] = m.pars]
      /\ mark' = [mark EXCEPT ![u] =
                    [s \in Symbols |-> [fmt |-> m.fmts[s], at |-> 0, by |-> Author[s]]]]
      /\ comments' = [comments EXCEPT ![u] = m.comments]
      /\ widget' = [widget EXCEPT ![u] = m.fmts]
      /\ nblocks' = [nblocks EXCEPT ![u] = Lines(m.text)]
      /\ listed' = [listed EXCEPT ![u] = m.known]
      /\ IF \A c \in m.comments : c.author \in m.known
           THEN /\ window' = [window EXCEPT ![u] = "open"]
                /\ Drop(u) /\ UNCHANGED up
           ELSE Ends(u, "endedByFile", up[u])
      /\ drifted' = drifted \ {u}
      /\ Idle
      /\ UNCHANGED <<server, lastNo, now, sent, typed, made, given, newest, vague, miscounted,
                     hurt>>

\* The editor colours the symbols by their authors: one who is not in the list
\* is an exception ("user not present!").
Highlight(u) ==
  /\ window[u] = "open"
  /\ \E s \in text[u] : Author[s] \notin listed[u]
  /\ Ends(u, "endedByHighlight", up[u])
  /\ Idle
  /\ UNCHANGED <<file, server, listed, widget, nblocks, lastNo, now, sent, typed, made, given,
                 history>>
-----------------------------------------------------------------------------
Works(u) ==
  \/ \E S \in Ranges, f \in Formats : Format(u, S, f)
  \/ \E gone \in SUBSET text[u], new \in kSubset(0, Symbols) \cup kSubset(1, Symbols) :
        Edit(u, gone, new)
  \/ InsertComment(u)
  \/ \E c \in Own(u) : EditComment(u, c) \/ DeleteComment(u, c)
  \/ Open(u) \/ Close(u) \/ DropLink(u) \/ Highlight(u)

ServerReceives(u) ==
  \/ ServerGet(u) \/ ServerClose(u) \/ ServerRemove(u)
  \/ ServerUpdate(u) \/ ServerInsert(u) \/ ServerDelete(u) \/ ServerComment(u)

ClientReceives(u) ==
  ClientFile(u) \/ ClientUpdate(u) \/ ClientInsert(u) \/ ClientDelete(u) \/ ClientComment(u)

Next ==
  \/ \E u \in Users : Works(u) \/ ServerReceives(u) \/ ClientReceives(u)
  \/ Reload \/ Tick

Spec == Init /\ [][Next]_vars
-----------------------------------------------------------------------------
Quiet == \A u \in Users : up[u] = << >> /\ down[u] = << >> /\ ~ Ended(u)
OpenReplicas == {Server} \cup {u \in Users : window[u] = "open"}

\* Last writer wins: once everything has arrived, the server and every editor
\* show each symbol in the format of the newest change to it, in whatever order
\* the changes crossed. It takes three things that the code does not ensure:
\* changes whose times differ, no replica that leaves the time of a newer change
\* unrecorded because it had the format already, and no replica that gets the
\* file, or gets it again, without the times while an older change is coming.
NewestWins ==
  Quiet => \A r \in OpenReplicas : \A s \in text[r] \ vague :
              mark[r][s].fmt = newest[s].fmt

\* The text widget shows every symbol in the format the editor's File has it
\* in, also after updates of which the File took only a part: unless it refused
\* a symbol before one it took, whose position is then wrong.
WidgetShowsFile ==
  \A u \in Users \ drifted : window[u] = "open" =>
     \A s \in text[u] : widget[u][s] = mark[u][s].fmt

\* Every File has one paragraph for each line of its text, whatever edits cross
\* on the way: unless someone types or joins a line in an editor whose count of
\* the lines another user's edit has made wrong, replaces a line break by another
\* while somebody else may delete it, or removes lines where lines that were typed
\* at the same time have their paragraphs in another order.
OneParagraphPerLine ==
  ~ miscounted => \A r \in Replicas : Cardinality(pars[r]) = Lines(text[r])

\* What the messages on the way make of an editor's paragraphs and comments.
ParsAfterAll(P, msgs) ==
  FoldLeft(LAMBDA Q, m : CASE m.type = "ins" -> Q \cup m.pars
                           [] m.type = "del" -> Q \ m.pars
                           [] OTHER -> Q, P, msgs)
CommentsAfterAll(C, msgs) ==
  FoldLeft(LAMBDA D, m : IF m.type \in {"new", "words", "erase"} THEN CommentsAfter(D, m) ELSE D,
           C, msgs)

\* At every moment an open editor's paragraphs and comments, once it has
\* received what is on the way, are the server's once that has received what
\* the editor has sent; so no comment is lost, shown twice or in old words.
EditorsFollow ==
  \A u \in Users : window[u] = "open" =>
     /\ ParsAfterAll(pars[u], down[u]) = ParsAfterAll(pars[Server], up[u])
     /\ CommentsAfterAll(comments[u], down[u]) = CommentsAfterAll(comments[Server], up[u])

\* An exception ends a client only for one of three reasons: it edits while its
\* count of the lines or the paragraphs is wrong, it is sent an update of
\* symbols that have been deleted, or an author of a comment or a symbol has
\* dropped the link to the file (and may have ended later: an editor that is not
\* shown goes on receiving updates).
EndsOnlyByCause ==
  \A u \in Users :
     /\ window[u] \in {"endedByEdit", "endedByUpdate"} => u \in hurt
     /\ window[u] \in {"endedByFile", "endedByHighlight"} =>
           \E v \in Users \ {u} : window[v] = "left" \/ (v \in hurt /\ v \notin known)
     /\ window[u] # "endedByComment"

\* What the exception of _handleDelete and _handleInsert asserts: the paragraphs
\* an edit deletes, or inserts after, are in the File.
ParagraphsAreThere == \A u \in Users : window[u] # "endedByEdit"
=============================================================================
