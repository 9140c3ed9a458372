---------------------------- MODULE MCClientView ----------------------------
\* Two clients: ann sits at the first, where eve may register, bob at the second.
\* bob owns two files that ann has links to, ann has one, eve may make one.
EXTENDS ClientView, TLC

CONSTANTS a, b, mine, fresh, c1, c2, ann, bob, eve

MCFiles   == {a, b, mine, fresh}
MCOwner   == [f \in Files |-> CASE f = mine -> ann [] f = fresh -> eve [] OTHER -> bob]
MCSignsAs == [c \in Clients |-> IF c = c1 THEN {ann, eve} ELSE {bob}]

\* The users at c1 do n things, bob does m, with the files of fs: all others of
\* the files there ever were have been deleted, but fresh was not made yet.
StartWith(users, fs, greeted, n, m) ==
  [accounts |-> users,
   rows |-> [f \in Files |-> IF f \notin fs THEN {} ELSE IF f = mine THEN {ann} ELSE {ann, bob}],
   born |-> Files \ {fresh},
   greeted |-> greeted,
   acts |-> [c \in Clients |-> IF c = c1 THEN n ELSE m]]

\* A session with one of bob's files and ann's, in which ann has yet to connect; a
\* longer one of ann alone with all three files; one with both of bob's, of which bob
\* does as much as ann; and longer ones with one of them, in which eve may register
\* or has registered.
MCStarts ==
  {StartWith({ann, bob}, {f, mine}, {c2}, 4, 2) : f \in {a, b}}
  \cup {StartWith({ann, bob}, {a, b, mine}, Clients, 6, 0), StartWith({ann, bob}, {a, b}, Clients, 3, 3)}
  \cup {StartWith({ann, bob}, {f}, Clients, 5, 2) : f \in {a, b}}
  \cup {StartWith(Users, {f}, Clients, 4, 2) : f \in {a, b}}

\* The two files of bob are alike.
Alike == Permutations({a, b})
=============================================================================
