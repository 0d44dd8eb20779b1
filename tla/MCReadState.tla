---------------------------- MODULE MCReadState ----------------------------
(***************************************************************************)
(* Small instances of ReadState: a group chat and two dialogues of the     *)
(* same two users, with a message at first, but for the second dialogue.   *)
(***************************************************************************)
EXTENDS ReadState, TLC

CONSTANTS u1, u2, c1, d1, d2, k1, k2, k3

Kinds == (c1 :> "c") @@ (d1 :> "dm") @@ (d2 :> "dm")
Both == [c \in Chat |-> {u1, u2}]
FirstRow(c) == [chat |-> c, lid |-> 1, from |-> u1, deleted |-> FALSE, withdrawn |-> FALSE]
TwoRows == <<FirstRow(d1), FirstRow(c1)>>

Plain(kind, u, c) ==
  [kind |-> kind, by |-> u, chat |-> c, byPeer |-> TRUE, start |-> 0, ids |-> {}, all |-> FALSE]
From(n, c) == [Plain("mark", u2, c) EXCEPT !.start = n]
Ids(N) == [Plain("mark", u2, d1) EXCEPT !.ids = N, !.byPeer = FALSE]
On(kind, u, n) == [Plain(kind, u, d1) EXCEPT !.ids = {n}]

\* Triples of requests: new and deleted messages while all, one, or both
\* conversations are being read, and while one is being forgotten, also empty.
Triples ==
  {<<Plain("send", u1, d1), Plain("mark", u2, d1), Plain("forget", u2, d1)>>,
   <<Plain("send", u1, d2), Plain("mark", u2, d2), Plain("forget", u2, d2)>>,
   <<Plain("send", u1, d1), Plain("mark", u2, d1), From(1, d1)>>,
   <<On("delete", u1, 1), From(3, d1), Plain("send", u1, d1)>>,
   <<Plain("send", u1, d1), On("delete", u1, 2), Plain("mark", u2, d1)>>,
   <<On("delete", u1, 1), On("restore", u1, 1), Plain("mark", u2, d1)>>,
   <<Plain("send", u2, d1), On("delete", u1, 1), Plain("forget", u2, d1)>>,
   <<Ids({1, 2}), Plain("send", u1, d1), Plain("send", u1, c1)>>,
   <<From(4, c1), On("delete", u1, 1), [From(2, d1) EXCEPT !.byPeer = FALSE]>>}

SomeScenarios == {(k1 :> t[1]) @@ (k2 :> t[2]) @@ (k3 :> t[3]) : t \in Triples}
=============================================================================
