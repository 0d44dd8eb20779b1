------------------------------ MODULE MCReading ------------------------------
(***************************************************************************)
(* A small instance of Reading: a group chat and a dialogue of two users.  *)
(***************************************************************************)
EXTENDS Reading

CONSTANTS me, a, c1, d1

Plain(c, l, u) == [chat |-> c, lid |-> l, from |-> u, kicks |-> FALSE, deleted |-> FALSE]
SomeRows == <<Plain(d1, 1, a), Plain(c1, 1, me), Plain(c1, 2, a)>>
=============================================================================
