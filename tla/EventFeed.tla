----------------------------- MODULE EventFeed -----------------------------
(***************************************************************************)
(* What the long poll promises a subject's clients, without Redis, wake-   *)
(* ups or requests: events are numbered in one growing sequence, a client  *)
(* holds a cursor into it, and an answer moves the cursor forward over     *)
(* numbers it never covered before, handing out some of the events in      *)
(* between.  So no event is handed out twice, none is handed out after a   *)
(* later cursor, and no cursor leaves the sequence.  It does NOT promise   *)
(* that every event in between is handed out: the code does not keep that. *)
(***************************************************************************)
EXTENDS Integers

CONSTANT Client

VARIABLES
  head,    \* the number of the newest event
  cursor,  \* client -> where it continues
  told     \* client -> numbers handed out or declared lost to it

feedVars == <<head, cursor, told>>

NoCursor == -1

Init ==
  /\ head = 0
  /\ cursor = [c \in Client |-> NoCursor]
  /\ told = [c \in Client |-> {}]

Issue == head' = head + 1 /\ UNCHANGED <<cursor, told>>

\* Start at the head, or restart there knowing that the rest is lost.
Reset(c) ==
  /\ head' \in {head, head + 1}
  /\ cursor' = [cursor EXCEPT ![c] = head']
  /\ told' = [told EXCEPT ![c] = @ \cup 0 .. head']

Answer(c) ==
  /\ cursor[c] # NoCursor
  /\ \E new \in cursor[c] .. head : \E S \in SUBSET (cursor[c] + 1 .. new) :
       /\ cursor' = [cursor EXCEPT ![c] = new]
       /\ told' = [told EXCEPT ![c] = @ \cup S]
  /\ UNCHANGED head

Next == Issue \/ \E c \in Client : Reset(c) \/ Answer(c)

Spec == Init /\ [][Next]_feedVars
=============================================================================
