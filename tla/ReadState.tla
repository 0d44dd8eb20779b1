------------------------------ MODULE ReadState ------------------------------
(***************************************************************************)
(* What a user has read: last_read_id and deleted_before_id of each member *)
(* under messages.markAsRead, send, delete, restore and                    *)
(* deleteConversation, the counter of unread conversations that each of    *)
(* them has goroutines push, and the receipts that tell an author how far  *)
(* the others have read.                                                   *)
(*                                                                         *)
(* Sending, deleting and restoring are single steps here: ChatStore looks  *)
(* into their transactions.  Membership does not change, and nobody hides  *)
(* a message for himself alone.                                            *)
(***************************************************************************)
EXTENDS Integers, Sequences, FiniteSets

CONSTANTS
  User,
  Chat,
  Kind,         \* chat -> "c" (group), "dm" (dialogue) or "g" (with a community)
  Members,      \* chat -> its active members
  Earlier,      \* the messages there are at first
  Call,         \* endpoint calls
  Scenarios,    \* the requests the calls may have: functions from Call
  MaxFaults     \* bound: commands that fail and calls that die

\* chat is the conversation of the request's peer, ids are its message_ids,
\* start its start_message_id (0 for none); byPeer says that it names the peer.
Request == [kind : {"send", "mark", "forget", "delete", "restore"}, by : User,
            chat : Chat, byPeer : BOOLEAN, start : Nat, ids : SUBSET Nat, all : BOOLEAN]
Row == [chat : Chat, lid : Nat \ {0}, from : User, deleted : BOOLEAN, withdrawn : BOOLEAN]

ASSUME ReadStateAssumption ==
  /\ Kind \in [Chat -> {"c", "dm", "g"}]
  /\ Members \in [Chat -> SUBSET User] /\ \A c \in Chat : IsFiniteSet(Members[c])
  /\ Earlier \in Seq(Row) /\ \A i \in DOMAIN Earlier : Earlier[i].deleted => Earlier[i].withdrawn
  /\ Scenarios \subseteq [Call -> Request]
  /\ \A q \in Scenarios, k \in Call : q[k].by \in Members[q[k].chat]
  /\ MaxFaults \in Nat

VARIABLES
  rows,        \* messages in the order of their ids; withdrawn is history: it was
               \* deleted at some time
  last,        \* chat -> conversations.last_message_id
  read,        \* chat, user -> last_read_id
  before,      \* chat, user -> deleted_before_id
  req, pc,     \* call -> request, control point
  tasks,       \* call -> its markTasks
  todo,        \* call -> those not yet written
  at,          \* call -> the one in hand
  snap,        \* call -> the last_message_id or the MAX(local_id) it has read
  jobs,        \* goroutines that push counters
  due,         \* receipts that goroutines have yet to push
  counter,     \* user -> the last counter event
  receipts,    \* the read_outcome_before events
  faults,
  crossed,     \* history: users of whom two goroutines held a count at once
  unaware      \* history: users whose count a restored message has changed

store == <<rows, last, read, before>>
calls == <<req, pc, tasks, todo, at, snap>>
events == <<jobs, due, counter, receipts, crossed, unaware>>
vars == <<store, calls, events, faults>>

Task == [chat : Chat, lid : Nat]
NoTask == [chat |-> "none", lid |-> 0]
Receipt == [chat : Chat, reader : User, lid : Nat, to : User]
None == -1     \* a goroutine that has not counted yet
Job == [by : Call, todo : Seq(User), count : Nat \cup {None}, marks : SUBSET Task]

TypeOK ==
  /\ rows \in Seq(Row) /\ last \in [Chat -> Nat]
  /\ read \in [Chat -> [User -> Nat]] /\ before \in [Chat -> [User -> Nat]]
  /\ req \in [Call -> Request]
  /\ pc \in [Call -> {"start", "marking", "capped", "forgetting", "done"}]
  /\ tasks \in [Call -> SUBSET Task] /\ todo \in [Call -> SUBSET Task] /\ snap \in [Call -> Nat]
  /\ at \in [Call -> Task \cup {NoTask}]
  /\ jobs \subseteq Job /\ due \subseteq Receipt /\ receipts \subseteq Receipt
  /\ counter \in [User -> Nat]
  /\ faults \in 0 .. MaxFaults /\ crossed \subseteq User /\ unaware \subseteq User

-----------------------------------------------------------------------------
(* Queries.                                                                *)

\* Mutant of MaxLid: NULL, here -1, when there is no message.
MaxLidOrNull(R) ==
  IF R = {} THEN -1
  ELSE CHOOSE m \in {r.lid : r \in R} : \A r \in R : r.lid <= m

\* COALESCE(MAX(local_id), 0)
MaxLid(R) ==
  IF R = {} THEN 0
  ELSE CHOOSE m \in {r.lid : r \in R} : \A r \in R : r.lid <= m

Rows == {rows[i] : i \in DOMAIN rows}
In(c) == {r \in Rows : r.chat = c}
NotDeleted(c) == {r \in In(c) : ~r.deleted}

\* CountUnreadConversations
Unread(u, c) ==
  \E r \in In(c) : r.from # u /\ ~r.deleted /\ r.lid > read[c][u] /\ r.lid > before[c][u]
CountUnreadConversations(u) ==
  Cardinality({c \in Chat : u \in Members[c] /\ Unread(u, c)})

Init ==
  /\ rows = Earlier /\ last = [c \in Chat |-> MaxLid(NotDeleted(c))]
  /\ read = [c \in Chat |-> [u \in User |-> 0]] /\ before = [c \in Chat |-> [u \in User |-> 0]]
  /\ req \in Scenarios /\ pc = [k \in Call |-> "start"]
  /\ tasks = [k \in Call |-> {}] /\ todo = [k \in Call |-> {}] /\ snap = [k \in Call |-> 0]
  /\ at = [k \in Call |-> NoTask]
  /\ jobs = {} /\ due = {} /\ receipts = {}
  /\ counter = [u \in User |-> CountUnreadConversations(u)]
  /\ faults = 0 /\ crossed = {} /\ unaware = {}

-----------------------------------------------------------------------------
Is(k, kind) == pc[k] = "start" /\ req[k].kind = kind
Goto(k, p) == pc' = [pc EXCEPT ![k] = p]
Calm == UNCHANGED faults
Fault == faults < MaxFaults /\ faults' = faults + 1

\* The other members, as GetActiveMemberIDs finds them: in any order.
Others(c, u) ==
  LET them == Members[c] \ {u}
  IN  {s \in [1 .. Cardinality(them) -> them] : \A m \in them : \E i \in DOMAIN s : s[i] = m}
Counts(k, us) == {[by |-> k, todo |-> us, count |-> None, marks |-> {}]}

\* messages.send: the sender has read what he writes; the goroutine counts for
\* the recipients, and for the sender last.
Send(k) ==
  LET u == req[k].by
      c == req[k].chat
      lid == MaxLid(In(c)) + 1
  IN  /\ Is(k, "send") /\ Goto(k, "done")
      /\ rows' = Append(rows, [chat |-> c, lid |-> lid, from |-> u, deleted |-> FALSE,
                               withdrawn |-> FALSE])
      /\ last' = [last EXCEPT ![c] = lid] /\ read' = [read EXCEPT ![c][u] = lid]
      /\ \E s \in Others(c, u) : jobs' = jobs \cup Counts(k, Append(s, u))
      /\ Calm /\ UNCHANGED <<before, req, tasks, todo, at, snap, due, counter, receipts, crossed, unaware>>

\* The message a request names, by its local id or its row.
Named(k) ==
  {i \in DOMAIN rows : rows[i].chat = req[k].chat /\ (rows[i].lid \in req[k].ids \/ i \in req[k].ids)}

SetDeleted(k, i, deleted) ==
  LET c == req[k].chat
      now == [rows EXCEPT ![i].deleted = deleted, ![i].withdrawn = TRUE]
  IN  /\ rows' = now
      /\ last' = [last EXCEPT ![c] = MaxLid({now[j] : j \in {x \in DOMAIN now :
                                               now[x].chat = c /\ ~now[x].deleted}})]
      /\ UNCHANGED <<read, before>>

\* messages.delete with delete_for_all, of a message of one's own
Delete(k) ==
  LET u == req[k].by
      c == req[k].chat
  IN  /\ Is(k, "delete") /\ Goto(k, "done")
      /\ \/ \E i \in Named(k) :
              /\ rows[i].from = u /\ ~rows[i].deleted /\ rows[i].lid > before[c][u]
              /\ SetDeleted(k, i, TRUE)
              /\ \E s \in Others(c, u) : jobs' = jobs \cup Counts(k, <<u>> \o s)
         \/ /\ \A i \in Named(k) : rows[i].from # u \/ rows[i].deleted \/ rows[i].lid <= before[c][u]
            /\ UNCHANGED <<store, jobs>>
      /\ Calm /\ UNCHANGED <<req, tasks, todo, at, snap, due, counter, receipts, crossed, unaware>>

\* messages.restore, which tells nobody else the new count
Restore(k) ==
  LET u == req[k].by
  IN  /\ Is(k, "restore") /\ Goto(k, "done")
      /\ \/ \E i \in Named(k) :
              /\ rows[i].from = u /\ rows[i].deleted
              /\ SetDeleted(k, i, FALSE)
              /\ jobs' = jobs \cup Counts(k, <<u>>)
              /\ unaware' = unaware \cup (Members[req[k].chat] \ {u})
         \/ /\ \A i \in Named(k) : rows[i].from # u \/ ~rows[i].deleted
            /\ UNCHANGED <<store, jobs, unaware>>
      /\ Calm /\ UNCHANGED <<req, tasks, todo, at, snap, due, counter, receipts, crossed>>

-----------------------------------------------------------------------------
(* messages.markAsRead                                                     *)

\* Mutant of StartTask: a chat without messages is no exception.
StartTaskUnguarded(c, n) ==
  LET found == {rows[i] : i \in {j \in DOMAIN rows : rows[j].chat = c /\ (rows[j].lid = n \/ j = n)}}
      older == {rows[i] : i \in {j \in DOMAIN rows : rows[j].chat = c /\ j <= n}}
  IN  IF found # {} THEN {[chat |-> c, lid |-> MaxLid(found)]}
      ELSE IF n <= last[c] \/ last[c] = 0 THEN {[chat |-> c, lid |-> n]}
      ELSE {[chat |-> c, lid |-> IF older # {} THEN MaxLid(older) ELSE last[c]]}

\* start_message_id that names no message of the peer's chat: a local id, or the
\* last message that is not newer.
Guess(c, n) ==
  LET older == {rows[i] : i \in {j \in DOMAIN rows : rows[j].chat = c /\ j <= n}}
  IN  IF last[c] = 0 THEN {}
      ELSE IF n <= last[c] THEN {[chat |-> c, lid |-> n]}
      ELSE {[chat |-> c, lid |-> IF older # {} THEN MaxLid(older) ELSE last[c]]}

\* start_message_id with a peer: a message of the chat with that local id or
\* that id
StartTask(c, n) ==
  LET found == {rows[i] : i \in {j \in DOMAIN rows : rows[j].chat = c /\ (rows[j].lid = n \/ j = n)}}
  IN  IF found # {} THEN {[chat |-> c, lid |-> MaxLid(found)]} ELSE Guess(c, n)

\* message_ids: for each the first row with that id, or in the peer's chat with
\* that local id.
IdTasks(k) ==
  LET hit(n, i) == i = n \/ (req[k].byPeer /\ rows[i].chat = req[k].chat /\ rows[i].lid = n)
      first == {i \in DOMAIN rows : \E n \in req[k].ids :
                  hit(n, i) /\ \A j \in DOMAIN rows : hit(n, j) => i <= j}
  IN  {[chat |-> rows[i].chat, lid |-> rows[i].lid] : i \in first}

\* All of it, if that is asked for, or if there is nothing but a peer
AllTasks(k) ==
  LET c == req[k].chat
  IN  IF req[k].byPeer /\ (req[k].all \/ (req[k].start = 0 /\ req[k].ids = {})) /\ In(c) # {}
      THEN {[chat |-> c, lid |-> MaxLid(In(c))]} ELSE {}

Requested(k) ==
  LET n == req[k].start
      started == IF n = 0 THEN {}
                 ELSE IF req[k].byPeer THEN StartTask(req[k].chat, n)
                 ELSE {[chat |-> rows[i].chat, lid |-> rows[i].lid] : i \in DOMAIN rows \cap {n}}
  IN  started \cup IdTasks(k) \cup AllTasks(k)

\* What start_message_id is taken for when the query for it, and maybe the one
\* for an older message, fails
Mistaken(k) ==
  LET n == req[k].start
      c == req[k].chat
  IN  IF n = 0 \/ ~req[k].byPeer THEN {}
      ELSE Guess(c, n) \cup {[chat |-> c, lid |-> m] : m \in {last[c]} \cap 1 .. n - 1}

\* One task for each chat, the largest
Largest(T) == {t \in T : \A s \in T : s.chat = t.chat => s.lid <= t.lid}

\* A query that fails is one that finds nothing.
Resolve(k) ==
  /\ Is(k, "mark")
  /\ \E T \in SUBSET (Requested(k) \cup Mistaken(k)) :
       /\ (T = Requested(k) /\ Calm) \/ Fault
       /\ Goto(k, IF T = {} THEN "done" ELSE "marking")
       /\ tasks' = [tasks EXCEPT ![k] = Largest(T)] /\ todo' = [todo EXCEPT ![k] = Largest(T)]
  /\ UNCHANGED <<store, req, at, snap, events>>

\* MarkAsRead reads last_message_id, for one task after the other; when that
\* fails, it caps nothing.
ReadLast(k) ==
  /\ pc[k] = "marking"
  /\ \E t \in todo[k] :
       /\ todo' = [todo EXCEPT ![k] = @ \ {t}] /\ at' = [at EXCEPT ![k] = t]
       /\ \/ snap' = [snap EXCEPT ![k] = last[t.chat]] /\ Calm
          \/ snap' = [snap EXCEPT ![k] = 0] /\ Fault
  /\ Goto(k, "capped") /\ UNCHANGED <<store, req, tasks, events>>

Capped(k) == IF snap[k] > 0 /\ at[k].lid > snap[k] THEN snap[k] ELSE at[k].lid

\* When every task is written, the goroutine takes them.
Marked(k) ==
  /\ Goto(k, IF todo[k] = {} THEN "done" ELSE "marking")
  /\ jobs' = IF todo[k] = {} THEN jobs \cup {[by |-> k, todo |-> << >>, count |-> None, marks |-> tasks[k]]}
             ELSE jobs

\* Mutant of MarkAsRead: the UPDATE has no condition.
MarkAsReadAlways(k) ==
  /\ pc[k] = "capped"
  /\ read' = [read EXCEPT ![at[k].chat][req[k].by] = Capped(k)]
  /\ Calm /\ Marked(k)
  /\ UNCHANGED <<rows, last, before, req, tasks, todo, at, snap, due, counter, receipts, crossed, unaware>>

\* Mutant of MarkAsRead: the condition is the wrong way round.
MarkAsReadDown(k) ==
  /\ pc[k] = "capped"
  /\ read' = [read EXCEPT ![at[k].chat][req[k].by] = IF @ > Capped(k) THEN Capped(k) ELSE @]
  /\ Calm /\ Marked(k)
  /\ UNCHANGED <<rows, last, before, req, tasks, todo, at, snap, due, counter, receipts, crossed, unaware>>

\* Its UPDATE, which only moves the mark forward; an error is dropped.
MarkAsRead(k) ==
  /\ pc[k] = "capped"
  /\ \/ read' = [read EXCEPT ![at[k].chat][req[k].by] = IF @ < Capped(k) THEN Capped(k) ELSE @] /\ Calm
     \/ UNCHANGED read /\ Fault
  /\ Marked(k)
  /\ UNCHANGED <<rows, last, before, req, tasks, todo, at, snap, due, counter, receipts, crossed, unaware>>

-----------------------------------------------------------------------------
(* messages.deleteConversation: BackgroundDeleteChat                       *)

\* The highest local id, or 0 when the query fails: its error is dropped.
ForgetRead(k) ==
  /\ Is(k, "forget") /\ Goto(k, "forgetting")
  /\ \/ snap' = [snap EXCEPT ![k] = MaxLid(In(req[k].chat))] /\ Calm
     \/ snap' = [snap EXCEPT ![k] = 0] /\ Fault
  /\ UNCHANGED <<store, req, tasks, todo, at, events>>

\* Both columns get what was read, whatever they say by now.  A failing UPDATE
\* ends it; a failing COMMIT, whether it takes effect or not, does not keep it
\* from counting.
Forget(k) ==
  LET u == req[k].by
      c == req[k].chat
  IN  /\ pc[k] = "forgetting" /\ Goto(k, "done")
      /\ \/ /\ read' = [read EXCEPT ![c][u] = snap[k]] /\ before' = [before EXCEPT ![c][u] = snap[k]]
            /\ jobs' = jobs \cup Counts(k, <<u>>) /\ Calm
         \/ UNCHANGED <<read, before>> /\ jobs' = jobs \cup Counts(k, <<u>>) /\ Fault
         \/ UNCHANGED <<read, before, jobs>> /\ Fault
      /\ UNCHANGED <<rows, last, req, tasks, todo, at, snap, due, counter, receipts, crossed, unaware>>

-----------------------------------------------------------------------------
(* The goroutines.                                                         *)

Without(j) == jobs \ {j}
Instead(j, next) == Without(j) \cup {next}

\* BroadcastCounterUpdate, its query
Count(j) ==
  LET u == Head(j.todo)
  IN  /\ j.todo # << >> /\ j.count = None
      /\ jobs' = Instead(j, [j EXCEPT !.count = CountUnreadConversations(u)])
      /\ crossed' = IF \E o \in jobs : o.todo # << >> /\ Head(o.todo) = u /\ o.count # None
                    THEN crossed \cup {u} ELSE crossed
      /\ unaware' = unaware \ {u}
      /\ Calm /\ UNCHANGED <<store, calls, due, counter, receipts>>

\* Mutant of Push: the counter never falls.
PushRise(j) ==
  /\ j.todo # << >> /\ j.count # None
  /\ counter' = [counter EXCEPT ![Head(j.todo)] = IF @ < j.count THEN j.count ELSE @]
  /\ jobs' = Without(j) \cup
       (IF Len(j.todo) = 1 /\ j.marks = {} THEN {}
        ELSE {[j EXCEPT !.todo = Tail(@), !.count = None]})
  /\ Calm /\ UNCHANGED <<store, calls, due, receipts, crossed, unaware>>

\* Its push; a failure of either is skipped.
Push(j) ==
  /\ j.todo # << >> /\ j.count # None
  /\ \/ counter' = [counter EXCEPT ![Head(j.todo)] = j.count] /\ Calm
     \/ UNCHANGED counter /\ Fault
  /\ jobs' = Without(j) \cup
       (IF Len(j.todo) = 1 /\ j.marks = {} THEN {}
        ELSE {[j EXCEPT !.todo = Tail(@), !.count = None]})
  /\ UNCHANGED <<store, calls, due, receipts, crossed, unaware>>

\* Who is told how far the reader has come: nobody in a dialogue with a community
Told(c, u) == IF Kind[c] = "g" THEN {} ELSE Members[c] \ {u}

\* BroadcastMarkAsRead: the last message of others up to the mark; the reader's
\* own events, of which only the counter is kept here; the receipts' goroutine,
\* if there is such a message (it may begin a little earlier here) and the
\* query finds it.
BroadcastMarkAsRead(j) ==
  \E t \in j.marks :
    LET u == req[j.by].by
        found == MaxLid({r \in In(t.chat) : r.from # u /\ r.lid <= t.lid})
    IN \E effective \in {found, 0} :
        /\ j.todo = << >>
        /\ (effective = found /\ Calm) \/ (effective = 0 /\ Fault)
        /\ jobs' = Instead(j, [j EXCEPT !.todo = <<u>>, !.marks = @ \ {t}])
        /\ due' = due \cup
             {[chat |-> t.chat, reader |-> u, lid |-> effective, to |-> m] :
                m \in IF effective = 0 THEN {} ELSE Told(t.chat, u)}
        /\ UNCHANGED <<store, calls, counter, receipts, crossed, unaware>>

\* read_outcome_before, within five seconds
PushReceipt(d) ==
  /\ d \in due /\ due' = due \ {d}
  /\ \/ receipts' = receipts \cup {d} /\ Calm
     \/ UNCHANGED receipts /\ Fault
  /\ UNCHANGED <<store, calls, jobs, counter, crossed, unaware>>

\* The process dies, with the call and its goroutines.
Crash(k) ==
  /\ pc[k] # "start" /\ (pc[k] # "done" \/ \E j \in jobs : j.by = k)
  /\ Goto(k, "done") /\ jobs' = {j \in jobs : j.by # k} /\ Fault
  /\ UNCHANGED <<store, req, tasks, todo, at, snap, due, counter, receipts, crossed, unaware>>

Next ==
  \/ \E k \in Call : \/ Send(k) \/ Delete(k) \/ Restore(k)
                     \/ Resolve(k) \/ ReadLast(k) \/ MarkAsRead(k)
                     \/ ForgetRead(k) \/ Forget(k) \/ Crash(k)
  \/ \E j \in jobs : Count(j) \/ Push(j) \/ BroadcastMarkAsRead(j)
  \/ \E d \in due : PushReceipt(d)

Spec == Init /\ [][Next]_vars

-----------------------------------------------------------------------------
(* Properties.                                                             *)

\* No message is born read: when it is committed, it lies beyond the mark of
\* everybody but its author.  Marks come from what clients name, from the
\* highest local id and from a last_message_id that deletions lower.
BornUnread ==
  [][\A i \in DOMAIN rows' \ DOMAIN rows :
       \A u \in Members[rows'[i].chat] \ {rows'[i].from} :
         /\ read'[rows'[i].chat][u] < rows'[i].lid
         /\ before'[rows'[i].chat][u] < rows'[i].lid]_vars

\* What has been read stays read: a mark goes back only by a deletion of the
\* conversation that has looked for the highest local id before a newer
\* message was sent and read, or has not been told it.
ReadStaysRead ==
  [][\A c \in Chat, u \in User :
       read'[c][u] < read[c][u]
         => \E k \in Call : /\ pc[k] = "forgetting" /\ pc'[k] = "done"
                            /\ req[k].by = u /\ req[k].chat = c
                            /\ snap[k] < MaxLid(In(c))]_vars

\* The reader has deleted the conversation, maybe when it was still empty.
Forgotten(c, u) ==
  \E k \in Call : /\ pc[k] = "done" /\ req[k].kind = "forget"
                  /\ req[k].by = u /\ req[k].chat = c

\* A receipt tells the truth: the reader's mark covers the message it names,
\* unless that message was deleted at some time (the mark is capped, the receipt
\* is not), or the reader has deleted the conversation.
ReceiptsAreTrue ==
  faults = 0 =>
    \A d \in receipts \cup due :
      \/ read[d.chat][d.reader] >= d.lid
      \/ Forgotten(d.chat, d.reader)
      \/ \E r \in In(d.chat) : r.lid = d.lid /\ r.withdrawn

\* When everything has come to rest, the last counter that a user was sent is
\* the number of conversations he has not read.  Only goroutines that hold a
\* count for the same user at once can leave him with an older one, and only
\* a restored message goes untold.
CounterSettles ==
  faults = 0 /\ jobs = {} /\ (\A k \in Call : pc[k] \in {"start", "done"}) =>
    \A u \in User \ (crossed \cup unaware) : counter[u] = CountUnreadConversations(u)
=============================================================================
