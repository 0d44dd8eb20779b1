------------------------------- MODULE Online -------------------------------
(***************************************************************************)
(* Who is online: the sorted set im:online_users of the times of last      *)
(* activity, the calls that renew or clear an entry, the tracker of each   *)
(* process that removes what has expired, and what the others are told.    *)
(*                                                                         *)
(* Every Redis command is a step.  The time a call or a tracker works with *)
(* is the one at its first step.  The recipients of a user's events are    *)
(* fixed: the active members of every conversation he has been in.         *)
(***************************************************************************)
EXTENDS Integers

CONSTANTS
  User,
  Recipients,    \* user -> GetOnlineRecipients
  Process,       \* processes, each with a tracker
  Call,          \* calls of im.setOnline, im.touchUserOnline, im.setOffline and
                 \* of the handlers that begin with TouchUserActivity
  Scenarios,     \* the requests the calls may have: functions from Call
  Ttl,           \* 300 seconds, after which silence means offline
  MaxTime,       \* bound: the clock
  MaxFaults      \* bound: failures and crashes

Request == [kind : {"touch", "force", "off"}, user : User]

ASSUME OnlineAssumption ==
  /\ Recipients \in [User -> SUBSET User]
  /\ Call \cap Process = {}
  /\ Scenarios \subseteq [Call -> Request]
  /\ Ttl \in Nat /\ MaxTime \in Nat /\ MaxFaults \in Nat

VARIABLES
  now,
  score,     \* im:online_users: user -> last activity
  req, pc,   \* call -> request, control point
  began,     \* call -> its time
  was,       \* call -> wasOnline
  items,     \* tracker -> what it has read and not yet dealt with
  jobs,      \* emissions in progress, each by a call's goroutine or a tracker
  told,      \* user -> the last event about each user that he was sent
  faults,
  crossed,   \* history: users about whom opposite emissions were in progress at
             \* once, or whose entry was removed under a call that had seen it
  awaiting   \* history: <<user, recipient>> not told offline since the last ZADD

calls == <<req, pc, began, was>>
vars == <<now, score, calls, items, jobs, told, faults, crossed, awaiting>>

Gone == -1
Item == [user : User, score : Nat]
Job == [by : Call \cup Process, user : User, kind : {"online", "offline"}, todo : SUBSET User]

TypeOK ==
  /\ now \in 0 .. MaxTime
  /\ score \in [User -> Nat \cup {Gone}]
  /\ req \in [Call -> Request] /\ pc \in [Call -> {"start", "add", "done"}]
  /\ began \in [Call -> Nat] /\ was \in [Call -> BOOLEAN]
  /\ items \in [Process -> SUBSET Item]
  /\ jobs \subseteq Job
  /\ told \in [User -> [User -> {"online", "offline"}]]
  /\ faults \in 0 .. MaxFaults
  /\ crossed \subseteq User /\ awaiting \subseteq User \X User

Init ==
  /\ now = 0 /\ score = [u \in User |-> Gone]
  /\ req \in Scenarios /\ pc = [k \in Call |-> "start"]
  /\ began = [k \in Call |-> 0] /\ was = [k \in Call |-> FALSE]
  /\ items = [p \in Process |-> {}] /\ jobs = {} /\ told = [w \in User |-> [u \in User |-> "offline"]]
  /\ faults = 0 /\ crossed = {} /\ awaiting = {}

-----------------------------------------------------------------------------
Fault == faults < MaxFaults /\ faults' = faults + 1
Calm == UNCHANGED faults

\* An emission begins: EmitUserOnline or EmitUserOffline, up to its query.
Emit(who, u, kind) ==
  /\ jobs' = jobs \cup ({[by |-> who, user |-> u, kind |-> kind, todo |-> Recipients[u]]}
                          \ [by : {who}, user : {u}, kind : {kind}, todo : {{}}])
  /\ crossed' = IF \E j \in jobs : j.user = u /\ j.kind # kind THEN crossed \cup {u} ELSE crossed

\* ZSCORE and wasOnline; a failure reads as offline.
ReadScore(k) ==
  LET u == req[k].user
  IN  /\ pc[k] = "start" /\ req[k].kind # "off"
      /\ now + Ttl <= MaxTime
      /\ pc' = [pc EXCEPT ![k] = "add"] /\ began' = [began EXCEPT ![k] = now]
      /\ \/ was' = [was EXCEPT ![k] = score[u] # Gone /\ now - score[u] <= Ttl] /\ Calm
         \/ was' = [was EXCEPT ![k] = FALSE] /\ Fault
      /\ UNCHANGED <<now, score, req, items, jobs, told, crossed, awaiting>>

\* ZADD, whose error is dropped; then the goroutine, if there is news or
\* im.setOnline was called with force.
Touch(k) ==
  LET u == req[k].user
  IN  /\ pc[k] = "add" /\ pc' = [pc EXCEPT ![k] = "done"]
      /\ \/ /\ score' = [score EXCEPT ![u] = began[k]] /\ Calm
            /\ awaiting' = awaiting \cup {<<u, w>> : w \in Recipients[u]}
         \/ UNCHANGED <<score, awaiting>> /\ Fault
      /\ IF was[k] /\ req[k].kind # "force"
         THEN /\ UNCHANGED jobs
              /\ crossed' = IF score[u] = Gone THEN crossed \cup {u} ELSE crossed
         ELSE Emit(k, u, "online")
      /\ UNCHANGED <<now, req, began, was, items, told>>

\* Mutant of SetOffline: it leaves the telling to the tracker.
SetOfflineSilently(k) ==
  /\ pc[k] = "start" /\ req[k].kind = "off"
  /\ pc' = [pc EXCEPT ![k] = "done"]
  /\ score' = [score EXCEPT ![req[k].user] = Gone] /\ Calm
  /\ UNCHANGED <<now, req, began, was, items, jobs, told, crossed, awaiting>>

\* ZREM, and the goroutine whatever it returned.
SetOffline(k) ==
  /\ pc[k] = "start" /\ req[k].kind = "off"
  /\ pc' = [pc EXCEPT ![k] = "done"]
  /\ \/ score' = [score EXCEPT ![req[k].user] = Gone] /\ Calm
     \/ UNCHANGED score /\ Fault
  /\ Emit(k, req[k].user, "offline")
  /\ UNCHANGED <<now, req, began, was, items, told, awaiting>>

\* A recipient is told; a push that fails is skipped.
Tell(j, w) ==
  /\ w \in j.todo
  /\ jobs' = (jobs \ {j}) \cup
       (IF j.todo = {w} THEN {} ELSE {[j EXCEPT !.todo = @ \ {w}]})
  /\ \/ /\ told' = [told EXCEPT ![w][j.user] = j.kind] /\ Calm
        /\ awaiting' = IF j.kind = "offline" THEN awaiting \ {<<j.user, w>>} ELSE awaiting
     \/ UNCHANGED <<told, awaiting>> /\ Fault
  /\ UNCHANGED <<now, score, calls, items, crossed>>

-----------------------------------------------------------------------------
(* The tracker of a process.                                               *)

Emitting(p) == \E j \in jobs : j.by = p

\* Mutant of Expired: who has no entry is as old as can be.
ExpiredOrGone == {i \in [user : User, score : {score[u] : u \in User}] :
                    i.score = score[i.user] /\ i.score <= now - Ttl}

Expired == {i \in [user : User, score : {score[u] : u \in User}] :
              i.score = score[i.user] /\ i.score # Gone /\ i.score <= now - Ttl}

\* checkExpiredUsers, its ZRANGEBYSCORE, when the ticker fires.
checkExpiredUsers(p) ==
  /\ items[p] = {} /\ ~Emitting(p) /\ Expired # {}
  /\ items' = [items EXCEPT ![p] = Expired]
  /\ UNCHANGED <<now, score, calls, jobs, told, faults, crossed, awaiting>>

\* Mutant of Remove: the entry stays where it is.
RemoveNothing(p, i) ==
  /\ i \in items[p] /\ ~Emitting(p)
  /\ items' = [items EXCEPT ![p] = @ \ {i}]
  /\ Emit(p, i.user, "offline") /\ Calm
  /\ UNCHANGED <<now, score, calls, told, awaiting>>

\* ZREM of an item, whatever its score is by now, and the emission.
Remove(p, i) ==
  /\ i \in items[p] /\ ~Emitting(p)
  /\ items' = [items EXCEPT ![p] = @ \ {i}]
  /\ \/ score' = [score EXCEPT ![i.user] = Gone] /\ Calm
     \/ UNCHANGED score /\ Fault
  /\ Emit(p, i.user, "offline")
  /\ UNCHANGED <<now, calls, told, awaiting>>

\* A process dies, with its tracker and the goroutines of some calls.
Crash(p) ==
  /\ \E K \in SUBSET Call :
       /\ jobs' = {j \in jobs : j.by # p /\ j.by \notin K}
       /\ pc' = [k \in Call |-> IF k \in K /\ pc[k] = "add" THEN "done" ELSE pc[k]]
  /\ items' = [items EXCEPT ![p] = {}] /\ Fault
  /\ UNCHANGED <<now, score, req, began, was, told, crossed, awaiting>>

Tick ==
  /\ now < MaxTime /\ now' = now + 1
  /\ UNCHANGED <<score, calls, items, jobs, told, faults, crossed, awaiting>>

Next ==
  \/ Tick
  \/ \E k \in Call : ReadScore(k) \/ Touch(k) \/ SetOffline(k)
  \/ \E j \in jobs, w \in User : Tell(j, w)
  \/ \E p \in Process : checkExpiredUsers(p) \/ Crash(p) \/ \E i \in items[p] : Remove(p, i)

Spec == Init /\ [][Next]_vars

\* Time passes, a request that has come is served, emissions go on, tickers fire.
FairSpec ==
  /\ Spec
  /\ WF_vars(Tick)
  /\ WF_vars(\E k \in Call : Touch(k))
  /\ WF_vars(\E j \in jobs, w \in User : Tell(j, w))
  /\ \A p \in Process : WF_vars(checkExpiredUsers(p) \/ \E i \in items[p] : Remove(p, i))

-----------------------------------------------------------------------------
(* Properties.                                                             *)

\* Nobody is being told about the user.
Quiet(u) == \A j \in jobs : j.user # u

\* What others were last told of a user is what the sorted set says of him, as
\* soon as no emission about him is in progress.  Only two races can break
\* this: goroutines that tell the opposite at the same time (their order is
\* open), and a removal between the ZSCORE and the ZADD of one call, which
\* brings the user back unannounced.  Renewal under a tracker's ZREM, slow calls
\* with an old time, two trackers with the same items and tellings without news
\* do not.
Agreement ==
  faults = 0 =>
    \A u \in User \ crossed : Quiet(u) =>
      \A w \in Recipients[u] :
        told[w][u] = IF score[u] = Gone THEN "offline" ELSE "online"

\* Nobody is believed online for ever: whoever falls silent leaves the set,
\* whatever failed, and after his last activity everybody is told that he is
\* offline, unless a command failed or a process died.
SilenceIsNoticed ==
  <>[](/\ \A u \in User : score[u] = Gone
       /\ faults = 0 => awaiting = {})
=============================================================================
