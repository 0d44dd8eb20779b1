------------------------------ MODULE LongPoll ------------------------------
(***************************************************************************)
(* The long-poll delivery path of OpenVK-IM for ONE subject (a user or a   *)
(* group): endpoint handlers append events to the subject's Redis sorted   *)
(* set under a counter value (PushEvent), wake the requests parked in this *)
(* process (Broadcaster.Notify) or in every process (PUBLISH lp_updates),  *)
(* and clients collect the events with GET /nim (LongPollHandler).  Every  *)
(* key and every subscriber list of the code is per subject, so subjects   *)
(* do not interact and one is enough.                                      *)
(*                                                                         *)
(* A call is one running endpoint handler, reduced to its emission         *)
(* program: the pushes, notifications and publications it makes for this   *)
(* subject, in the order of the code (module Emissions is the catalogue).  *)
(* A connection is a client with at most one outstanding request.  Each    *)
(* Redis command is one step; the pipeline of PushEvent is one step too.   *)
(***************************************************************************)
EXTENDS Integers, Sequences, FiniteSets

CONSTANTS
  Conn,         \* clients of the subject
  Call,         \* endpoint calls that emit events to the subject
  Instance,     \* server processes, each with its own Broadcaster
  Home,         \* the process that serves a connection or runs a call
  Event,        \* payloads: a payload is the member of the sorted set
  Registered,   \* those whose type GetUpdates can decode (eventRegistry)
  Programs,     \* the emission programs each call may turn out to have
  HistoryCap,   \* members kept by ZREMRANGEBYRANK (200 in the code)
  MaxFaults,    \* bound: failed Redis commands and aborted requests
  MaxCrashes,   \* bound: process crashes
  MaxExpiries   \* bound: expirations of Redis keys

OpKind == {"push", "notify", "publish"}

ASSUME LongPollAssumption ==
  /\ Conn \cap Call = {}
  /\ Home \in [Conn \cup Call -> Instance]
  /\ Registered \subseteq Event
  /\ \A k \in Call : \A p \in Programs[k] :
       /\ Len(p) \in Nat
       /\ \A i \in 1 .. Len(p) :
            /\ p[i].kind \in OpKind
            /\ p[i].kind = "push" => p[i].event \in Event
            /\ p[i].ifOk \in BOOLEAN
  /\ HistoryCap \in Nat \ {0}
  /\ MaxFaults \in Nat /\ MaxCrashes \in Nat /\ MaxExpiries \in Nat

Absent == -1      \* score of a payload that is not in the sorted set
NoNum == -1       \* a call that holds no counter value
NoSession == -1   \* a client that has no key and ts from getLongPollServer

VARIABLES
  ts,        \* im:lp:ts:<subject>, 0 when the key is missing
  ttl,       \* its time to live: "none", "h24" (SetUserTS), "h48" (PushEvent)
  zset,      \* im:lp:events:<subject>: payload -> score
  prog,      \* call -> its emission program
  at,        \* call -> position in its program
  num,       \* call -> value INCR returned, until the pipeline is sent
  ok,        \* call -> the last push returned no error
  pc,        \* connection -> control point of its request
  cts,       \* connection -> the ts the client will send or has sent
  second,    \* connection -> the request is in the GetUpdates after <-notify
  buf,       \* connection -> scores of the decoded events of this GetUpdates
  top,       \* connection -> highestFetchedTS
  tok,       \* connection -> its channel of capacity one is full
  pending,   \* process -> lp_updates messages it has not received yet
  known,     \* history: scores the client was given or told to refetch
  trimmed,   \* history: highest score removed from the present sorted set
  movedBack, \* history: a payload of that set was given a lower score than it had
  aging,     \* requests and calls older than the newest time to live
  faults, crashes, expiries

setVars == <<zset, trimmed, movedBack>>
redisVars == <<ts, ttl, setVars>>
callVars == <<prog, at, num, ok>>
requestVars == <<pc, second, buf, top, tok>>
clientVars == <<cts, known>>
boundVars == <<faults, crashes, expiries>>
vars == <<redisVars, callVars, requestVars, clientVars, pending, aging, boundVars>>

Point == {"idle", "server", "check", "old", "range", "ts", "set", "wait"}

RedisOK ==
  /\ ts \in Nat /\ ttl \in {"none", "h24", "h48"}
  /\ zset \in [Event -> Nat \cup {Absent}]
  /\ trimmed \in Nat /\ movedBack \in BOOLEAN
CallOK ==
  /\ \A k \in Call : prog[k] \in Programs[k]
  /\ at \in [Call -> Nat \ {0}]
  /\ num \in [Call -> Nat \cup {NoNum}]
  /\ ok \in [Call -> BOOLEAN]
RequestOK ==
  /\ pc \in [Conn -> Point]
  /\ second \in [Conn -> BOOLEAN] /\ tok \in [Conn -> BOOLEAN]
  /\ buf \in [Conn -> SUBSET Nat] /\ top \in [Conn -> Nat]
ClientOK ==
  /\ cts \in [Conn -> Nat \cup {NoSession}]
  /\ known \in [Conn -> SUBSET Nat]
BoundsOK ==
  /\ aging \subseteq Conn \cup Call
  /\ faults \in 0 .. MaxFaults + 1 /\ crashes \in 0 .. MaxCrashes
  /\ expiries \in 0 .. MaxExpiries

TypeOK ==
  /\ RedisOK /\ CallOK /\ RequestOK /\ ClientOK /\ BoundsOK
  /\ pending \in [Instance -> Nat]

Init ==
  /\ ts = 0 /\ ttl = "none" /\ zset = [e \in Event |-> Absent]
  /\ prog \in {p \in [Call -> UNION {Programs[k] : k \in Call}] :
                 \A k \in Call : p[k] \in Programs[k]}
  /\ at = [k \in Call |-> 1] /\ num = [k \in Call |-> NoNum]
  /\ ok = [k \in Call |-> FALSE]
  /\ pc = [c \in Conn |-> "idle"] /\ cts = [c \in Conn |-> NoSession]
  /\ second = [c \in Conn |-> FALSE] /\ tok = [c \in Conn |-> FALSE]
  /\ buf = [c \in Conn |-> {}] /\ top = [c \in Conn |-> 0]
  /\ pending = [i \in Instance |-> 0]
  /\ known = [c \in Conn |-> {}] /\ aging = {}
  /\ trimmed = 0 /\ movedBack = FALSE
  /\ faults = 0 /\ crashes = 0 /\ expiries = 0

-----------------------------------------------------------------------------
(* Shared vocabulary.                                                      *)

Stored == {e \in Event : zset[e] # Absent}
More(k) == at[k] <= Len(prog[k])
Cur(k) == prog[k][at[k]]
Running(k) == More(k) /\ (at[k] > 1 \/ num[k] # NoNum)
Busy == {c \in Conn : pc[c] # "idle"} \cup {k \in Call : Running(k)}

\* Mutant of Subscribed: Subscribe is called after the first GetUpdates.
SubscribedLate(c) == pc[c] = "wait" \/ second[c]

\* A request is subscribed from before its first GetUpdates to its return.
Subscribed(c) == pc[c] \notin {"idle", "server"}

\* A key expires a day or two after it was last given a time to live: every
\* request (at most 90 s) and every call older than that is over by then.
TTLKept == aging' = IF expiries < MaxExpiries THEN aging \cap Busy' ELSE {}
TTLSet(t) == /\ ttl' = IF ts' = 0 THEN "none" ELSE t
             /\ aging' = IF expiries < MaxExpiries THEN Busy' ELSE {}

Fault == faults < MaxFaults /\ faults' = faults + 1 /\ UNCHANGED <<crashes, expiries>>
FaultAfter == faults \in 1 .. MaxFaults /\ faults' = faults + 1 /\ UNCHANGED <<crashes, expiries>>
NoFault == UNCHANGED boundVars

\* Mutant of Ring: channels without a buffer.
RingUnbuffered(i) == tok' = [c \in Conn |-> tok[c] \/ (Home[c] = i /\ pc[c] = "wait")]

\* Broadcaster.Notify: a non-blocking send to every channel of the subject.
Ring(i) == tok' = [c \in Conn |-> tok[c] \/ (Home[c] = i /\ Subscribed(c))]

-----------------------------------------------------------------------------
(* PushEvent and PushEphemeralEvent, and the notifications that follow.    *)

\* INCR im:lp:ts creates the key without a time to live.
Incremented == /\ ts' = ts + 1
               /\ ttl' = IF ts = 0 THEN "none" ELSE ttl

Incr(k) ==
  /\ More(k) /\ Cur(k).kind = "push" /\ num[k] = NoNum
  /\ Incremented
  /\ num' = [num EXCEPT ![k] = ts + 1]
  /\ UNCHANGED <<setVars, prog, at, ok, requestVars, clientVars, pending>>
  /\ NoFault /\ TTLKept

\* `newTS, _ :=` drops the error of INCR, and the event is stored at score 0.
\* The server may or may not have counted.
IncrFails(k) ==
  /\ More(k) /\ Cur(k).kind = "push" /\ num[k] = NoNum
  /\ \/ Incremented
     \/ UNCHANGED <<ts, ttl>>
  /\ num' = [num EXCEPT ![k] = 0]
  /\ UNCHANGED <<setVars, prog, at, ok, requestVars, clientVars, pending>>
  /\ Fault /\ TTLKept

Lowest(z) == {e \in Event : /\ z[e] # Absent
                            /\ \A d \in Event : z[d] # Absent => z[e] <= z[d]}

\* Mutant of AddAndTrim: ZREMRANGEBYRANK counts ranks from the other end.
AddAndTrimHighest(e, s) ==
  LET added == [zset EXCEPT ![e] = s]
      members == {d \in Event : added[d] # Absent}
  IN  /\ movedBack' = (movedBack \/ s < zset[e])
      /\ IF Cardinality(members) <= HistoryCap
         THEN zset' = added /\ UNCHANGED trimmed
         ELSE \E d \in members :
                /\ \A b \in members : added[b] <= added[d]
                /\ zset' = [added EXCEPT ![d] = Absent]
                /\ trimmed' = IF added[d] > trimmed THEN added[d] ELSE trimmed

\* Mutant of AddAndTrim: the score is the counter as it is by now.
AddAndTrimAtCounter(e, s) ==
  LET added == [zset EXCEPT ![e] = ts]
  IN  /\ movedBack' = (movedBack \/ s < zset[e])
      /\ IF Cardinality({d \in Event : added[d] # Absent}) <= HistoryCap
         THEN zset' = added /\ UNCHANGED trimmed
         ELSE \E d \in Lowest(added) :
                /\ zset' = [added EXCEPT ![d] = Absent]
                /\ trimmed' = IF added[d] > trimmed THEN added[d] ELSE trimmed

\* ZADD (a payload already present only changes its score), then
\* ZREMRANGEBYRANK 0 -(HistoryCap+1); equal scores rank by payload, here in
\* any order.  The set grows by one member at a time.
AddAndTrim(e, s) ==
  LET added == [zset EXCEPT ![e] = s]
  IN  /\ movedBack' = (movedBack \/ s < zset[e])
      /\ IF Cardinality({d \in Event : added[d] # Absent}) <= HistoryCap
         THEN zset' = added /\ UNCHANGED trimmed
         ELSE \E d \in Lowest(added) :
                /\ zset' = [added EXCEPT ![d] = Absent]
                /\ trimmed' = IF added[d] > trimmed THEN added[d] ELSE trimmed

Pushed(k, success) ==
  /\ at' = [at EXCEPT ![k] = @ + 1]
  /\ num' = [num EXCEPT ![k] = NoNum]
  /\ ok' = [ok EXCEPT ![k] = success]
  /\ UNCHANGED prog

\* The pipeline ZADD, ZREMRANGEBYRANK, EXPIRE events 48h, EXPIRE ts 48h.
StoreEvent(k) ==
  /\ More(k) /\ Cur(k).kind = "push" /\ num[k] # NoNum
  /\ AddAndTrim(Cur(k).event, num[k])
  /\ Pushed(k, TRUE)
  /\ UNCHANGED <<ts, requestVars, clientVars, pending>>
  /\ NoFault /\ TTLSet("h48")

\* pipe.Exec returns an error: the commands were lost, or only the answer.
StoreFails(k) ==
  /\ More(k) /\ Cur(k).kind = "push" /\ num[k] # NoNum
  /\ Pushed(k, FALSE)
  /\ UNCHANGED <<ts, requestVars, clientVars, pending>>
  /\ Fault
  /\ \/ AddAndTrim(Cur(k).event, num[k]) /\ TTLSet("h48")
     \/ UNCHANGED <<setVars, ttl>> /\ TTLKept

\* Some handlers notify only `if err == nil` of the push before.
Allowed(k) == Cur(k).ifOk => ok[k]
Skip(k) == at' = [at EXCEPT ![k] = @ + 1] /\ UNCHANGED <<prog, num, ok>>

Notify(k) ==
  /\ More(k) /\ Cur(k).kind = "notify"
  /\ IF Allowed(k) THEN Ring(Home[k]) ELSE UNCHANGED tok
  /\ Skip(k)
  /\ UNCHANGED <<redisVars, clientVars, pc, second, buf, top, pending>>
  /\ NoFault /\ TTLKept

\* Mutant of Publish: the message reaches the publisher's own process only.
PublishLocally(k) ==
  /\ More(k) /\ Cur(k).kind = "publish"
  /\ pending' = IF Allowed(k) THEN [pending EXCEPT ![Home[k]] = @ + 1] ELSE pending
  /\ Skip(k)
  /\ UNCHANGED <<redisVars, requestVars, clientVars>>
  /\ NoFault /\ TTLKept

\* redis.Client.Publish(ctx, "lp_updates", subject); every process listens.
Publish(k) ==
  /\ More(k) /\ Cur(k).kind = "publish"
  /\ pending' = IF Allowed(k) THEN [i \in Instance |-> pending[i] + 1] ELSE pending
  /\ Skip(k)
  /\ UNCHANGED <<redisVars, requestVars, clientVars>>
  /\ NoFault /\ TTLKept

\* Pub/Sub is fire and forget: a publication fails, or a process that is
\* reconnecting its subscription misses the message.
PublishLost(k) ==
  /\ More(k) /\ Cur(k).kind = "publish" /\ Allowed(k)
  /\ \E lucky \in SUBSET Instance :
       /\ lucky # Instance
       /\ pending' = [i \in Instance |-> IF i \in lucky THEN pending[i] + 1 ELSE pending[i]]
  /\ Skip(k)
  /\ UNCHANGED <<redisVars, requestVars, clientVars>>
  /\ Fault /\ TTLKept

\* Mutant of PubSubDeliver: a closed channel is read for ever.
DeliverAlways(i) ==
  /\ pending' = [pending EXCEPT ![i] = @ - 1]
  /\ Ring(i)
  /\ UNCHANGED <<redisVars, callVars, clientVars, pc, second, buf, top>>
  /\ NoFault /\ TTLKept

\* The goroutine of startServer that ranges over pubsub.Channel().
PubSubDeliver(i) ==
  /\ pending[i] > 0
  /\ pending' = [pending EXCEPT ![i] = @ - 1]
  /\ Ring(i)
  /\ UNCHANGED <<redisVars, callVars, clientVars, pc, second, buf, top>>
  /\ NoFault /\ TTLKept

-----------------------------------------------------------------------------
(* messages.getLongPollServer: the client takes the subject's current ts,  *)
(* and everything up to it is history it can read elsewhere.               *)

Move(c, p) == pc' = [pc EXCEPT ![c] = p]

\* The request returns; its deferred Unsubscribe drops the channel.
Leave(c) ==
  /\ Move(c, "idle")
  /\ second' = [second EXCEPT ![c] = FALSE]
  /\ buf' = [buf EXCEPT ![c] = {}]
  /\ top' = [top EXCEPT ![c] = 0]
  /\ tok' = [tok EXCEPT ![c] = FALSE]

\* The client continues from t and knows, or knows it must refetch, S.
Continue(c, t, S) ==
  /\ cts' = [cts EXCEPT ![c] = t]
  /\ known' = [known EXCEPT ![c] = @ \cup S]

GetLongPollServer(c) ==
  /\ pc[c] = "idle" /\ cts[c] = NoSession
  /\ IF ts = 0
     THEN Move(c, "server") /\ UNCHANGED clientVars
     ELSE Continue(c, ts, 0 .. ts) /\ UNCHANGED pc
  /\ UNCHANGED <<redisVars, callVars, second, buf, top, tok, pending>>
  /\ NoFault /\ TTLKept

\* `ts, _ :=` takes a counter that could not be read for one that is missing.
GetLongPollServerFails(c) ==
  /\ pc[c] = "idle" /\ cts[c] = NoSession
  /\ Move(c, "server")
  /\ UNCHANGED <<redisVars, callVars, clientVars, second, buf, top, tok, pending>>
  /\ Fault /\ TTLKept

InitializeTS(c) ==
  /\ pc[c] = "server"
  /\ Incremented
  /\ Move(c, "idle") /\ Continue(c, ts + 1, 0 .. ts + 1)
  /\ UNCHANGED <<setVars, callVars, second, buf, top, tok, pending>>
  /\ NoFault /\ TTLKept

\* `incrErr != nil`: the client is sent away with ts 0.  The server may or may
\* not have counted.
InitializeTSFails(c) ==
  /\ pc[c] = "server"
  /\ \/ Incremented
     \/ UNCHANGED <<ts, ttl>>
  /\ Move(c, "idle") /\ Continue(c, 0, {0})
  /\ UNCHANGED <<setVars, callVars, second, buf, top, tok, pending>>
  /\ Fault /\ TTLKept

-----------------------------------------------------------------------------
(* LongPollHandler.                                                        *)

StartPoll(c) ==
  /\ pc[c] = "idle" /\ cts[c] # NoSession
  /\ Move(c, "check")
  /\ UNCHANGED <<redisVars, callVars, clientVars, second, buf, top, tok, pending>>
  /\ NoFault /\ TTLKept

\* GetUserIDByKey finds no key after 12 hours: {failed: 2}, and the client
\* asks getLongPollServer again.
PollRejected(c) ==
  /\ pc[c] = "idle" /\ cts[c] # NoSession
  /\ expiries < MaxExpiries /\ expiries' = expiries + 1
  /\ UNCHANGED <<faults, crashes>>
  /\ cts' = [cts EXCEPT ![c] = NoSession] /\ UNCHANGED known
  /\ UNCHANGED <<redisVars, callVars, requestVars, pending, aging>>

\* ... or cannot read it.
PollRejectedUnread(c) ==
  /\ pc[c] = "idle" /\ cts[c] # NoSession
  /\ cts' = [cts EXCEPT ![c] = NoSession] /\ UNCHANGED known
  /\ UNCHANGED <<redisVars, callVars, requestVars, pending>>
  /\ Fault /\ TTLKept

\* GetUpdates, `float64(lastTS) < first[0].Score-1`.
TooOld(c) == Stored # {} /\ \A e \in Stored : cts[c] < zset[e] - 1

Check(c) ==
  /\ pc[c] = "check"
  /\ Move(c, IF TooOld(c) THEN "old" ELSE "range")
  /\ UNCHANGED <<redisVars, callVars, clientVars, second, buf, top, tok, pending>>
  /\ NoFault /\ TTLKept

\* A failed ZRANGE 0 0 skips the check.
CheckFails(c) ==
  /\ pc[c] = "check"
  /\ Move(c, "range")
  /\ UNCHANGED <<redisVars, callVars, clientVars, second, buf, top, tok, pending>>
  /\ Fault /\ TTLKept

\* ErrTsTooOld with the current ts v: the first GetUpdates answers {failed: 1},
\* which tells the client to refetch; the one after <-notify drops the error
\* and answers an empty list with the same ts.
RefuseOldAt(c, v) ==
  /\ pc[c] = "old"
  /\ Continue(c, v, IF second[c] THEN {} ELSE 0 .. v)
  /\ Leave(c)
  /\ UNCHANGED <<redisVars, callVars, pending>>

RefuseOld(c) == RefuseOldAt(c, ts) /\ NoFault /\ TTLKept
\* `currentTS, _ :=`: the client is sent back to 0.
RefuseOldFails(c) == RefuseOldAt(c, 0) /\ Fault /\ TTLKept

\* Mutant of Fresh: the lower end of the range is inclusive.
FreshInclusive(c) == {e \in Registered : zset[e] # Absent /\ zset[e] >= cts[c]}

\* The decodable events of ZRANGEBYSCORE (lastTS +inf.
Fresh(c) == {e \in Registered : zset[e] # Absent /\ zset[e] > cts[c]}

ReadRange(c) ==
  /\ pc[c] = "range"
  /\ buf' = [buf EXCEPT ![c] = {zset[e] : e \in Fresh(c)}]
  /\ \E h \in buf'[c] \cup {0} :
       /\ \A s \in buf'[c] : s <= h
       /\ top' = [top EXCEPT ![c] = h]
  /\ Move(c, "ts")
  /\ UNCHANGED <<redisVars, callVars, clientVars, second, tok, pending>>
  /\ NoFault /\ TTLKept

\* `return nil, lastTS, err`: the first GetUpdates goes on to wait, the
\* second answers an empty list with the client's own ts.
ReadRangeFails(c) ==
  /\ pc[c] = "range"
  /\ IF second[c] THEN Leave(c)
     ELSE Move(c, "wait") /\ UNCHANGED <<second, buf, top, tok>>
  /\ UNCHANGED <<redisVars, callVars, clientVars, pending>>
  /\ Fault /\ TTLKept

\* What the handler does with the result of GetUpdates.
Return(c, newTS) ==
  IF ~second[c] /\ buf[c] = {}
  THEN Move(c, "wait") /\ UNCHANGED <<second, buf, top, tok, clientVars>>
  ELSE Leave(c) /\ Continue(c, newTS, buf[c])

Larger(a, b) == IF a > b THEN a ELSE b

\* newTS, _ := GetUserTS, where newTS = v; an older counter is overwritten.
ReadTS(c, v) ==
  /\ pc[c] = "ts"
  /\ IF top[c] > v
     THEN Move(c, "set") /\ UNCHANGED <<second, buf, top, tok, clientVars>>
     ELSE Return(c, Larger(v, cts[c]))
  /\ UNCHANGED <<redisVars, callVars, pending>>

GetTS(c) == ReadTS(c, ts) /\ NoFault /\ TTLKept
GetTSFails(c) == ReadTS(c, 0) /\ Fault /\ TTLKept

\* SetUserTS: SET im:lp:ts newTS EX 24h.
SetTS(c) ==
  /\ pc[c] = "set"
  /\ ts' = top[c]
  /\ Return(c, Larger(top[c], cts[c]))
  /\ UNCHANGED <<setVars, callVars, pending>>
  /\ NoFault /\ TTLSet("h24")

\* A request gets here only after a failure; its own may be one above the bound.
SetTSFails(c) ==
  /\ pc[c] = "set"
  /\ Return(c, Larger(top[c], cts[c]))
  /\ UNCHANGED <<setVars, callVars, pending>>
  /\ FaultAfter
  /\ \/ ts' = top[c] /\ TTLSet("h24")
     \/ UNCHANGED <<ts, ttl>> /\ TTLKept

\* select: case <-notify.
Wake(c) ==
  /\ pc[c] = "wait" /\ tok[c]
  /\ Move(c, "check")
  /\ second' = [second EXCEPT ![c] = TRUE]
  /\ tok' = [tok EXCEPT ![c] = FALSE]
  /\ UNCHANGED <<redisVars, callVars, clientVars, buf, top, pending>>
  /\ NoFault /\ TTLKept

\* Mutant of TimeoutReading: the answer repeats the client's own ts.
TimeoutKeeping(c, v) ==
  /\ pc[c] = "wait"
  /\ Leave(c)
  /\ UNCHANGED <<redisVars, callVars, clientVars, pending>>

\* select: case <-time.After(wait).  A full channel does not prevent it.
TimeoutReading(c, v) ==
  /\ pc[c] = "wait"
  /\ Continue(c, IF v = 0 THEN cts[c] ELSE v, {})
  /\ Leave(c)
  /\ UNCHANGED <<redisVars, callVars, pending>>

Timeout(c) == TimeoutReading(c, ts) /\ NoFault /\ TTLKept
TimeoutFails(c) == TimeoutReading(c, 0) /\ Fault /\ TTLKept

\* The client goes away, or the answer is lost: the context is cancelled and
\* the client asks again from the ts it has.
Cancel(c) ==
  /\ pc[c] # "idle"
  /\ Leave(c)
  /\ UNCHANGED <<redisVars, callVars, clientVars, pending>>
  /\ Fault /\ TTLKept

-----------------------------------------------------------------------------
(* The environment.                                                        *)

\* A process dies: its requests and calls end where they are, and so does
\* its subscription; another one takes its place.
Crash(i) ==
  /\ crashes < MaxCrashes /\ crashes' = crashes + 1
  /\ UNCHANGED <<faults, expiries>>
  /\ LET gone == {c \in Conn : Home[c] = i}
         over == {k \in Call : Home[k] = i /\ Running(k)}
     IN  /\ pc' = [c \in Conn |-> IF c \in gone THEN "idle" ELSE pc[c]]
         /\ second' = [c \in Conn |-> second[c] /\ c \notin gone]
         /\ tok' = [c \in Conn |-> tok[c] /\ c \notin gone]
         /\ buf' = [c \in Conn |-> IF c \in gone THEN {} ELSE buf[c]]
         /\ top' = [c \in Conn |-> IF c \in gone THEN 0 ELSE top[c]]
         /\ at' = [k \in Call |-> IF k \in over THEN Len(prog[k]) + 1 ELSE at[k]]
         /\ num' = [k \in Call |-> IF k \in over THEN NoNum ELSE num[k]]
         /\ pending' = [pending EXCEPT ![i] = 0]
  /\ UNCHANGED <<redisVars, prog, ok, clientVars>>
  /\ TTLKept

Expiry == /\ expiries < MaxExpiries /\ expiries' = expiries + 1
          /\ UNCHANGED <<faults, crashes>>
          /\ aging = {} /\ aging' = {}

\* Nobody pushed for 48 hours.
ExpireEvents ==
  /\ Stored # {} /\ ttl # "none"
  /\ zset' = [e \in Event |-> Absent] /\ trimmed' = 0 /\ movedBack' = FALSE
  /\ Expiry
  /\ UNCHANGED <<ts, ttl, callVars, requestVars, clientVars, pending>>

\* The pipeline renews the events first, so they go first; SetUserTS cuts the
\* time of the counter alone.
ExpireTS ==
  /\ ts # 0 /\ (ttl = "h24" \/ (ttl = "h48" /\ Stored = {}))
  /\ ts' = 0 /\ ttl' = "none"
  /\ Expiry
  /\ UNCHANGED <<setVars, callVars, requestVars, clientVars, pending>>

-----------------------------------------------------------------------------
CallStep(k) == Incr(k) \/ StoreEvent(k) \/ Notify(k) \/ Publish(k)
CallFault(k) == IncrFails(k) \/ StoreFails(k) \/ PublishLost(k)

\* What the server does by itself once a request is in; its timer apart.
RequestStep(c) ==
  \/ InitializeTS(c) \/ Check(c) \/ RefuseOld(c) \/ ReadRange(c)
  \/ GetTS(c) \/ SetTS(c) \/ Wake(c)
RequestFault(c) ==
  \/ InitializeTSFails(c) \/ CheckFails(c) \/ RefuseOldFails(c) \/ ReadRangeFails(c)
  \/ GetTSFails(c) \/ SetTSFails(c) \/ TimeoutFails(c) \/ Cancel(c)

ClientStep(c) == GetLongPollServer(c) \/ StartPoll(c)
ClientFault(c) ==
  PollRejected(c) \/ PollRejectedUnread(c) \/ GetLongPollServerFails(c)

Next ==
  \/ \E k \in Call : CallStep(k) \/ CallFault(k)
  \/ \E c \in Conn : \/ ClientStep(c) \/ ClientFault(c)
                     \/ RequestStep(c) \/ Timeout(c) \/ RequestFault(c)
  \/ \E i \in Instance : PubSubDeliver(i) \/ Crash(i)
  \/ ExpireEvents \/ ExpireTS

Spec == Init /\ [][Next]_vars

\* The server's goroutines and the Redis connection make progress.
ServerFairness ==
  /\ \A k \in Call : WF_vars(CallStep(k))
  /\ \A c \in Conn : WF_vars(RequestStep(c))
  /\ \A i \in Instance : WF_vars(PubSubDeliver(i))

\* Clients come once, and no timer ever fires.
TimelessSpec == Spec /\ ServerFairness

\* Clients keep polling, and time passes for a parked request.
PollingSpec ==
  /\ Spec /\ ServerFairness
  /\ \A c \in Conn : WF_vars(ClientStep(c)) /\ WF_vars(RequestStep(c) \/ Timeout(c))

-----------------------------------------------------------------------------
(* Properties.                                                             *)

\* A notification o of call k reaches the request of c: in the same process,
\* or through the channel that every process listens to.
Reaches(k, o, c) ==
  \/ o.kind = "notify" /\ Home[k] = Home[c]
  \/ o.kind = "publish" /\ MaxCrashes = 0

\* It will be sent: it is unconditional, or depends on a push that is still
\* to come and cannot fail, or on one that has returned no error.
Fires(k, j) ==
  prog[k][j].ifOk =>
    IF \E m \in at[k] .. j - 1 : prog[k][m].kind = "push"
    THEN MaxFaults = 0 ELSE ok[k]

RingAhead(k, c) ==
  \E j \in at[k] .. Len(prog[k]) : Reaches(k, prog[k][j], c) /\ Fires(k, j)

\* Every program tells c of every push: the assumption of NoLostWakeup.
Announced ==
  \A k \in Call : \A p \in Programs[k] : \A c \in Conn : \A i \in 1 .. Len(p) :
    p[i].kind = "push" => \E j \in i + 1 .. Len(p) : Reaches(k, p[j], c)

\* No lost wake-up (Subscribe before the first GetUpdates, a channel that
\* remembers one notification, push before notify): whenever a request is
\* parked on an empty channel although an event it could deliver is in the
\* set, the call that pushed it has a notification for it still to send, or a
\* published one is still on its way.
NoLostWakeup ==
  \A c \in Conn :
    pc[c] = "wait" /\ ~tok[c] /\ Fresh(c) # {}
      => \/ \E k \in Call : RingAhead(k, c)
         \/ pending[Home[c]] > 0

\* The cut-off of the history is visible: everything ZREMRANGEBYRANK removed
\* was numbered below everything that is left, so that the comparison with
\* the first score (GetUpdates) finds every client that missed a removal.  A
\* payload that two calls push can break it: the slower call brings the member
\* back to its lower number, and the first score lies below what was removed.
RemovedIsOlder ==
  trimmed > 0 => /\ Cardinality(Stored) = HistoryCap
                 /\ ~movedBack => \A e \in Stored : zset[e] > trimmed

\* The number of an event is its own: two events of the set never carry the
\* same counter value (0 is what a failed INCR leaves behind).  ZADD scores,
\* the client's ts and the cut-off all rely on it.
NumbersUnique ==
  \A d, e \in Stored : d # e /\ zset[d] > 0 => zset[d] # zset[e]

\* An acknowledged event was received: the ts a client holds covers no
\* decodable event of the history that it was neither given nor told, by
\* {failed: 1} or a new session, to refetch.
AckedMeansReceived ==
  \A c \in Conn : \A e \in Registered :
    zset[e] \in 1 .. cts[c] => zset[e] \in known[c]

\* The long poll is an event feed: numbers only grow, a client's ts follows
\* them forward, and no event is handed out twice or after a later ts.  It
\* takes a Redis that neither fails nor forgets.
Feed == INSTANCE EventFeed WITH Client <- Conn, head <- ts, cursor <- cts, told <- known
FeedSpec == Feed!Spec

\* Wake-ups need no timer: a parked request with something to deliver returns
\* to GetUpdates, or ends, though its timeout never fires.
PushWakes ==
  \A c \in Conn : (pc[c] = "wait" /\ Fresh(c) # {}) ~> pc[c] # "wait"

\* Clients catch up: once the calls are over, every client that keeps polling
\* ends at the ts of the server, also when the counter expired and restarted
\* below the client's ts.
CatchUp ==
  \A c \in Conn : <>[](ts # 0 => cts[c] = ts)

=============================================================================
