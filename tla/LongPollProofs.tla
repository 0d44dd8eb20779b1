--------------------------- MODULE LongPollProofs ---------------------------
(***************************************************************************)
(* Theorems about LongPoll for every set of clients, calls, processes and  *)
(* programs: the types, and that no wake-up is lost.                       *)
(***************************************************************************)
EXTENDS LongPoll, FiniteSetTheorems, TLAPS

-----------------------------------------------------------------------------
(* Types.                                                                  *)

\* What an action leaves alone keeps its type.
LEMMA Frame ==
  ASSUME TypeOK
  PROVE  /\ UNCHANGED redisVars => RedisOK'
         /\ UNCHANGED callVars => CallOK'
         /\ UNCHANGED requestVars => RequestOK'
         /\ UNCHANGED clientVars => ClientOK'
         /\ UNCHANGED pending => (pending \in [Instance -> Nat])'
  BY DEF TypeOK, RedisOK, CallOK, RequestOK, ClientOK,
         redisVars, setVars, callVars, requestVars, clientVars

\* Every action accounts for the age of what is running and for the bounds.
LEMMA BoundsType ==
  ASSUME TypeOK, Fault \/ FaultAfter \/ NoFault, TTLKept \/ (\E t : TTLSet(t))
  PROVE  BoundsOK'
  BY LongPollAssumption
  DEF TypeOK, BoundsOK, Fault, FaultAfter, NoFault, boundVars, TTLKept, TTLSet, Busy

\* The pipeline of a push leaves a sorted set and a removed score.
LEMMA AddAndTrimType ==
  ASSUME NEW e \in Event, NEW s \in Nat, TypeOK, AddAndTrim(e, s)
  PROVE  zset' \in [Event -> Nat \cup {Absent}] /\ trimmed' \in Nat /\ movedBack' \in BOOLEAN
<1> DEFINE added == [zset EXCEPT ![e] = s]
<1>1. added \in [Event -> Nat \cup {Absent}]
  BY DEF TypeOK, RedisOK
<1>0. movedBack' = (movedBack \/ s < zset[e])
  BY DEF AddAndTrim
<1>2. CASE zset' = added /\ UNCHANGED trimmed
  BY <1>0, <1>1, <1>2 DEF TypeOK, RedisOK
<1>3. CASE \E d \in Lowest(added) :
             /\ zset' = [added EXCEPT ![d] = Absent]
             /\ trimmed' = IF added[d] > trimmed THEN added[d] ELSE trimmed
  <2>1. PICK d \in Lowest(added) :
             /\ zset' = [added EXCEPT ![d] = Absent]
             /\ trimmed' = IF added[d] > trimmed THEN added[d] ELSE trimmed
    BY <1>3
  <2>2. d \in Event /\ added[d] \in Nat
    BY <1>1, <2>1 DEF Lowest, Absent
  <2> QED
    BY <1>0, <1>1, <2>1, <2>2 DEF TypeOK, RedisOK
<1> QED
  BY <1>2, <1>3 DEF AddAndTrim

LEMMA InitType == Init => TypeOK
<1> SUFFICES ASSUME Init PROVE TypeOK
  OBVIOUS
<1>1. RedisOK
  BY DEF Init, RedisOK, Absent
<1>2. CallOK
  BY DEF Init, CallOK, NoNum
<1>3. RequestOK
  BY DEF Init, RequestOK, Point
<1>4. ClientOK
  BY DEF Init, ClientOK, NoSession
<1>5. BoundsOK
  BY LongPollAssumption DEF Init, BoundsOK
<1> QED
  BY <1>1, <1>2, <1>3, <1>4, <1>5 DEF Init, TypeOK

\* A notification only fills channels.
LEMMA RingType ==
  ASSUME NEW i, Ring(i), TypeOK
  PROVE  tok' \in [Conn -> BOOLEAN]
<1> DEFINE full(c) == tok[c] \/ (Home[c] = i /\ Subscribed(c))
<1>1. \A c \in Conn : full(c) \in BOOLEAN
  OBVIOUS
<1>2. tok' = [c \in Conn |-> full(c)]
  BY DEF Ring
<1> HIDE DEF full
<1> QED
  BY <1>1, <1>2

\* The payload and the number a call is about to store.
LEMMA PushedEvent ==
  ASSUME TypeOK, NEW k \in Call, More(k), Cur(k).kind = "push"
  PROVE  Cur(k).event \in Event
<1>1. prog[k] \in Programs[k]
  BY DEF TypeOK, CallOK
<1>2. Len(prog[k]) \in Nat /\ at[k] \in Nat \ {0}
  BY <1>1, LongPollAssumption DEF TypeOK, CallOK
<1>3. at[k] \in 1 .. Len(prog[k])
  BY <1>2 DEF More
<1> QED
  BY <1>1, <1>3, LongPollAssumption DEF Cur

LEMMA CallType ==
  ASSUME TypeOK, NEW k \in Call, CallStep(k) \/ CallFault(k)
  PROVE  TypeOK'
<1>1. CASE Incr(k)
  <2>1. RedisOK' /\ CallOK'
    BY <1>1 DEF TypeOK, RedisOK, CallOK, Incr, Incremented, setVars
  <2> QED
    BY <1>1, <2>1, Frame, BoundsType DEF TypeOK, Incr
<1>2. CASE IncrFails(k)
  <2>1. RedisOK' /\ CallOK'
    BY <1>2 DEF TypeOK, RedisOK, CallOK, IncrFails, Incremented, setVars
  <2> QED
    BY <1>2, <2>1, Frame, BoundsType DEF TypeOK, IncrFails
<1>3. CASE StoreEvent(k)
  <2>1. zset' \in [Event -> Nat \cup {Absent}] /\ trimmed' \in Nat /\ movedBack' \in BOOLEAN
    BY <1>3, PushedEvent, AddAndTrimType DEF StoreEvent, TypeOK, CallOK
  <2>2. RedisOK' /\ CallOK'
    BY <1>3, <2>1 DEF TypeOK, RedisOK, CallOK, StoreEvent, Pushed, TTLSet, NoNum
  <2> QED
    BY <1>3, <2>2, Frame, BoundsType DEF TypeOK, StoreEvent
<1>4. CASE StoreFails(k)
  <2>1. zset' \in [Event -> Nat \cup {Absent}] /\ trimmed' \in Nat /\ movedBack' \in BOOLEAN
    BY <1>4, PushedEvent, AddAndTrimType DEF StoreFails, TypeOK, CallOK, RedisOK, setVars
  <2>2. RedisOK' /\ CallOK'
    BY <1>4, <2>1 DEF TypeOK, RedisOK, CallOK, StoreFails, Pushed, TTLSet, NoNum
  <2> QED
    BY <1>4, <2>2, Frame, BoundsType DEF TypeOK, StoreFails
<1>5. CASE Notify(k)
  <2>1. CallOK' /\ RequestOK'
    BY <1>5, RingType DEF TypeOK, CallOK, RequestOK, Notify, Skip
  <2> QED
    BY <1>5, <2>1, Frame, BoundsType DEF TypeOK, Notify
<1>6. CASE Publish(k) \/ PublishLost(k)
  <2>1. CallOK' /\ (pending \in [Instance -> Nat])'
    BY <1>6 DEF TypeOK, CallOK, Publish, PublishLost, Skip
  <2> QED
    BY <1>6, <2>1, Frame, BoundsType DEF TypeOK, Publish, PublishLost
<1> QED
  BY <1>1, <1>2, <1>3, <1>4, <1>5, <1>6 DEF CallStep, CallFault

\* A request that returns, with an answer or without.
LEMMA LeaveType ==
  ASSUME TypeOK, NEW c \in Conn, Leave(c)
  PROVE  RequestOK'
<1>1. pc' \in [Conn -> Point] /\ buf' \in [Conn -> SUBSET Nat] /\ top' \in [Conn -> Nat]
  BY DEF TypeOK, RequestOK, Leave, Move, Point
<1>2. second' \in [Conn -> BOOLEAN] /\ tok' \in [Conn -> BOOLEAN]
  BY DEF TypeOK, RequestOK, Leave
<1> QED
  BY <1>1, <1>2 DEF RequestOK

LEMMA ReturnType ==
  ASSUME TypeOK, NEW c \in Conn, NEW t \in Nat, Return(c, t)
  PROVE  RequestOK' /\ ClientOK'
<1>1. CASE Move(c, "wait") /\ UNCHANGED <<second, buf, top, tok, clientVars>>
  BY <1>1, Frame DEF TypeOK, RequestOK, Move, Point
<1>2. CASE Leave(c) /\ Continue(c, t, buf[c])
  BY <1>2, LeaveType DEF TypeOK, RequestOK, ClientOK, Continue
<1> QED
  BY <1>1, <1>2 DEF Return

LEMMA ClientType ==
  ASSUME TypeOK, NEW c \in Conn, ClientStep(c) \/ ClientFault(c)
  PROVE  TypeOK'
<1>1. CASE GetLongPollServer(c)
  <2>1. RequestOK' /\ ClientOK'
    BY <1>1 DEF TypeOK, RedisOK, RequestOK, ClientOK, GetLongPollServer, Move, Continue,
                Point,
                clientVars
  <2> QED
    BY <1>1, <2>1, Frame, BoundsType DEF TypeOK, GetLongPollServer
<1>2. CASE StartPoll(c)
  <2>1. RequestOK'
    BY <1>2 DEF TypeOK, RequestOK, StartPoll, Move, Point
  <2> QED
    BY <1>2, <2>1, Frame, BoundsType DEF TypeOK, StartPoll
<1>3. CASE PollRejected(c)
  <2>1. ClientOK' /\ BoundsOK'
    BY <1>3, LongPollAssumption DEF TypeOK, ClientOK, BoundsOK, PollRejected
  <2> QED
    BY <1>3, <2>1, Frame DEF TypeOK, PollRejected
<1>4. CASE PollRejectedUnread(c)
  <2>1. ClientOK'
    BY <1>4 DEF TypeOK, ClientOK, PollRejectedUnread
  <2> QED
    BY <1>4, <2>1, Frame, BoundsType DEF TypeOK, PollRejectedUnread
<1>5. CASE GetLongPollServerFails(c)
  <2>1. RequestOK'
    BY <1>5 DEF TypeOK, RequestOK, GetLongPollServerFails, Move, Point
  <2> QED
    BY <1>5, <2>1, Frame, BoundsType DEF TypeOK, GetLongPollServerFails
<1> QED
  BY <1>1, <1>2, <1>3, <1>4, <1>5 DEF ClientStep, ClientFault

LEMMA RequestType ==
  ASSUME TypeOK, NEW c \in Conn, RequestStep(c) \/ Timeout(c) \/ RequestFault(c)
  PROVE  TypeOK'
<1> USE DEF TypeOK
<1>1. CASE InitializeTS(c) \/ InitializeTSFails(c)
  <2>1. RedisOK' /\ RequestOK' /\ ClientOK'
    BY <1>1, Frame
    DEF RedisOK, RequestOK, ClientOK, InitializeTS, InitializeTSFails, Incremented,
        Move, Continue, Point, redisVars, setVars
  <2> QED
    BY <1>1, <2>1, Frame, BoundsType DEF InitializeTS, InitializeTSFails
<1>2. CASE Check(c) \/ CheckFails(c)
  <2>1. RequestOK'
    BY <1>2 DEF RequestOK, Check, CheckFails, Move, Point
  <2> QED
    BY <1>2, <2>1, Frame, BoundsType DEF Check, CheckFails
<1>3. CASE RefuseOld(c) \/ RefuseOldFails(c)
  <2>1. PICK v \in Nat : RefuseOldAt(c, v) /\ (NoFault \/ Fault) /\ TTLKept
    BY <1>3 DEF RedisOK, RefuseOld, RefuseOldFails
  <2>2. RequestOK' /\ ClientOK'
    BY <2>1, LeaveType DEF ClientOK, RefuseOldAt, Continue
  <2> QED
    BY <2>1, <2>2, Frame, BoundsType DEF RefuseOldAt
<1>4. CASE ReadRange(c)
  <2>1. {zset[e] : e \in Fresh(c)} \subseteq Nat
    BY LongPollAssumption DEF RedisOK, Fresh, Absent
  <2>2. RequestOK'
    BY <1>4, <2>1 DEF RequestOK, ReadRange, Move, Point
  <2> QED
    BY <1>4, <2>2, Frame, BoundsType DEF ReadRange
<1>5. CASE ReadRangeFails(c)
  <2>1. RequestOK'
    BY <1>5, LeaveType DEF RequestOK, ReadRangeFails, Move, Point
  <2> QED
    BY <1>5, <2>1, Frame, BoundsType DEF ReadRangeFails
<1>6. CASE GetTS(c) \/ GetTSFails(c)
  <2>1. PICK v \in Nat : ReadTS(c, v) /\ (NoFault \/ Fault) /\ TTLKept
    BY <1>6 DEF RedisOK, GetTS, GetTSFails
  <2>2. pc[c] = "ts"
    BY <2>1 DEF ReadTS
  <2>3. CASE top[c] > v
    BY <2>1, <2>3, Frame, BoundsType DEF RequestOK, ReadTS, Move, Point
  <2>4. CASE ~(top[c] > v)
    <3>1. Larger(v, cts[c]) \in Nat
      BY DEF Larger, ClientOK, NoSession
    <3> QED
      BY <2>1, <2>4, <3>1, ReturnType, Frame, BoundsType DEF ReadTS
  <2> QED
    BY <2>3, <2>4
<1>7. CASE SetTS(c) \/ SetTSFails(c)
  <2>1. Larger(top[c], cts[c]) \in Nat
    BY DEF Larger, ClientOK, RequestOK, NoSession
  <2>2. RequestOK' /\ ClientOK'
    BY <1>7, <2>1, ReturnType DEF SetTS, SetTSFails
  <2>3. RedisOK'
    BY <1>7 DEF RedisOK, RequestOK, SetTS, SetTSFails, TTLSet, setVars
  <2> QED
    BY <1>7, <2>2, <2>3, Frame, BoundsType DEF SetTS, SetTSFails
<1>8. CASE Wake(c) \/ Cancel(c)
  <2>1. RequestOK'
    BY <1>8, LeaveType DEF RequestOK, Wake, Cancel, Move, Point
  <2> QED
    BY <1>8, <2>1, Frame, BoundsType DEF Wake, Cancel
<1>9. CASE Timeout(c) \/ TimeoutFails(c)
  <2>1. PICK v \in Nat : TimeoutReading(c, v) /\ (NoFault \/ Fault) /\ TTLKept
    BY <1>9 DEF RedisOK, Timeout, TimeoutFails
  <2>2. RequestOK' /\ ClientOK'
    BY <2>1, LeaveType DEF ClientOK, TimeoutReading, Continue
  <2> QED
    BY <2>1, <2>2, Frame, BoundsType DEF TimeoutReading
<1> QED
  BY <1>1, <1>2, <1>3, <1>4, <1>5, <1>6, <1>7, <1>8, <1>9 DEF RequestStep, RequestFault

LEMMA EnvironmentType ==
  ASSUME TypeOK,
         (\E i \in Instance : PubSubDeliver(i) \/ Crash(i)) \/ ExpireEvents \/ ExpireTS
  PROVE  TypeOK'
<1> USE DEF TypeOK
<1>1. ASSUME NEW i \in Instance, PubSubDeliver(i) PROVE TypeOK'
  <2>1. RequestOK' /\ (pending \in [Instance -> Nat])'
    BY <1>1, RingType DEF RequestOK, PubSubDeliver
  <2> QED
    BY <1>1, <2>1, Frame, BoundsType DEF PubSubDeliver
<1>2. ASSUME NEW i \in Instance, Crash(i) PROVE TypeOK'
  <2>1. CallOK'
    BY <1>2, LongPollAssumption DEF CallOK, Crash, NoNum
  <2>2. pc' \in [Conn -> Point] /\ buf' \in [Conn -> SUBSET Nat] /\ top' \in [Conn -> Nat]
    BY <1>2 DEF RequestOK, Crash, Point
  <2>3. second' \in [Conn -> BOOLEAN] /\ tok' \in [Conn -> BOOLEAN]
    BY <1>2 DEF RequestOK, Crash
  <2>4. BoundsOK'
    BY <1>2, LongPollAssumption DEF BoundsOK, Crash, TTLKept, Busy
  <2>5. (pending \in [Instance -> Nat])'
    BY <1>2 DEF Crash
  <2> QED
    BY <1>2, <2>1, <2>2, <2>3, <2>4, <2>5, Frame DEF Crash, RequestOK
<1>3. CASE ExpireEvents \/ ExpireTS
  <2>1. RedisOK'
    <3>1. CASE ExpireEvents
      BY <3>1 DEF RedisOK, ExpireEvents, Absent
    <3>2. CASE ExpireTS
      BY <3>2 DEF RedisOK, ExpireTS, setVars
    <3> QED
      BY <1>3, <3>1, <3>2
  <2>2. BoundsOK'
    BY <1>3, LongPollAssumption DEF BoundsOK, ExpireEvents, ExpireTS, Expiry
  <2> QED
    BY <1>3, <2>1, <2>2, Frame DEF ExpireEvents, ExpireTS
<1> QED
  BY <1>1, <1>2, <1>3

\* Type correctness: the model never leaves its types, whatever fails,
\* crashes or expires, for any clients, calls, processes and programs.
THEOREM TypeCorrect == Spec => []TypeOK
<1>1. Init => TypeOK
  BY InitType
<1>2. TypeOK /\ [Next]_vars => TypeOK'
  <2> SUFFICES ASSUME TypeOK, [Next]_vars PROVE TypeOK'
    OBVIOUS
  <2>1. CASE Next
    BY <2>1, CallType, ClientType, RequestType, EnvironmentType DEF Next
  <2>2. CASE UNCHANGED vars
    BY <2>2, Frame DEF vars, TypeOK, BoundsOK, boundVars
  <2> QED
    BY <2>1, <2>2
<1> QED
  BY <1>1, <1>2, PTL DEF Spec

-----------------------------------------------------------------------------
(* No lost wake-up.  NoLostWakeup speaks of parked requests only; it is    *)
(* inductive once it also covers a request that found nothing and has not  *)
(* parked yet, and once such a request is known to park.                   *)

Listening(c) == pc[c] = "wait" \/ (pc[c] = "ts" /\ ~second[c] /\ buf[c] = {})

Heard(c) ==
  ~tok[c] /\ Fresh(c) # {} => (\E k \in Call : RingAhead(k, c)) \/ pending[Home[c]] > 0

\* A request writes the counter back only on account of events it returns.
SetHasEvents ==
  \A c \in Conn : /\ pc[c] = "ts" /\ buf[c] = {} => top[c] = 0
                  /\ pc[c] = "set" => buf[c] # {}

WakeupInv == SetHasEvents /\ \A c \in Conn : Listening(c) => Heard(c)

\* A call that does not move, with the events and the client's ts unchanged,
\* has the same notifications ahead.
LEMMA SameRings ==
  ASSUME UNCHANGED callVars, NEW k, NEW c
  PROVE  RingAhead(k, c)' = RingAhead(k, c)
  BY DEF callVars, RingAhead, Fires, Reaches

\* Nothing about c changes but that its channel may have been filled.
LEMMA StillHeard ==
  ASSUME NEW c \in Conn, Heard(c), UNCHANGED <<callVars, pending, zset>>,
         cts'[c] = cts[c], tok[c] => tok'[c]
  PROVE  Heard(c)'
  BY SameRings DEF Heard, Fresh

LEMMA SetHasEventsStep ==
  ASSUME TypeOK, SetHasEvents, [Next]_vars
  PROVE  SetHasEvents'
<1>1. CASE UNCHANGED <<pc, buf, top>>
  BY <1>1 DEF SetHasEvents
<1>2. ASSUME NEW c \in Conn,
             \/ GetLongPollServer(c) \/ StartPoll(c) \/ GetLongPollServerFails(c)
             \/ RequestStep(c) \/ Timeout(c) \/ RequestFault(c)
      PROVE  SetHasEvents'
  <2>1. ASSUME NEW d \in Conn, d # c
        PROVE  pc'[d] = pc[d] /\ buf'[d] = buf[d] /\ top'[d] = top[d]
    BY <1>2, <2>1
    DEF GetLongPollServer, GetLongPollServerFails, StartPoll, RequestStep, Timeout,
        RequestFault,
        InitializeTS, Check, RefuseOld, RefuseOldAt, ReadRange, GetTS, SetTS, Wake,
        InitializeTSFails, Incremented, RefuseOldFails, CheckFails, ReadRangeFails,
        GetTSFails, SetTSFails, TimeoutFails, Cancel,
        ReadTS, TimeoutReading, Return, Leave, Move, TypeOK, RequestOK
  <2>2. CASE ReadRange(c)
    BY <2>1, <2>2 DEF SetHasEvents, ReadRange, Move, TypeOK, RequestOK
  <2>3. CASE GetTS(c) \/ GetTSFails(c)
    BY <2>1, <2>3
    DEF SetHasEvents, GetTS, GetTSFails, ReadTS, Return, Leave, Move, TypeOK, RequestOK,
        RedisOK
  <2>4. CASE ~ReadRange(c) /\ ~GetTS(c) /\ ~GetTSFails(c)
    <3>1. pc'[c] \notin {"ts", "set"}
      BY <1>2, <2>4
      DEF GetLongPollServer, GetLongPollServerFails, StartPoll, RequestStep, Timeout,
          RequestFault,
          InitializeTS, Check, RefuseOld, RefuseOldAt, SetTS, Wake, InitializeTSFails,
          Incremented, RefuseOldFails, CheckFails,
          ReadRangeFails, SetTSFails, TimeoutFails, Cancel, TimeoutReading, Return, Leave,
          Move,
          TypeOK, RequestOK
    <3> QED
      BY <2>1, <3>1 DEF SetHasEvents
  <2> QED
    BY <2>2, <2>3, <2>4
<1>3. ASSUME NEW i \in Instance, Crash(i) PROVE SetHasEvents'
  BY <1>3 DEF SetHasEvents, Crash, TypeOK, RequestOK
<1>4. ASSUME NEW k \in Call, CallStep(k) \/ CallFault(k) PROVE UNCHANGED <<pc, buf, top>>
  BY <1>4
  DEF CallStep, CallFault, Incr, IncrFails, StoreEvent, StoreFails, Notify, Publish,
      PublishLost,
      requestVars
<1>5. CASE \/ \E i \in Instance : PubSubDeliver(i)
           \/ \E c \in Conn : PollRejected(c) \/ PollRejectedUnread(c)
           \/ ExpireEvents \/ ExpireTS \/ UNCHANGED vars
  BY <1>1, <1>5 DEF PubSubDeliver, ClientFault, PollRejected, PollRejectedUnread,
                    GetLongPollServerFails, ExpireEvents, ExpireTS, vars, requestVars
<1> QED
  BY <1>1, <1>2, <1>3, <1>4, <1>5 DEF Next, ClientStep, ClientFault

LEMMA NoFaults ==
  ASSUME TypeOK, MaxFaults = 0
  PROVE  ~Fault /\ ~FaultAfter
  BY DEF TypeOK, BoundsOK, Fault, FaultAfter

\* A push that went through leaves a notification for every client ahead.
LEMMA StoreRings ==
  ASSUME TypeOK, Announced, MaxFaults = 0, NEW k \in Call, NEW c \in Conn, StoreEvent(k)
  PROVE  RingAhead(k, c)'
<1>1. prog[k] \in Programs[k] /\ Len(prog[k]) \in Nat /\ at[k] \in Nat \ {0}
  BY LongPollAssumption DEF TypeOK, CallOK
<1>2. at[k] \in 1 .. Len(prog[k]) /\ prog[k][at[k]].kind = "push"
  BY <1>1 DEF StoreEvent, More, Cur
<1>3. PICK j \in at[k] + 1 .. Len(prog[k]) : Reaches(k, prog[k][j], c)
  BY <1>1, <1>2 DEF Announced
<1>4. prog' = prog /\ at'[k] = at[k] + 1 /\ ok'[k] = TRUE
  BY DEF StoreEvent, Pushed, TypeOK, CallOK
<1>5. j \in at'[k] .. Len(prog'[k])
  BY <1>3, <1>4
<1>6. Reaches(k, prog[k][j], c)' /\ Fires(k, j)'
  BY <1>3, <1>4 DEF Reaches, Fires
<1> QED
  BY <1>5, <1>6 DEF RingAhead

\* A call that sends a notification which is not for c keeps the others.
LEMMA SkipRings ==
  ASSUME TypeOK, NEW k \in Call, NEW d \in Call, NEW c \in Conn,
         More(k), Cur(k).kind # "push", Skip(k), RingAhead(d, c),
         ~(d = k /\ Reaches(k, Cur(k), c) /\ Allowed(k))
  PROVE  RingAhead(d, c)'
<1>1. PICK j \in at[d] .. Len(prog[d]) : Reaches(d, prog[d][j], c) /\ Fires(d, j)
  BY DEF RingAhead
<1>2. at[d] \in Nat \ {0} /\ Len(prog[d]) \in Nat
  BY LongPollAssumption DEF TypeOK, CallOK
<1>3. CASE d # k
  BY <1>1, <1>3 DEF Skip, RingAhead, Reaches, Fires, TypeOK, CallOK
<1>4. CASE d = k
  <2>1. prog' = prog /\ ok' = ok /\ at'[k] = at[k] + 1
    BY DEF Skip, TypeOK, CallOK
  <2>2. j # at[k]
    BY <1>1, <1>2, <1>4 DEF Fires, Cur, Allowed
  <2>3. j \in at'[k] .. Len(prog'[k])
    BY <1>1, <1>2, <1>4, <2>1, <2>2
  <2>4. Fires(k, j)'
    <3>1. \A m \in at[k] .. j - 1 : prog[k][m].kind = "push" => m \in at'[k] .. j - 1
      BY <1>2, <1>4, <2>1 DEF Cur
    <3>2. \A m \in at'[k] .. j - 1 : m \in at[k] .. j - 1
      BY <1>2, <1>4, <2>1
    <3> QED
      BY <1>1, <1>4, <2>1, <3>1, <3>2 DEF Fires
  <2> QED
    BY <1>1, <1>4, <2>1, <2>3, <2>4 DEF RingAhead, Reaches
<1> QED
  BY <1>3, <1>4

LEMMA CallHeard ==
  ASSUME TypeOK, Announced, MaxFaults = 0, WakeupInv,
         NEW k \in Call, CallStep(k) \/ CallFault(k),
         NEW c \in Conn, Listening(c)'
  PROVE  Heard(c)'
<1>0. Listening(c) /\ Heard(c) /\ cts'[c] = cts[c] /\ Home[c] \in Instance
  <2>1. UNCHANGED <<pc, second, buf, cts>>
    BY DEF CallStep, CallFault, Incr, IncrFails, StoreEvent, StoreFails, Notify, Publish,
           PublishLost, requestVars, clientVars
  <2> QED
    BY <2>1, LongPollAssumption DEF WakeupInv, Listening
<1>1. CASE Incr(k)
  <2>1. UNCHANGED <<prog, at, ok, zset, tok, pending>>
    BY <1>1 DEF Incr, requestVars, setVars
  <2>2. \A d \in Call : RingAhead(d, c)' = RingAhead(d, c)
    BY <2>1 DEF RingAhead, Fires, Reaches
  <2> QED
    BY <1>0, <2>1, <2>2 DEF Heard, Fresh
<1>2. CASE StoreEvent(k)
  BY <1>2, StoreRings DEF Heard
<1>3. CASE Notify(k)
  <2>1. UNCHANGED <<zset, pending>> /\ More(k) /\ Cur(k).kind = "notify" /\ Skip(k)
    BY <1>3 DEF Notify, redisVars, setVars
  <2>2. Fresh(c)' = Fresh(c)
    BY <1>0, <2>1 DEF Fresh
  <2>3. CASE Reaches(k, Cur(k), c) /\ Allowed(k)
    <3>1. Home[k] = Home[c] /\ Subscribed(c)
      BY <1>0, <2>1, <2>3 DEF Reaches, Listening, Subscribed
    <3>2. tok'[c]
      BY <1>3, <2>3, <3>1 DEF Notify, Ring
    <3> QED
      BY <3>2 DEF Heard
  <2>4. CASE ~(Reaches(k, Cur(k), c) /\ Allowed(k))
    <3>1. tok[c] => tok'[c]
      BY <1>3 DEF Notify, Ring
    <3>2. \A d \in Call : RingAhead(d, c) => RingAhead(d, c)'
      BY <2>1, <2>4, SkipRings
    <3> QED
      BY <1>0, <2>1, <2>2, <3>1, <3>2 DEF Heard
  <2> QED
    BY <2>3, <2>4
<1>4. CASE Publish(k)
  <2>1. UNCHANGED <<zset, tok>> /\ More(k) /\ Cur(k).kind = "publish" /\ Skip(k)
    BY <1>4 DEF Publish, redisVars, setVars, requestVars
  <2>2. Fresh(c)' = Fresh(c)
    BY <1>0, <2>1 DEF Fresh
  <2>3. CASE Allowed(k)
    <3>1. pending'[Home[c]] = pending[Home[c]] + 1 /\ pending[Home[c]] \in Nat
      BY <1>0, <1>4, <2>3 DEF Publish, TypeOK
    <3> QED
      BY <3>1 DEF Heard
  <2>4. CASE ~Allowed(k)
    <3>1. pending' = pending
      BY <1>4, <2>4 DEF Publish
    <3>2. \A d \in Call : RingAhead(d, c) => RingAhead(d, c)'
      BY <2>1, <2>4, SkipRings
    <3> QED
      BY <1>0, <2>1, <2>2, <3>1, <3>2 DEF Heard
  <2> QED
    BY <2>3, <2>4
<1>5. CASE CallFault(k)
  BY <1>5, NoFaults DEF CallFault, IncrFails, StoreFails, PublishLost
<1> QED
  BY <1>1, <1>2, <1>3, <1>4, <1>5 DEF CallStep

\* A step of one connection is nothing to another, and c itself parks only
\* when it was listening before, or has just found nothing in the set.
LEMMA RequestHeard ==
  ASSUME TypeOK, MaxFaults = 0, WakeupInv,
         NEW d \in Conn,
         ClientStep(d) \/ ClientFault(d) \/ RequestStep(d) \/ Timeout(d) \/ RequestFault(d),
         NEW c \in Conn, Listening(c)'
  PROVE  Heard(c)'
<1>1. UNCHANGED <<callVars, pending, zset>>
  BY DEF ClientStep, RequestStep, RequestFault, GetLongPollServer, StartPoll, ClientFault,
         PollRejected, PollRejectedUnread, GetLongPollServerFails,
         InitializeTS, Check, RefuseOld, RefuseOldAt, ReadRange, GetTS, SetTS, Wake, Timeout,
         InitializeTSFails, Incremented, RefuseOldFails, CheckFails, ReadRangeFails,
         GetTSFails, SetTSFails, TimeoutFails,
         Cancel, ReadTS, TimeoutReading, redisVars, setVars
<1>2. CASE c # d
  <2>1. pc'[c] = pc[c] /\ second'[c] = second[c] /\ buf'[c] = buf[c] /\ tok'[c] = tok[c]
        /\ cts'[c] = cts[c]
    BY <1>2
    DEF ClientStep, RequestStep, RequestFault, GetLongPollServer, StartPoll, ClientFault,
        PollRejected, PollRejectedUnread, GetLongPollServerFails,
        InitializeTS, Check, RefuseOld, RefuseOldAt, ReadRange, GetTS, SetTS, Wake, Timeout,
        InitializeTSFails, Incremented, RefuseOldFails, CheckFails, ReadRangeFails,
        GetTSFails, SetTSFails, TimeoutFails,
        Cancel, ReadTS, TimeoutReading, Return, Leave, Move, Continue, requestVars,
        clientVars,
        TypeOK, RequestOK, ClientOK
  <2> QED
    BY <1>1, <2>1, StillHeard DEF WakeupInv, Listening
<1>3. CASE c = d /\ ReadRange(c)
  <2>1. buf'[c] = {} /\ cts'[c] = cts[c]
    BY <1>3 DEF ReadRange, Move, Listening, clientVars, TypeOK, RequestOK
  <2>2. Fresh(c)' = {}
    <3>1. buf'[c] = {zset[e] : e \in Fresh(c)}
      BY <1>3 DEF ReadRange, TypeOK, RequestOK
    <3>2. Fresh(c) = {}
      BY <2>1, <3>1
    <3> QED
      BY <1>1, <2>1, <3>2 DEF Fresh
  <2> QED
    BY <2>2 DEF Heard
<1>4. CASE c = d /\ GetTS(c)
  <2>1. pc[c] = "ts" /\ pc'[c] \in {"set", "wait", "idle"}
    BY <1>4 DEF GetTS, ReadTS, Return, Leave, Move, TypeOK, RequestOK
  <2>2. pc'[c] = "wait"
    BY <2>1 DEF Listening
  <2>3. ~second[c] /\ buf[c] = {} /\ UNCHANGED <<tok, cts>>
    BY <1>4, <2>2 DEF GetTS, ReadTS, Return, Leave, Move, TypeOK, RequestOK, clientVars
  <2> QED
    BY <1>1, <2>1, <2>3, StillHeard DEF WakeupInv, Listening
<1>5. CASE c = d /\ ~ReadRange(c) /\ ~GetTS(c)
  <2>1. pc'[c] \notin {"wait", "ts"}
    <3>1. ~RequestFault(c)
      BY NoFaults
      DEF RequestFault, InitializeTSFails, Incremented, RefuseOldFails, CheckFails,
          ReadRangeFails, GetTSFails, SetTSFails,
          TimeoutFails, Cancel
    <3>2. CASE SetTS(c)
      BY <3>2 DEF SetTS, Return, Leave, Move, WakeupInv, SetHasEvents, TypeOK, RequestOK
    <3>3. CASE ClientFault(c)
      BY <3>3, NoFaults DEF Listening, TypeOK, RequestOK, ClientFault, PollRejected,
                            PollRejectedUnread, GetLongPollServerFails, requestVars
    <3>4. CASE ~SetTS(c) /\ ~ClientFault(c)
      BY <1>5, <3>1, <3>4
      DEF ClientStep, RequestStep, GetLongPollServer, StartPoll, InitializeTS, Check,
          RefuseOld, RefuseOldAt,
          Wake, Timeout, TimeoutReading, Leave, Move, TypeOK, RequestOK
    <3> QED
      BY <3>2, <3>3, <3>4
  <2> QED
    BY <2>1 DEF Listening
<1> QED
  BY <1>2, <1>3, <1>4, <1>5

LEMMA EnvironmentHeard ==
  ASSUME TypeOK, WakeupInv,
         \/ \E i \in Instance : PubSubDeliver(i) \/ Crash(i)
         \/ ExpireEvents \/ ExpireTS \/ UNCHANGED vars,
         NEW c \in Conn, Listening(c)'
  PROVE  Heard(c)'
<1>1. ASSUME NEW i \in Instance, PubSubDeliver(i) PROVE Heard(c)'
  <2>1. UNCHANGED <<callVars, zset, pc, second, buf, cts>>
    BY <1>1 DEF PubSubDeliver, redisVars, setVars, clientVars
  <2>2. Listening(c) /\ Heard(c)
    BY <2>1 DEF WakeupInv, Listening
  <2>3. CASE Home[c] = i
    BY <1>1, <2>2, <2>3 DEF PubSubDeliver, Ring, Heard, Listening, Subscribed
  <2>4. CASE Home[c] # i
    <3>1. pending'[Home[c]] = pending[Home[c]] /\ (tok[c] => tok'[c])
      BY <1>1, <2>4, LongPollAssumption DEF PubSubDeliver, Ring, TypeOK
    <3> QED
      BY <2>1, <2>2, <3>1, SameRings DEF Heard, Fresh
  <2> QED
    BY <2>3, <2>4
<1>2. ASSUME NEW i \in Instance, Crash(i) PROVE Heard(c)'
  <2>1. Home[c] # i
    BY <1>2 DEF Crash, Listening
  <2>2. pc'[c] = pc[c] /\ buf'[c] = buf[c] /\ UNCHANGED <<zset, cts, prog, ok>>
    BY <1>2, <2>1 DEF Crash, redisVars, setVars, clientVars
  <2>3. second'[c] = second[c] /\ tok'[c] = tok[c]
    BY <1>2, <2>1 DEF Crash, TypeOK, RequestOK
  <2>4. Listening(c) /\ Heard(c)
    BY <2>2, <2>3 DEF WakeupInv, Listening
  <2>5. pending'[Home[c]] = pending[Home[c]]
    BY <1>2, <2>1, LongPollAssumption DEF Crash, TypeOK
  <2>6. ASSUME NEW k \in Call, RingAhead(k, c) PROVE RingAhead(k, c)'
    <3>1. MaxCrashes # 0
      BY <1>2, LongPollAssumption DEF Crash, TypeOK, BoundsOK
    <3>2. Home[k] = Home[c]
      BY <2>6, <3>1 DEF RingAhead, Reaches
    <3>3. at'[k] = at[k]
      BY <1>2, <2>1, <3>2 DEF Crash, TypeOK, CallOK
    <3> QED
      BY <2>2, <2>6, <3>3 DEF RingAhead, Reaches, Fires
  <2> QED
    BY <2>2, <2>3, <2>4, <2>5, <2>6 DEF Heard, Fresh
<1>3. CASE ExpireEvents
  <2>1. Fresh(c)' = {}
    BY <1>3, LongPollAssumption DEF ExpireEvents, Fresh, Absent
  <2> QED
    BY <2>1 DEF Heard
<1>4. CASE ExpireTS \/ UNCHANGED vars
  <2>1. UNCHANGED <<callVars, pending, zset, pc, second, buf, tok, cts>>
    BY <1>4 DEF ExpireTS, vars, redisVars, setVars, requestVars, clientVars
  <2> QED
    BY <2>1, StillHeard DEF WakeupInv, Listening
<1> QED
  BY <1>1, <1>2, <1>3, <1>4

\* No wake-up is lost: with a Redis that does not fail, and programs that
\* announce every push to the process of every client (Announced), a parked
\* request with something to deliver always has a notification coming,
\* through any crashes and expirations.  Any number of clients, calls and
\* processes; any history length.
THEOREM NoWakeupIsLost ==
  ASSUME MaxFaults = 0, Announced
  PROVE  Spec => []NoLostWakeup
<1>1. Init => WakeupInv
  BY DEF Init, WakeupInv, SetHasEvents, Listening
<1>2. TypeOK /\ WakeupInv /\ [Next]_vars => WakeupInv'
  <2> SUFFICES ASSUME TypeOK, WakeupInv, [Next]_vars PROVE WakeupInv'
    OBVIOUS
  <2>1. SetHasEvents'
    BY SetHasEventsStep DEF WakeupInv
  <2>2. ASSUME NEW c \in Conn, Listening(c)' PROVE Heard(c)'
    BY <2>2, CallHeard, RequestHeard, EnvironmentHeard DEF Next
  <2> QED
    BY <2>1, <2>2 DEF WakeupInv
<1>3. WakeupInv => NoLostWakeup
  BY DEF WakeupInv, NoLostWakeup, Heard, Listening
<1> QED
  BY <1>1, <1>2, <1>3, TypeCorrect, PTL DEF Spec

-----------------------------------------------------------------------------
(* The long poll refines the event feed.  With a Redis that neither fails  *)
(* nor forgets, no number in use exceeds the counter, and nothing that a   *)
(* request will answer does: FeedInv.                                      *)

Numbered ==
  /\ \A k \in Call : num[k] # NoNum => num[k] \in 1 .. ts
  /\ \A e \in Event : zset[e] # Absent => zset[e] \in 1 .. ts

\* What a request has read is ahead of its client, and not ahead of the
\* counter, which it therefore never writes back.
RequestAhead(c) ==
  /\ cts[c] <= ts
  /\ pc[c] \notin {"idle", "server"} => cts[c] # NoSession
  /\ pc[c] # "set"
  /\ IF pc[c] = "ts" THEN buf[c] \subseteq cts[c] + 1 .. ts /\ top[c] <= ts
                    ELSE buf[c] = {}

FeedInv == Numbered /\ \A c \in Conn : RequestAhead(c)

LEMMA NoExpiries ==
  ASSUME TypeOK, MaxExpiries = 0
  PROVE  ~(expiries < MaxExpiries)
  BY DEF TypeOK, BoundsOK

\* What the pipeline leaves in the set had its score before, or got the new one.
LEMMA AddAndTrimScores ==
  ASSUME TypeOK, NEW e \in Event, NEW s \in Nat, AddAndTrim(e, s), NEW x \in Event,
         zset'[x] # Absent
  PROVE  zset'[x] = IF x = e THEN s ELSE zset[x]
<1> DEFINE added == [zset EXCEPT ![e] = s]
<1>1. added \in [Event -> Nat \cup {Absent}] /\ added[x] = IF x = e THEN s ELSE zset[x]
  BY DEF TypeOK, RedisOK
<1>2. CASE zset' = added
  BY <1>1, <1>2
<1>3. ASSUME NEW d \in Event, zset' = [added EXCEPT ![d] = Absent]
      PROVE  zset'[x] = added[x]
  BY <1>1, <1>3
<1> QED
  BY <1>1, <1>2, <1>3 DEF AddAndTrim, Lowest

\* The counter never goes back: the one place that could lower it is the
\* write-back, which no request reaches.
LEMMA CounterGrows ==
  ASSUME TypeOK, FeedInv, MaxFaults = 0, MaxExpiries = 0, [Next]_vars
  PROVE  /\ ts' \in {ts, ts + 1}
         /\ ts' # ts => \/ \E k \in Call : Incr(k)
                        \/ \E c \in Conn : InitializeTS(c)
<1>1. ASSUME NEW k \in Call, CallStep(k) \/ CallFault(k)
      PROVE  ts' = ts \/ (Incr(k) /\ ts' = ts + 1)
  BY <1>1, NoFaults
  DEF CallStep, CallFault, Incr, Incremented, StoreEvent, Notify, Publish, IncrFails,
      StoreFails,
      PublishLost, redisVars, setVars
<1>2. ASSUME NEW c \in Conn,
             ClientStep(c) \/ ClientFault(c) \/ RequestStep(c) \/ Timeout(c) \/ RequestFault(c)
      PROVE  ts' = ts \/ (InitializeTS(c) /\ ts' = ts + 1)
  <2>1. ~RequestFault(c) /\ ~ClientFault(c) /\ ~SetTS(c)
    BY NoFaults, NoExpiries
    DEF RequestFault, InitializeTSFails, Incremented, RefuseOldFails, CheckFails,
        ReadRangeFails, GetTSFails, SetTSFails,
        TimeoutFails, Cancel, ClientFault, PollRejected, PollRejectedUnread,
        GetLongPollServerFails, SetTS, FeedInv, RequestAhead
  <2> QED
    BY <1>2, <2>1
    DEF ClientStep, GetLongPollServer, StartPoll, RequestStep, InitializeTS, Incremented,
        Check,
        RefuseOld, RefuseOldAt, ReadRange, GetTS, ReadTS, Wake, Timeout, TimeoutReading,
        redisVars
<1>3. CASE (\E i \in Instance : PubSubDeliver(i) \/ Crash(i)) \/ UNCHANGED vars
  BY <1>3 DEF PubSubDeliver, Crash, vars, redisVars
<1>4. ~ExpireEvents /\ ~ExpireTS
  BY NoExpiries DEF ExpireEvents, ExpireTS, Expiry
<1> QED
  BY <1>1, <1>2, <1>3, <1>4 DEF Next

\* The numbers in use: a call takes the next one, or stores what it took.
LEMMA NumberedStep ==
  ASSUME TypeOK, FeedInv, MaxFaults = 0, MaxExpiries = 0, [Next]_vars
  PROVE  Numbered'
<1>1. ts' \in {ts, ts + 1} /\ ts \in Nat
  BY CounterGrows DEF TypeOK, RedisOK
<1>2. CASE UNCHANGED <<num, zset>>
  BY <1>1, <1>2 DEF FeedInv, Numbered
<1>3. ASSUME NEW k \in Call, Incr(k) PROVE Numbered'
  BY <1>1, <1>3 DEF FeedInv, Numbered, Incr, Incremented, setVars, TypeOK, CallOK
<1>4. ASSUME NEW k \in Call, StoreEvent(k) PROVE Numbered'
  <2>1. Cur(k).event \in Event /\ num[k] \in Nat /\ num[k] \in 1 .. ts
    BY <1>4, PushedEvent DEF StoreEvent, TypeOK, CallOK, FeedInv, Numbered
  <2>2. \A x \in Event : zset'[x] # Absent =>
          zset'[x] = IF x = Cur(k).event THEN num[k] ELSE zset[x]
    BY <1>4, <2>1, AddAndTrimScores DEF StoreEvent
  <2>3. \A j \in Call : num'[j] = IF j = k THEN NoNum ELSE num[j]
    BY <1>4 DEF StoreEvent, Pushed, TypeOK, CallOK
  <2>4. \A x \in Event : zset'[x] # Absent => zset'[x] \in 1 .. ts
    BY <2>1, <2>2 DEF FeedInv, Numbered, Absent
  <2> QED
    BY <1>1, <2>3, <2>4 DEF FeedInv, Numbered
<1>5. ASSUME NEW i \in Instance, Crash(i) PROVE Numbered'
  BY <1>1, <1>5 DEF FeedInv, Numbered, Crash, redisVars, setVars
<1>6. ASSUME NEW k \in Call, CallStep(k) \/ CallFault(k), ~Incr(k), ~StoreEvent(k)
      PROVE  UNCHANGED <<num, zset>>
  BY <1>6, NoFaults
  DEF CallStep, CallFault, Notify, Publish, Skip, IncrFails, StoreFails, PublishLost,
      redisVars, setVars
<1>7. ASSUME NEW c \in Conn,
             ClientStep(c) \/ ClientFault(c) \/ RequestStep(c) \/ Timeout(c) \/ RequestFault(c)
      PROVE  UNCHANGED <<num, zset>>
  BY <1>7
  DEF ClientStep, RequestStep, RequestFault, GetLongPollServer, StartPoll, ClientFault,
      PollRejected, PollRejectedUnread, GetLongPollServerFails,
      InitializeTS, Check, RefuseOld, RefuseOldAt, ReadRange, GetTS, SetTS, Wake, Timeout,
      InitializeTSFails, Incremented, RefuseOldFails, CheckFails, ReadRangeFails, GetTSFails,
      SetTSFails, TimeoutFails,
      Cancel, ReadTS, TimeoutReading, redisVars, setVars, callVars
<1>8. CASE (\E i \in Instance : PubSubDeliver(i)) \/ UNCHANGED vars
  BY <1>2, <1>8 DEF PubSubDeliver, vars, redisVars, setVars, callVars
<1>9. ~ExpireEvents /\ ~ExpireTS
  BY NoExpiries DEF ExpireEvents, ExpireTS, Expiry
<1> QED
  BY <1>2, <1>3, <1>4, <1>5, <1>6, <1>7, <1>8, <1>9 DEF Next

\* A step that only parks, ends or leaves alone a request of c.
LEMMA StillAhead ==
  ASSUME TypeOK, NEW c \in Conn, RequestAhead(c), ts' \in {ts, ts + 1},
         cts'[c] = cts[c],
         \/ pc'[c] = pc[c] /\ buf'[c] = buf[c] /\ top'[c] = top[c]
         \/ pc'[c] = "idle" /\ buf'[c] = {}
  PROVE  RequestAhead(c)'
<1>1. ts \in Nat /\ cts[c] \in Nat \cup {NoSession} /\ top[c] \in Nat
  BY DEF TypeOK, RedisOK, ClientOK, RequestOK
<1> QED
  BY <1>1 DEF RequestAhead, NoSession

\* The result of a GetUpdates that read the counter after the events.
LEMMA ReturnAhead ==
  ASSUME TypeOK, NEW c \in Conn, RequestAhead(c), pc[c] = "ts", UNCHANGED ts, Return(c, ts)
  PROVE  RequestAhead(c)'
<1>1. ts \in Nat /\ cts[c] \in Nat \cup {NoSession}
  BY DEF TypeOK, RedisOK, ClientOK
<1>2. CASE ~second[c] /\ buf[c] = {}
  <2>1. pc'[c] = "wait" /\ buf'[c] = {} /\ cts'[c] = cts[c]
    BY <1>2 DEF Return, Move, clientVars, TypeOK, RequestOK
  <2> QED
    BY <1>1, <2>1 DEF RequestAhead
<1>3. CASE ~(~second[c] /\ buf[c] = {})
  <2>1. pc'[c] = "idle" /\ buf'[c] = {} /\ cts'[c] = ts
    BY <1>3 DEF Return, Leave, Move, Continue, TypeOK, RequestOK, ClientOK
  <2> QED
    BY <1>1, <2>1 DEF RequestAhead
<1> QED
  BY <1>2, <1>3

\* The counter read is the newest number: no write-back, and the client is
\* given the counter itself.
LEMMA GetTSReturns ==
  ASSUME TypeOK, NEW c \in Conn, RequestAhead(c), GetTS(c)
  PROVE  pc[c] = "ts" /\ Return(c, ts)
<1>1. ts \in Nat /\ cts[c] \in Nat \cup {NoSession} /\ top[c] \in Nat
  BY DEF TypeOK, RedisOK, ClientOK, RequestOK
<1>2. pc[c] = "ts" /\ ~(top[c] > ts) /\ Larger(ts, cts[c]) = ts
  BY <1>1 DEF GetTS, ReadTS, RequestAhead, Larger, NoSession
<1> QED
  BY <1>2 DEF GetTS, ReadTS

\* The steps of a client and its request that a Redis without faults allows.
LEMMA RequestActions ==
  ASSUME TypeOK, FeedInv, MaxFaults = 0, MaxExpiries = 0, NEW c \in Conn,
         ClientStep(c) \/ ClientFault(c) \/ RequestStep(c) \/ Timeout(c) \/ RequestFault(c)
  PROVE  \/ GetLongPollServer(c) \/ StartPoll(c) \/ InitializeTS(c) \/ Check(c) \/ RefuseOld(c)
         \/ ReadRange(c) \/ GetTS(c) \/ Wake(c) \/ Timeout(c)
<1>1. ~RequestFault(c) /\ ~ClientFault(c) /\ ~SetTS(c)
  BY NoFaults, NoExpiries
  DEF RequestFault, InitializeTSFails, Incremented, RefuseOldFails, CheckFails,
      ReadRangeFails, GetTSFails, SetTSFails,
      TimeoutFails, Cancel, ClientFault, PollRejected, PollRejectedUnread,
      GetLongPollServerFails, SetTS, FeedInv, RequestAhead
<1> QED
  BY <1>1 DEF ClientStep, RequestStep

LEMMA OwnStepAhead ==
  ASSUME TypeOK, FeedInv, MaxFaults = 0, MaxExpiries = 0, NEW c \in Conn,
         ClientStep(c) \/ ClientFault(c) \/ RequestStep(c) \/ Timeout(c) \/ RequestFault(c)
  PROVE  RequestAhead(c)'
<1>0. ts \in Nat /\ cts[c] \in Nat \cup {NoSession} /\ top[c] \in Nat /\ RequestAhead(c)
  BY DEF TypeOK, RedisOK, ClientOK, RequestOK, FeedInv
<1>1. CASE GetLongPollServer(c)
  <2>1. ts' = ts /\ pc'[c] \in {"idle", "server"} /\ pc[c] = "idle" /\ buf' = buf
    BY <1>1 DEF GetLongPollServer, Move, redisVars, TypeOK, RequestOK
  <2>2. cts'[c] \in {cts[c], ts}
    BY <1>1 DEF GetLongPollServer, Continue, clientVars, TypeOK, ClientOK
  <2> QED
    BY <1>0, <2>1, <2>2 DEF RequestAhead
<1>2. CASE StartPoll(c)
  <2>1. ts' = ts /\ pc'[c] = "check" /\ pc[c] = "idle" /\ buf' = buf /\ cts' = cts
        /\ cts[c] # NoSession
    BY <1>2 DEF StartPoll, Move, redisVars, clientVars, TypeOK, RequestOK
  <2> QED
    BY <1>0, <2>1 DEF RequestAhead
<1>3. CASE InitializeTS(c)
  <2>1. ts' = ts + 1 /\ pc'[c] = "idle" /\ pc[c] = "server" /\ buf' = buf /\ cts'[c] = ts + 1
    BY <1>3 DEF InitializeTS, Incremented, Move, Continue, TypeOK, RequestOK, ClientOK
  <2> QED
    BY <1>0, <2>1 DEF RequestAhead
<1>4. CASE Check(c) \/ Wake(c)
  <2>1. ts' = ts /\ pc'[c] \in {"old", "range", "check"} /\ pc[c] \in {"check", "wait"}
        /\ buf' = buf /\ cts' = cts
    BY <1>4 DEF Check, Wake, Move, redisVars, clientVars, TypeOK, RequestOK
  <2> QED
    BY <1>0, <2>1 DEF RequestAhead
<1>5. CASE RefuseOld(c) \/ Timeout(c)
  <2>1. ts' = ts /\ pc'[c] = "idle" /\ buf'[c] = {} /\ cts'[c] \in {cts[c], ts}
    BY <1>5 DEF RefuseOld, RefuseOldAt, Timeout, TimeoutReading, Leave, Move, Continue,
                redisVars,
                TypeOK, RequestOK, ClientOK
  <2> QED
    BY <1>0, <2>1 DEF RequestAhead
<1>6. CASE ReadRange(c)
  <2>1. ts' = ts /\ pc'[c] = "ts" /\ pc[c] = "range" /\ cts' = cts
        /\ buf'[c] = {zset[e] : e \in Fresh(c)} /\ top'[c] \in buf'[c] \cup {0}
    BY <1>6 DEF ReadRange, Move, redisVars, clientVars, TypeOK, RequestOK
  <2>2. \A e \in Fresh(c) : zset[e] \in cts[c] + 1 .. ts
    BY <1>0, LongPollAssumption
    DEF Fresh, FeedInv, Numbered, Absent, NoSession, TypeOK, RedisOK
  <2>3. buf'[c] \subseteq cts[c] + 1 .. ts
    BY <2>1, <2>2
  <2> QED
    BY <1>0, <2>1, <2>3 DEF RequestAhead, NoSession
<1>7. CASE GetTS(c)
  <2>1. ts' = ts
    BY <1>7 DEF GetTS, ReadTS, redisVars
  <2> QED
    BY <1>0, <1>7, <2>1, GetTSReturns, ReturnAhead
<1> QED
  BY <1>1, <1>2, <1>3, <1>4, <1>5, <1>6, <1>7, RequestActions

LEMMA FeedInvStep ==
  ASSUME TypeOK, FeedInv, MaxFaults = 0, MaxExpiries = 0, [Next]_vars
  PROVE  FeedInv'
<1>0. ts' \in {ts, ts + 1}
  BY CounterGrows
<1> SUFFICES ASSUME NEW c \in Conn PROVE RequestAhead(c)'
  BY NumberedStep DEF FeedInv
<1>1. RequestAhead(c)
  BY DEF FeedInv
<1>2. ASSUME NEW k \in Call, CallStep(k) \/ CallFault(k) PROVE RequestAhead(c)'
  <2>1. UNCHANGED <<pc, buf, top, cts>>
    BY <1>2
    DEF CallStep, CallFault, Incr, IncrFails, StoreEvent, StoreFails, Notify, Publish,
        PublishLost, requestVars, clientVars
  <2> QED
    BY <1>0, <1>1, <2>1, StillAhead
<1>3. ASSUME NEW d \in Conn, d # c,
             ClientStep(d) \/ ClientFault(d) \/ RequestStep(d) \/ Timeout(d) \/ RequestFault(d)
      PROVE  RequestAhead(c)'
  <2>1. pc'[c] = pc[c] /\ buf'[c] = buf[c] /\ top'[c] = top[c] /\ cts'[c] = cts[c]
    BY <1>3, RequestActions
    DEF GetLongPollServer, StartPoll, InitializeTS, Check, RefuseOld, RefuseOldAt, ReadRange,
        GetTS, Wake, Timeout,
        ReadTS, TimeoutReading, Return, Leave, Move, Continue, requestVars, clientVars,
        TypeOK, RequestOK, ClientOK
  <2> QED
    BY <1>0, <1>1, <2>1, StillAhead
<1>4. ASSUME NEW i \in Instance, PubSubDeliver(i) \/ Crash(i) PROVE RequestAhead(c)'
  <2>1. cts' = cts
    BY <1>4 DEF PubSubDeliver, Crash, clientVars
  <2>2. \/ pc'[c] = pc[c] /\ buf'[c] = buf[c] /\ top'[c] = top[c]
        \/ pc'[c] = "idle" /\ buf'[c] = {}
    BY <1>4 DEF PubSubDeliver, Crash
  <2> QED
    BY <1>0, <1>1, <2>1, <2>2, StillAhead
<1>5. CASE UNCHANGED vars
  BY <1>0, <1>1, <1>5, StillAhead DEF vars, requestVars, clientVars
<1>6. ~ExpireEvents /\ ~ExpireTS
  BY NoExpiries DEF ExpireEvents, ExpireTS, Expiry
<1> QED
  BY <1>2, <1>3, <1>4, <1>5, <1>6, OwnStepAhead DEF Next

\* What a request does to the client, as a step of the feed.
LEMMA AnswerStep ==
  ASSUME TypeOK, NEW c \in Conn, cts[c] # NoSession, cts[c] <= ts, UNCHANGED ts,
         NEW S \in SUBSET (cts[c] + 1 .. ts), Continue(c, ts, S)
  PROVE  Feed!Answer(c)
<1>1. ts \in cts[c] .. ts
  BY DEF TypeOK, RedisOK, ClientOK
<1>2. /\ cts' = [cts EXCEPT ![c] = ts]
      /\ known' = [known EXCEPT ![c] = @ \cup S]
  BY DEF Continue
<1> QED
  BY <1>1, <1>2 DEF Feed!Answer, Feed!NoCursor, NoSession

LEMMA ResetStep ==
  ASSUME NEW c, ts' \in {ts, ts + 1}, Continue(c, ts', 0 .. ts')
  PROVE  Feed!Reset(c)
  BY DEF Continue, Feed!Reset

LEMMA FeedStep ==
  ASSUME TypeOK, FeedInv, MaxFaults = 0, MaxExpiries = 0, [Next]_vars
  PROVE  [Feed!Next]_(Feed!feedVars)
<1> DEFINE Still == UNCHANGED <<ts, cts, known>>
<1>0. Still => [Feed!Next]_(Feed!feedVars)
  BY DEF Feed!feedVars
<1>1. ASSUME NEW k \in Call, CallStep(k) \/ CallFault(k) PROVE Still \/ Feed!Issue
  <2>1. UNCHANGED <<cts, known>>
    BY <1>1
    DEF CallStep, CallFault, Incr, IncrFails, StoreEvent, StoreFails, Notify, Publish,
        PublishLost, clientVars
  <2>2. ts' = ts \/ ts' = ts + 1
    BY CounterGrows
  <2> QED
    BY <2>1, <2>2 DEF Feed!Issue
<1>2. ASSUME NEW c \in Conn,
             ClientStep(c) \/ ClientFault(c) \/ RequestStep(c) \/ Timeout(c) \/ RequestFault(c)
      PROVE  Still \/ Feed!Reset(c) \/ Feed!Answer(c)
  <2>0. ts \in Nat /\ cts[c] \in Nat \cup {NoSession} /\ RequestAhead(c)
    BY DEF TypeOK, RedisOK, ClientOK, FeedInv
  <2>1. CASE GetLongPollServer(c)
    BY <2>1, ResetStep DEF GetLongPollServer, clientVars, redisVars
  <2>2. CASE InitializeTS(c)
    BY <2>2, ResetStep DEF InitializeTS, Incremented
  <2>3. CASE RefuseOld(c)
    <3>1. ts' = ts /\ cts[c] # NoSession /\ cts[c] <= ts
      BY <2>0, <2>3 DEF RefuseOld, RefuseOldAt, redisVars, RequestAhead
    <3>2. CASE second[c]
      BY <2>3, <3>1, <3>2, AnswerStep DEF RefuseOld, RefuseOldAt
    <3>3. CASE ~second[c]
      BY <2>3, <3>1, <3>3, ResetStep DEF RefuseOld, RefuseOldAt
    <3> QED
      BY <3>2, <3>3
  <2>4. CASE GetTS(c)
    <3>1. ts' = ts /\ cts[c] # NoSession /\ cts[c] <= ts /\ buf[c] \subseteq cts[c] + 1 .. ts
      BY <2>0, <2>4 DEF GetTS, ReadTS, redisVars, RequestAhead
    <3>2. Return(c, ts)
      BY <2>0, <2>4, GetTSReturns
    <3> QED
      BY <3>1, <3>2, AnswerStep DEF Return, clientVars
  <2>5. CASE Timeout(c)
    <3>1. ts' = ts /\ cts[c] # NoSession /\ cts[c] <= ts
      BY <2>0, <2>5 DEF Timeout, TimeoutReading, redisVars, RequestAhead
    <3>2. Continue(c, ts, {})
      BY <2>0, <2>5, <3>1 DEF Timeout, TimeoutReading, NoSession
    <3> QED
      BY <3>1, <3>2, AnswerStep
  <2>6. CASE StartPoll(c) \/ Check(c) \/ ReadRange(c) \/ Wake(c)
    BY <2>6 DEF StartPoll, Check, ReadRange, Wake, redisVars, clientVars
  <2> QED
    BY <1>2, <2>1, <2>2, <2>3, <2>4, <2>5, <2>6, RequestActions
<1>3. CASE (\E i \in Instance : PubSubDeliver(i) \/ Crash(i)) \/ UNCHANGED vars
  BY <1>0, <1>3 DEF PubSubDeliver, Crash, vars, redisVars, clientVars
<1>4. ~ExpireEvents /\ ~ExpireTS
  BY NoExpiries DEF ExpireEvents, ExpireTS, Expiry
<1> QED
  BY <1>0, <1>1, <1>2, <1>3, <1>4 DEF Next, Feed!Next

\* The long poll implements the event feed, through any number of crashes:
\* numbers only grow, a client's ts follows them forward, and no event is
\* handed out twice or after a later ts.  Any clients, calls, processes,
\* programs and history length; a Redis that neither fails nor forgets.
THEOREM LongPollIsAFeed ==
  ASSUME MaxFaults = 0, MaxExpiries = 0
  PROVE  Spec => FeedSpec
<1>1. Init => FeedInv
  BY DEF Init, FeedInv, Numbered, RequestAhead, NoNum, Absent, NoSession
<1>2. TypeOK /\ FeedInv /\ [Next]_vars => FeedInv'
  BY FeedInvStep
<1>3. Init => Feed!Init
  BY DEF Init, Feed!Init, NoSession, Feed!NoCursor
<1>4. TypeOK /\ FeedInv /\ [Next]_vars => [Feed!Next]_(Feed!feedVars)
  BY FeedStep
<1> QED
  BY <1>1, <1>2, <1>3, <1>4, TypeCorrect, PTL DEF Spec, FeedSpec, Feed!Spec

-----------------------------------------------------------------------------
(* Numbers are handed out once: Distinct.                                  *)

Distinct ==
  /\ \A j, k \in Call : j # k /\ num[j] # NoNum => num[j] # num[k]
  /\ \A k \in Call : \A e \in Event : num[k] # NoNum => zset[e] # num[k]
  /\ \A d, e \in Event : d # e /\ zset[d] # Absent => zset[d] # zset[e]

\* What the steps other than INCR and the pipeline do to numbers and scores:
\* nothing, but that a crash drops the numbers of the calls it ends.
LEMMA OtherNumbers ==
  ASSUME TypeOK, FeedInv, MaxFaults = 0, MaxExpiries = 0, [Next]_vars,
         \A k \in Call : ~Incr(k) /\ ~StoreEvent(k)
  PROVE  UNCHANGED setVars /\ \A k \in Call : num'[k] \in {num[k], NoNum}
<1>1. ASSUME NEW k \in Call, CallStep(k) \/ CallFault(k) PROVE UNCHANGED <<num, setVars>>
  BY <1>1, NoFaults
  DEF CallStep, CallFault, Notify, Publish, Skip, IncrFails, StoreFails, PublishLost,
      redisVars
<1>2. ASSUME NEW c \in Conn,
             ClientStep(c) \/ ClientFault(c) \/ RequestStep(c) \/ Timeout(c) \/ RequestFault(c)
      PROVE  UNCHANGED <<num, setVars>>
  BY <1>2, RequestActions
  DEF GetLongPollServer, StartPoll, InitializeTS, Check, RefuseOld, RefuseOldAt, ReadRange,
      GetTS, Wake, Timeout,
      ReadTS, TimeoutReading, redisVars, callVars, setVars
<1>3. ASSUME NEW i \in Instance, PubSubDeliver(i) \/ Crash(i)
      PROVE  UNCHANGED setVars /\ \A k \in Call : num'[k] \in {num[k], NoNum}
  BY <1>3 DEF PubSubDeliver, Crash, redisVars, callVars
<1>4. CASE UNCHANGED vars
  BY <1>4 DEF vars, redisVars, callVars
<1>5. ~ExpireEvents /\ ~ExpireTS
  BY NoExpiries DEF ExpireEvents, ExpireTS, Expiry
<1> QED
  BY <1>1, <1>2, <1>3, <1>4, <1>5 DEF Next

LEMMA DistinctStep ==
  ASSUME TypeOK, FeedInv, Distinct, MaxFaults = 0, MaxExpiries = 0, [Next]_vars
  PROVE  Distinct'
<1>1. ASSUME NEW k \in Call, Incr(k) PROVE Distinct'
  <2>1. ts \in Nat /\ zset' = zset /\ \A j \in Call : num'[j] = IF j = k THEN ts + 1 ELSE num[j]
    BY <1>1 DEF Incr, setVars, TypeOK, RedisOK, CallOK
  <2>2. /\ \A j \in Call : num[j] # NoNum => num[j] # ts + 1
        /\ \A e \in Event : zset[e] # ts + 1
    BY <2>1 DEF FeedInv, Numbered, Absent
  <2>3. ts + 1 # NoNum
    BY <2>1 DEF NoNum
  <2> QED
    BY <2>1, <2>2, <2>3 DEF Distinct
<1>2. ASSUME NEW k \in Call, StoreEvent(k) PROVE Distinct'
  <2> DEFINE e == Cur(k).event
  <2>1. e \in Event /\ num[k] \in Nat /\ num[k] # NoNum
    BY <1>2, PushedEvent DEF StoreEvent, TypeOK, CallOK, FeedInv, Numbered
  <2>2. \A x \in Event : zset'[x] # Absent => zset'[x] = IF x = e THEN num[k] ELSE zset[x]
    BY <1>2, <2>1, AddAndTrimScores DEF StoreEvent
  <2>3. \A j \in Call : num'[j] = IF j = k THEN NoNum ELSE num[j]
    BY <1>2 DEF StoreEvent, Pushed, TypeOK, CallOK
  <2>4. NoNum = Absent
    BY DEF NoNum, Absent
  <2>5. \A x, y \in Event : x # y /\ zset'[x] # Absent => zset'[x] # zset'[y]
    <3> SUFFICES ASSUME NEW x \in Event, NEW y \in Event, x # y, zset'[x] # Absent,
                        zset'[x] = zset'[y]
                 PROVE  FALSE
      OBVIOUS
    <3> QED
      BY <2>1, <2>2 DEF Distinct
  <2>6. \A j \in Call : \A x \in Event : num'[j] # NoNum => zset'[x] # num'[j]
    <3> SUFFICES ASSUME NEW j \in Call, NEW x \in Event, num'[j] # NoNum, zset'[x] = num'[j]
                 PROVE  FALSE
      OBVIOUS
    <3> QED
      BY <2>1, <2>2, <2>3, <2>4 DEF Distinct
  <2> QED
    BY <2>3, <2>5, <2>6 DEF Distinct
<1>3. CASE \A k \in Call : ~Incr(k) /\ ~StoreEvent(k)
  BY <1>3, OtherNumbers DEF Distinct, setVars
<1> QED
  BY <1>1, <1>2, <1>3

LEMMA NumbersInvariant ==
  ASSUME MaxFaults = 0, MaxExpiries = 0
  PROVE  Spec => [](FeedInv /\ Distinct)
<1>1. Init => FeedInv /\ Distinct
  BY DEF Init, FeedInv, Numbered, RequestAhead, Distinct, NoNum, Absent, NoSession
<1>2. TypeOK /\ FeedInv /\ Distinct /\ [Next]_vars => FeedInv' /\ Distinct'
  BY FeedInvStep, DistinctStep
<1> QED
  BY <1>1, <1>2, TypeCorrect, PTL DEF Spec

\* No two events of the history carry the same counter value, whatever
\* overlaps or crashes: for any calls, programs and payloads, with a Redis
\* that neither fails nor forgets.
THEOREM NumbersAreUnique ==
  ASSUME MaxFaults = 0, MaxExpiries = 0
  PROVE  Spec => []NumbersUnique
<1>1. FeedInv /\ Distinct => NumbersUnique
  BY DEF FeedInv, Numbered, Distinct, NumbersUnique, Stored
<1> QED
  BY <1>1, NumbersInvariant, PTL

-----------------------------------------------------------------------------
(* The cut-off of the history.                                             *)

HistoryInv ==
  /\ IsFiniteSet(Stored) /\ Cardinality(Stored) <= HistoryCap
  /\ trimmed > 0 => Cardinality(Stored) = HistoryCap
  /\ ~movedBack => \A e \in Stored : zset[e] > trimmed

\* A push into a set that is not full, or that holds the payload already.
LEMMA AddFits ==
  ASSUME TypeOK, FeedInv, Distinct, HistoryInv, NEW e \in Event, NEW s \in Nat \ {0},
         zset' = [zset EXCEPT ![e] = s], UNCHANGED trimmed,
         movedBack' = (movedBack \/ s < zset[e]),
         Cardinality(Stored') <= HistoryCap
  PROVE  HistoryInv'
<1>1. Stored' = Stored \cup {e}
  BY DEF Stored, TypeOK, RedisOK, Absent
<1>2. IsFiniteSet(Stored) /\ Cardinality(Stored) \in Nat /\ HistoryCap \in Nat /\ trimmed \in Nat
  BY FS_CardinalityType, LongPollAssumption DEF HistoryInv, TypeOK, RedisOK
<1>3. IsFiniteSet(Stored')
        /\ Cardinality(Stored') = IF e \in Stored THEN Cardinality(Stored)
                                                  ELSE Cardinality(Stored) + 1
  BY <1>1, <1>2, FS_AddElement
<1>4. trimmed > 0 => e \in Stored
  BY <1>2, <1>3 DEF HistoryInv
<1>5. ASSUME ~movedBack', NEW x \in Stored' PROVE zset'[x] > trimmed
  <2>1. ~movedBack /\ ~(s < zset[e]) /\ x \in Event /\ zset[e] \in Nat \cup {Absent}
    BY <1>5 DEF Stored, TypeOK, RedisOK
  <2>2. CASE x # e
    BY <1>1, <1>5, <2>1, <2>2 DEF HistoryInv, TypeOK, RedisOK
  <2>3. CASE x = e
    <3>1. zset'[x] = s
      BY <2>3 DEF TypeOK, RedisOK
    <3>2. CASE trimmed = 0
      BY <3>1, <3>2
    <3>3. CASE trimmed > 0
      <4>1. zset[e] > trimmed /\ zset[e] \in Nat
        BY <1>4, <2>1, <3>3 DEF HistoryInv, Stored
      <4> QED
        BY <1>2, <2>1, <3>1, <4>1
    <3> QED
      BY <1>2, <3>2, <3>3
  <2> QED
    BY <2>2, <2>3
<1>6. trimmed' > 0 => Cardinality(Stored') = HistoryCap
  BY <1>3, <1>4 DEF HistoryInv
<1> QED
  BY <1>3, <1>5, <1>6 DEF HistoryInv

\* A push into a full set: the lowest member goes, perhaps the new one itself.
LEMMA AddTrims ==
  ASSUME TypeOK, FeedInv, Distinct, HistoryInv, NEW e \in Event, NEW s \in Nat \ {0},
         \A x \in Event : zset[x] # s,
         AddAndTrim(e, s),
         ~(Cardinality({x \in Event : [zset EXCEPT ![e] = s][x] # Absent}) <= HistoryCap)
  PROVE  HistoryInv'
<1> DEFINE added == [zset EXCEPT ![e] = s]
           grown == {x \in Event : added[x] # Absent}
<1>1. PICK d \in Lowest(added) :
             /\ zset' = [added EXCEPT ![d] = Absent]
             /\ trimmed' = IF added[d] > trimmed THEN added[d] ELSE trimmed
  BY DEF AddAndTrim
<1>2. movedBack' = (movedBack \/ s < zset[e]) /\ d \in Event
  BY DEF AddAndTrim, Lowest
<1>3. /\ zset \in [Event -> Nat \cup {Absent}] /\ added \in [Event -> Nat \cup {Absent}]
      /\ \A x \in Event : added[x] = IF x = e THEN s ELSE zset[x]
      /\ \A x \in Event : zset'[x] = IF x = d THEN Absent ELSE added[x]
  BY <1>1, <1>2 DEF TypeOK, RedisOK
<1>4. grown = Stored \cup {e} /\ s # Absent
  BY <1>3 DEF Stored, Absent
<1>5. /\ IsFiniteSet(Stored) /\ Cardinality(Stored) \in Nat
      /\ HistoryCap \in Nat \ {0} /\ trimmed \in Nat
  BY FS_CardinalityType, LongPollAssumption DEF HistoryInv, TypeOK, RedisOK
<1>6. /\ IsFiniteSet(grown)
      /\ Cardinality(grown) = IF e \in Stored THEN Cardinality(Stored)
                                              ELSE Cardinality(Stored) + 1
  BY <1>4, <1>5, FS_AddElement
<1>7. e \notin Stored /\ Cardinality(Stored) = HistoryCap /\ Cardinality(grown) = HistoryCap + 1
  BY <1>5, <1>6 DEF HistoryInv
<1>8. d \in grown /\ \A x \in grown : added[d] <= added[x]
  BY <1>2 DEF Lowest
<1>9. Stored' = grown \ {d}
  BY <1>3 DEF Stored
<1>10. grown \subseteq Event /\ \A x \in grown : added[x] # Absent
  OBVIOUS
<1> HIDE DEF grown, added
<1>11. IsFiniteSet(Stored') /\ Cardinality(Stored') = HistoryCap
  <2>1. IsFiniteSet(grown \ {d}) /\ Cardinality(grown \ {d}) = Cardinality(grown) - 1
    BY <1>6, <1>8, FS_RemoveElement
  <2> QED
    BY <1>5, <1>7, <1>9, <2>1
<1>12. ASSUME ~movedBack', NEW x \in Stored' PROVE zset'[x] > trimmed'
  <2>1. x \in grown /\ x # d /\ zset'[x] = added[x] /\ added[x] \in Nat /\ added[d] \in Nat
    BY <1>3, <1>8, <1>9, <1>10, <1>12
  <2>2. added[x] # added[d]
    BY <1>2, <1>3, <1>8, <1>10, <2>1 DEF Distinct
  <2>3. added[d] < added[x]
    BY <1>8, <2>1, <2>2
  <2>4. added[x] > trimmed
    <3>1. \A y \in Stored : zset[y] > trimmed
      BY <1>2, <1>12 DEF HistoryInv
    <3>2. CASE x # e
      BY <1>3, <1>4, <1>10, <2>1, <3>1, <3>2
    <3>3. CASE x = e
      <4>1. d \in Stored /\ added[d] > trimmed
        BY <1>3, <1>4, <1>8, <1>10, <2>1, <3>1, <3>3
      <4> QED
        BY <1>5, <2>1, <2>3, <4>1
    <3> QED
      BY <3>2, <3>3
  <2> QED
    BY <1>1, <2>1, <2>3, <2>4
<1> QED
  <2>1. ~movedBack' => \A x \in Stored' : zset'[x] > trimmed'
    BY <1>12
  <2>2. Cardinality(Stored') <= HistoryCap
    BY <1>5, <1>11
  <2> QED
    BY <1>11, <2>1, <2>2 DEF HistoryInv

LEMMA HistoryStep ==
  ASSUME TypeOK, FeedInv, Distinct, HistoryInv, MaxFaults = 0, MaxExpiries = 0, [Next]_vars
  PROVE  HistoryInv'
<1>1. ASSUME NEW k \in Call, StoreEvent(k) PROVE HistoryInv'
  <2> DEFINE e == Cur(k).event
             added == [zset EXCEPT ![e] = num[k]]
  <2>1. e \in Event /\ num[k] \in Nat \ {0} /\ num[k] # NoNum /\ AddAndTrim(e, num[k])
    BY <1>1, PushedEvent DEF StoreEvent, FeedInv, Numbered, TypeOK, RedisOK
  <2>2. \A x \in Event : zset[x] # num[k]
    BY <2>1 DEF Distinct
  <2>3. movedBack' = (movedBack \/ num[k] < zset[e])
    BY <2>1 DEF AddAndTrim
  <2> HIDE DEF e
  <2>4. CASE Cardinality({x \in Event : added[x] # Absent}) <= HistoryCap
    <3>1. zset' = added /\ UNCHANGED trimmed
      BY <2>1, <2>4 DEF AddAndTrim
    <3>2. Cardinality(Stored') <= HistoryCap
      BY <2>4, <3>1 DEF Stored
    <3> QED
      BY <2>1, <2>3, <3>1, <3>2, AddFits
  <2>5. CASE ~(Cardinality({x \in Event : added[x] # Absent}) <= HistoryCap)
    BY <2>1, <2>2, <2>5, AddTrims
  <2> QED
    BY <2>4, <2>5
<1>2. ASSUME NEW k \in Call, Incr(k) PROVE HistoryInv'
  BY <1>2 DEF Incr, setVars, HistoryInv, Stored
<1>3. CASE \A k \in Call : ~Incr(k) /\ ~StoreEvent(k)
  BY <1>3, OtherNumbers DEF setVars, HistoryInv, Stored
<1> QED
  BY <1>1, <1>2, <1>3

\* What the trimming of the history removed is numbered below everything that
\* is left, so that the cut-off in GetUpdates finds every client that missed
\* a removal, for any history length, calls and programs, as long as no
\* payload of the set was brought back to a lower number, and with a Redis
\* that neither fails nor forgets.
THEOREM RemovedAreOlder ==
  ASSUME MaxFaults = 0, MaxExpiries = 0
  PROVE  Spec => []RemovedIsOlder
<1>1. Init => HistoryInv
  <2> SUFFICES ASSUME Init PROVE HistoryInv
    OBVIOUS
  <2>1. Stored = {} /\ trimmed = 0
    BY DEF Init, Stored
  <2>2. IsFiniteSet(Stored) /\ Cardinality(Stored) = 0
    BY <2>1, FS_EmptySet
  <2> QED
    BY <2>1, <2>2, LongPollAssumption DEF HistoryInv
<1>2. TypeOK /\ FeedInv /\ Distinct /\ HistoryInv /\ [Next]_vars => HistoryInv'
  BY HistoryStep
<1>3. HistoryInv => RemovedIsOlder
  BY DEF HistoryInv, RemovedIsOlder
<1> QED
  BY <1>1, <1>2, <1>3, TypeCorrect, NumbersInvariant, PTL DEF Spec

=============================================================================
