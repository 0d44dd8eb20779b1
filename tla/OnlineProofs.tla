---------------------------- MODULE OnlineProofs ----------------------------
(***************************************************************************)
(* Theorems about Online for any users, calls, processes, requests and     *)
(* recipients: the types, and that what the others were told of a user     *)
(* agrees with the sorted set.                                             *)
(***************************************************************************)
EXTENDS Online, TLAPS

-----------------------------------------------------------------------------
(* Types.                                                                  *)

CallTypes ==
  /\ req \in [Call -> Request] /\ pc \in [Call -> {"start", "add", "done"}]
  /\ began \in [Call -> Nat] /\ was \in [Call -> BOOLEAN]
EmissionTypes ==
  /\ jobs \subseteq Job /\ crossed \subseteq User
  /\ told \in [User -> [User -> {"online", "offline"}]]

LEMMA EmitTyped ==
  ASSUME TypeOK, NEW who \in Call \cup Process, NEW u \in User,
         NEW kind \in {"online", "offline"}, Emit(who, u, kind)
  PROVE  jobs' \subseteq Job /\ crossed' \subseteq User
<1>1. Recipients[u] \in SUBSET User
  BY OnlineAssumption
<1>2. [by |-> who, user |-> u, kind |-> kind, todo |-> Recipients[u]] \in Job
  BY <1>1 DEF Job
<1> QED
  BY <1>2 DEF Emit, TypeOK

\* A goroutine with one recipient less is what it was otherwise.
LEMMA ShorterJob ==
  ASSUME NEW j \in Job, NEW w
  PROVE  /\ [j EXCEPT !.todo = @ \ {w}] \in Job
         /\ [j EXCEPT !.todo = @ \ {w}].todo = j.todo \ {w}
         /\ [j EXCEPT !.todo = @ \ {w}].user = j.user
         /\ [j EXCEPT !.todo = @ \ {w}].kind = j.kind
  BY DEF Job

LEMMA FaultTyped ==
  ASSUME TypeOK, Fault \/ Calm
  PROVE  faults' \in 0 .. MaxFaults
  BY OnlineAssumption DEF TypeOK, Fault, Calm

LEMMA TypeStep ==
  ASSUME TypeOK, [Next]_vars
  PROVE  TypeOK'
<1> USE DEF Gone
<1>1. CASE Tick
  BY <1>1, OnlineAssumption DEF Tick, TypeOK, calls
<1>2. ASSUME NEW k \in Call, ReadScore(k) PROVE TypeOK'
  <2>1. faults' \in 0 .. MaxFaults
    BY <1>2, FaultTyped DEF ReadScore
  <2>2. pc' \in [Call -> {"start", "add", "done"}] /\ began' \in [Call -> Nat]
    BY <1>2, OnlineAssumption DEF ReadScore, TypeOK
  <2>3. was' \in [Call -> BOOLEAN]
    <3>1. (score[req[k].user] # Gone /\ now - score[req[k].user] <= Ttl) \in BOOLEAN
      OBVIOUS
    <3>2. \E b \in BOOLEAN : was' = [was EXCEPT ![k] = b]
      BY <1>2, <3>1 DEF ReadScore
    <3> QED
      BY <3>2 DEF TypeOK
  <2> QED
    BY <1>2, <2>1, <2>2, <2>3 DEF ReadScore, TypeOK
<1>3. ASSUME NEW k \in Call, Touch(k) PROVE TypeOK'
  <2>1. faults' \in 0 .. MaxFaults /\ req[k].user \in User
    BY <1>3, FaultTyped DEF Touch, TypeOK, Request
  <2>2. jobs' \subseteq Job /\ crossed' \subseteq User
    BY <1>3, <2>1, EmitTyped DEF Touch, TypeOK
  <2>3. score' \in [User -> Nat \cup {Gone}] /\ awaiting' \subseteq User \X User
    BY <1>3, <2>1, OnlineAssumption DEF Touch, TypeOK
  <2> QED
    BY <1>3, <2>1, <2>2, <2>3 DEF Touch, TypeOK
<1>4. ASSUME NEW k \in Call, SetOffline(k) PROVE TypeOK'
  <2>1. faults' \in 0 .. MaxFaults /\ req[k].user \in User
    BY <1>4, FaultTyped DEF SetOffline, TypeOK, Request
  <2>2. jobs' \subseteq Job /\ crossed' \subseteq User
    BY <1>4, <2>1, EmitTyped DEF SetOffline
  <2> QED
    BY <1>4, <2>1, <2>2 DEF SetOffline, TypeOK
<1>5. ASSUME NEW j \in jobs, NEW w \in User, Tell(j, w) PROVE TypeOK'
  <2>1. faults' \in 0 .. MaxFaults
    BY <1>5, FaultTyped DEF Tell
  <2>2. j \in Job /\ j.user \in User /\ j.kind \in {"online", "offline"}
    BY DEF TypeOK, Job
  <2>3. jobs' \subseteq Job
    BY <1>5, <2>2, ShorterJob DEF Tell, TypeOK
  <2>4. told' \in [User -> [User -> {"online", "offline"}]]
    BY <1>5, <2>2 DEF Tell, TypeOK
  <2>5. awaiting' \subseteq User \X User
    BY <1>5 DEF Tell, TypeOK
  <2> QED
    BY <1>5, <2>1, <2>3, <2>4, <2>5 DEF Tell, TypeOK, calls
<1>6. ASSUME NEW p \in Process, checkExpiredUsers(p) PROVE TypeOK'
  <2>1. Expired \subseteq Item
    BY DEF Expired, Item, TypeOK
  <2> QED
    BY <1>6, <2>1 DEF checkExpiredUsers, TypeOK, calls
<1>7. ASSUME NEW p \in Process, Crash(p) PROVE TypeOK'
  <2>1. faults' \in 0 .. MaxFaults
    BY <1>7, FaultTyped DEF Crash
  <2>2. pc' \in [Call -> {"start", "add", "done"}] /\ jobs' \subseteq Job
    BY <1>7 DEF Crash, TypeOK
  <2> QED
    BY <1>7, <2>1, <2>2 DEF Crash, TypeOK
<1>8. ASSUME NEW p \in Process, NEW i \in items[p], Remove(p, i) PROVE TypeOK'
  <2>1. faults' \in 0 .. MaxFaults /\ i.user \in User
    BY <1>8, FaultTyped DEF Remove, TypeOK, Item
  <2>2. jobs' \subseteq Job /\ crossed' \subseteq User
    BY <1>8, <2>1, EmitTyped DEF Remove
  <2> QED
    BY <1>8, <2>1, <2>2 DEF Remove, TypeOK, calls
<1>9. CASE UNCHANGED vars
  BY <1>9 DEF vars, calls, TypeOK
<1> QED
  BY <1>1, <1>2, <1>3, <1>4, <1>5, <1>6, <1>7, <1>8, <1>9 DEF Next

\* Type correctness, for any users, calls, processes and requests, whatever
\* fails or crashes.
THEOREM TypeCorrect == Spec => []TypeOK
<1>1. Init => TypeOK
  BY OnlineAssumption DEF Init, TypeOK, Gone
<1>2. TypeOK /\ [Next]_vars => TypeOK'
  BY TypeStep
<1> QED
  BY <1>1, <1>2, PTL DEF Spec

-----------------------------------------------------------------------------
(* Agreement.  What a recipient will have been told in the end is what the *)
(* sorted set says: either an emission on its way to him says so, or he    *)
(* was last told so.  Agreement is the case without an emission.           *)

State(u) == IF score[u] = Gone THEN "offline" ELSE "online"

Settled(u) ==
  /\ \A j \in jobs : j.user = u => j.kind = State(u)
  /\ \A w \in Recipients[u] :
       \/ \E j \in jobs : j.user = u /\ w \in j.todo
       \/ told[w][u] = State(u)

AgreementInv == faults = 0 => \A u \in User \ crossed : Settled(u)

\* Nothing about u happens.
LEMMA SameSettled ==
  ASSUME NEW u \in User, Settled(u), UNCHANGED <<jobs, told>>, score'[u] = score[u]
  PROVE  Settled(u)'
  BY DEF Settled, State

\* An emission that says what the set says by now, and crosses no other.
LEMMA EmitSettled ==
  ASSUME TypeOK, NEW who \in Call \cup Process, NEW u \in User,
         NEW kind \in {"online", "offline"}, Emit(who, u, kind),
         State(u)' = kind, u \notin crossed'
  PROVE  Settled(u)'
<1> DEFINE new == [by |-> who, user |-> u, kind |-> kind, todo |-> Recipients[u]]
<1>1. \A j \in jobs : j.user = u => j.kind = kind
  BY DEF Emit
<1>2. new.user = u /\ new.kind = kind /\ new.todo = Recipients[u]
  OBVIOUS
<1>3. jobs' \subseteq jobs \cup {new}
  BY DEF Emit
<1>4. Recipients[u] # {} => new \in jobs'
  BY DEF Emit
<1> HIDE DEF new
<1>5. \A j \in jobs' : j.user = u => j.kind = kind
  BY <1>1, <1>2, <1>3
<1>6. ASSUME NEW w \in Recipients[u] PROVE \E j \in jobs' : j.user = u /\ w \in j.todo
  BY <1>2, <1>4
<1> QED
  BY <1>5, <1>6 DEF Settled

\* An emission about somebody else.
LEMMA EmitOther ==
  ASSUME TypeOK, NEW who \in Call \cup Process, NEW v \in User,
         NEW kind \in {"online", "offline"}, Emit(who, v, kind),
         NEW u \in User, u # v, Settled(u), score'[u] = score[u], UNCHANGED told
  PROVE  Settled(u)'
<1> DEFINE new == [by |-> who, user |-> v, kind |-> kind, todo |-> Recipients[v]]
<1>1. new.user = v /\ jobs' \subseteq jobs \cup {new} /\ jobs \subseteq jobs'
  BY DEF Emit
<1> HIDE DEF new
<1>2. \A j \in jobs' : j.user = u => j \in jobs
  BY <1>1
<1>3. State(u)' = State(u)
  BY DEF State
<1> QED
  BY <1>1, <1>2, <1>3 DEF Settled

LEMMA AgreementStep ==
  ASSUME TypeOK, AgreementInv, [Next]_vars
  PROVE  AgreementInv'
<1> SUFFICES ASSUME faults' = 0, NEW u \in User, u \notin crossed'
             PROVE  Settled(u)'
  BY DEF AgreementInv
<1>0. ~Fault
  BY DEF Fault, TypeOK
<1>1. faults = 0
  BY <1>0, OnlineAssumption
  DEF Next, Tick, ReadScore, Touch, SetOffline, Tell, checkExpiredUsers, Crash, Remove, Calm, vars
<1>2. u \notin crossed => Settled(u)
  BY <1>1 DEF AgreementInv
<1>3. ASSUME UNCHANGED <<jobs, told, score, crossed>> PROVE Settled(u)'
  BY <1>2, <1>3, SameSettled
<1>4. CASE Tick \/ (\E k \in Call : ReadScore(k)) \/ (\E p \in Process : checkExpiredUsers(p))
           \/ UNCHANGED vars
  BY <1>3, <1>4 DEF Tick, ReadScore, checkExpiredUsers, vars
<1>5. ASSUME NEW k \in Call, Touch(k) PROVE Settled(u)'
  <2> DEFINE v == req[k].user
  <2>1. v \in User /\ score' = [score EXCEPT ![v] = began[k]] /\ began[k] # Gone /\ told' = told
    BY <1>0, <1>5 DEF Touch, TypeOK, Request, Gone
  <2>2. CASE was[k] /\ req[k].kind # "force"
    <3>1. jobs' = jobs /\ crossed' = IF score[v] = Gone THEN crossed \cup {v} ELSE crossed
      BY <1>5, <2>2 DEF Touch
    <3>2. Settled(u) /\ State(u)' = State(u)
      BY <1>2, <2>1, <3>1 DEF State, TypeOK
    <3> QED
      BY <2>1, <3>1, <3>2 DEF Settled
  <2>3. CASE ~(was[k] /\ req[k].kind # "force")
    <3>1. Emit(k, v, "online")
      BY <1>5, <2>3 DEF Touch
    <3>2. CASE u = v
      <4>1. State(u)' = "online"
        BY <2>1, <3>2 DEF State, TypeOK
      <4> QED
        BY <2>1, <3>1, <3>2, <4>1, EmitSettled
    <3>3. CASE u # v
      <4>1. u \notin crossed /\ score'[u] = score[u]
        BY <2>1, <3>1, <3>3 DEF Emit, TypeOK
      <4> QED
        BY <1>2, <2>1, <3>1, <3>3, <4>1, EmitOther
    <3> QED
      BY <3>2, <3>3
  <2> QED
    BY <2>2, <2>3
\* The entry goes and everybody is told, whoever removed it.
<1>6. ASSUME NEW who \in Call \cup Process, NEW v \in User, Emit(who, v, "offline"),
             score' = [score EXCEPT ![v] = Gone], told' = told
      PROVE  Settled(u)'
  <2>1. CASE u = v
    <3>1. State(u)' = "offline"
      BY <1>6, <2>1 DEF State, TypeOK
    <3> QED
      BY <1>6, <2>1, <3>1, EmitSettled
  <2>2. CASE u # v
    <3>1. u \notin crossed /\ score'[u] = score[u]
      BY <1>6, <2>2 DEF Emit, TypeOK
    <3> QED
      BY <1>2, <1>6, <2>2, <3>1, EmitOther
  <2> QED
    BY <2>1, <2>2
<1>7. ASSUME NEW k \in Call, SetOffline(k) PROVE Settled(u)'
  BY <1>0, <1>6, <1>7 DEF SetOffline, TypeOK, Request
<1>8. ASSUME NEW p \in Process, NEW i \in items[p], Remove(p, i) PROVE Settled(u)'
  BY <1>0, <1>6, <1>8 DEF Remove, TypeOK, Item
<1>9. ASSUME NEW j \in jobs, NEW w \in User, Tell(j, w) PROVE Settled(u)'
  <2>1. /\ j \in Job /\ j.user \in User /\ score' = score /\ crossed' = crossed
        /\ told' = [told EXCEPT ![w][j.user] = j.kind]
    BY <1>0, <1>9 DEF Tell, TypeOK, Job
  <2>2. Settled(u) /\ State(u)' = State(u)
    BY <1>2, <2>1 DEF State
  <2> DEFINE less == [j EXCEPT !.todo = @ \ {w}]
  <2>3. /\ less.user = j.user /\ less.kind = j.kind /\ less.todo = j.todo \ {w}
        /\ jobs' = (jobs \ {j}) \cup (IF j.todo = {w} THEN {} ELSE {less})
    BY <1>9, <2>1, ShorterJob DEF Tell
  <2> HIDE DEF less
  <2>4. \A x \in jobs' : x.user = u => x.kind = State(u)
    BY <2>2, <2>3 DEF Settled
  <2>5. ASSUME NEW r \in Recipients[u]
        PROVE  (\E x \in jobs' : x.user = u /\ r \in x.todo) \/ told'[r][u] = State(u)
    <3>0. r \in User
      BY OnlineAssumption
    <3>1. CASE r = w /\ j.user = u
      BY <2>1, <2>2, <3>0, <3>1 DEF Settled, TypeOK
    <3>2. CASE ~(r = w /\ j.user = u)
      <4>1. told'[r][u] = told[r][u]
        BY <2>1, <3>0, <3>2 DEF TypeOK
      <4>2. ASSUME NEW x \in jobs, x.user = u, r \in x.todo
            PROVE  \E y \in jobs' : y.user = u /\ r \in y.todo
        <5>1. CASE x # j
          BY <2>3, <4>2, <5>1
        <5>2. CASE x = j
          <6>1. r # w /\ less \in jobs' /\ less.user = u /\ r \in less.todo
            BY <2>3, <3>2, <4>2, <5>2
          <6> QED
            BY <6>1
        <5> QED
          BY <5>1, <5>2
      <4> QED
        BY <2>2, <4>1, <4>2 DEF Settled
    <3> QED
      BY <3>1, <3>2
  <2> QED
    BY <2>2, <2>4, <2>5 DEF Settled
<1>10. ASSUME NEW p \in Process, Crash(p) PROVE FALSE
  BY <1>0, <1>10 DEF Crash
<1> QED
  BY <1>4, <1>5, <1>7, <1>8, <1>9, <1>10 DEF Next

\* What everybody was last told of a user is what the sorted set says, as soon
\* as nobody is being told about him, but for users whose opposite emissions
\* crossed or whose entry was removed under a call that had seen it: for any
\* users, calls, trackers and requests.  Late calls, renewals under a
\* tracker's ZREM and trackers that remove the same entry do not disturb it.
THEOREM OthersAgree == Spec => []Agreement
<1>1. Init => AgreementInv
  <2> SUFFICES ASSUME Init, NEW u \in User PROVE Settled(u)
    BY DEF AgreementInv
  <2>1. score[u] = Gone /\ jobs = {}
    BY DEF Init
  <2>2. \A w \in Recipients[u] : told[w][u] = "offline"
    BY OnlineAssumption DEF Init
  <2> QED
    BY <2>1, <2>2 DEF Settled, State
<1>2. TypeOK /\ AgreementInv /\ [Next]_vars => AgreementInv'
  BY AgreementStep
<1>3. AgreementInv => Agreement
  BY DEF AgreementInv, Agreement, Settled, State, Quiet
<1> QED
  BY <1>1, <1>2, <1>3, TypeCorrect, PTL DEF Spec
=============================================================================
