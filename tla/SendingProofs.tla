--------------------------- MODULE SendingProofs ---------------------------
(***************************************************************************)
(* Theorems about Sending for any members, calls, requests, expirations,   *)
(* failures and crashes: a random_id sends at most once for each life of   *)
(* its key, and what a call answers was sent.                              *)
(***************************************************************************)
EXTENDS Sending, PeerIdsProofs, FiniteSetTheorems, TLAPS

Point == {"start", "check", "get", "claim", "owner", "tx", "drop", "save", "spawn", "done", "dead"}

ChatIds == {GetInternalChatID(p, u) : p \in Peer, u \in Member}
Row == [rid : RidKey, chat : ChatIds]

\* The types that the theorems need.
StoreTypes == rows \in Seq(Row) /\ key \in [RidKey -> Int] /\ lapsed \in [RidKey -> Nat]
CallTypes ==
  /\ req \in Scenarios
  /\ pc \in [Call -> Point]
  /\ at \in [Call -> Nat] /\ \A k \in Call : at[k] \in DOMAIN req[k].peers
  /\ mid \in [Call -> Nat] /\ answers \in [Call -> Seq(Nat)]
Types == StoreTypes /\ CallTypes

-----------------------------------------------------------------------------
(* What a call is sending.                                                 *)

LEMMA RequestTyped ==
  ASSUME Types, NEW k \in Call
  PROVE  /\ req[k] \in Request /\ req[k].from \in Member
         /\ req[k].peers \in Seq(Peer) /\ Target(k) \in Peer
<1>1. req[k] \in Request
  BY SendingAssumption DEF Types, CallTypes
<1>2. req[k].from \in Member /\ req[k].peers \in Seq(Peer)
  BY <1>1 DEF Request
<1> QED
  BY <1>1, <1>2 DEF Types, CallTypes, Target

LEMMA RidTyped ==
  ASSUME Types, NEW k \in Call
  PROVE  Rid(k) \in RidKey /\ Rid(k)[1] = req[k].from /\ Rid(k)[2] = Target(k)
<1> DEFINE Own(q, o) == {RidOf(o, q[o], i) : i \in DOMAIN q[o].peers}
<1>1. Rid(k) \in Own(req, k)
  <2>1. at[k] \in DOMAIN req[k].peers
    BY DEF Types, CallTypes
  <2> QED
    BY <2>1, Zenon DEF Rid
<1>2. Own(req, k) \in {Own(q, o) : q \in Scenarios, o \in Call}
  <2> HIDE DEF Own
  <2> QED
    BY DEF Types, CallTypes
<1>3. RidKey = UNION {Own(q, o) : q \in Scenarios, o \in Call}
  BY DEF RidKey
<1>4. Rid(k) \in RidKey
  <2> HIDE DEF Own
  <2> QED
    BY <1>1, <1>2, <1>3
<1>5. ASSUME NEW a, NEW b, NEW c PROVE <<a, b, c>>[1] = a /\ <<a, b, c>>[2] = b
  OBVIOUS
<1>6. Rid(k)[1] = req[k].from /\ Rid(k)[2] = req[k].peers[at[k]]
  BY <1>5, Zenon DEF Rid, RidOf
<1> QED
  BY <1>4, <1>6 DEF Target

\* What Return does: the next peer, or the end.
LEMMA ReturnTyped ==
  ASSUME Types, NEW k \in Call, NEW n \in Nat, Return(k, n)
  PROVE  /\ answers' = [answers EXCEPT ![k] = Append(answers[k], n)]
         /\ \E p \in {"check", "done"} : pc' = [pc EXCEPT ![k] = p]
         /\ pc'[k] = "check" => at'[k] = at[k] + 1
         /\ at' \in [Call -> Nat] /\ \A o \in Call : at'[o] \in DOMAIN req[o].peers
         /\ \A o \in Call \ {k} : at'[o] = at[o]
         /\ UNCHANGED <<req, gone, mid>>
<1>1. /\ DOMAIN req[k].peers = 1 .. Len(req[k].peers) /\ Len(req[k].peers) \in Nat
      /\ at[k] \in Nat /\ at[k] >= 1 /\ at[k] <= Len(req[k].peers)
  BY RequestTyped DEF Types, CallTypes
<1>2. CASE at[k] < Len(req[k].peers)
  <2>1. at' = [at EXCEPT ![k] = at[k] + 1] /\ pc' = [pc EXCEPT ![k] = "check"]
    BY <1>2 DEF Return
  <2>2. at[k] + 1 \in DOMAIN req[k].peers
    BY <1>1, <1>2
  <2> QED
    BY <1>1, <2>1, <2>2 DEF Return, Types, CallTypes
<1>3. CASE ~(at[k] < Len(req[k].peers))
  <2>1. at' = at /\ pc' = [pc EXCEPT ![k] = "done"]
    BY <1>3 DEF Return
  <2> QED
    BY <1>1, <2>1 DEF Return, Types, CallTypes
<1> QED
  BY <1>2, <1>3

\* A call that moves on without an answer
LEMMA GotoTyped ==
  ASSUME Types, NEW k \in Call, NEW p \in Point, Goto(k, p)
  PROVE  /\ pc' = [pc EXCEPT ![k] = p] /\ UNCHANGED <<req, at, gone, mid, answers>>
         /\ pc' \in [Call -> Point]
  BY DEF Goto, Types, CallTypes

\* Every step of a call is one of these two, but for a refusal and a commit.
Moves(k) == (\E p \in Point : Goto(k, p)) \/ (\E n \in Nat : Return(k, n))
Sets(k) == UNCHANGED <<rows, key, lapsed>> \/ \E v \in Int : SetKey(k, v)

LEMMA MovesTyped ==
  ASSUME Types, NEW k \in Call, Moves(k)
  PROVE  CallTypes'
<1>1. ASSUME NEW p \in Point, Goto(k, p) PROVE CallTypes'
  BY <1>1, GotoTyped DEF Types, CallTypes
<1>2. ASSUME NEW n \in Nat, Return(k, n) PROVE CallTypes'
  <2>1. answers' \in [Call -> Seq(Nat)]
    <3>1. answers[k] \in Seq(Nat)
      BY DEF Types, CallTypes
    <3>2. Append(answers[k], n) \in Seq(Nat)
      BY <3>1
    <3>3. answers' = [answers EXCEPT ![k] = Append(answers[k], n)]
      BY <1>2, ReturnTyped
    <3> QED
      BY <3>2, <3>3 DEF Types, CallTypes
  <2>2. pc' \in [Call -> Point]
    BY <1>2, ReturnTyped DEF Types, CallTypes, Point
  <2> QED
    BY <1>2, <2>1, <2>2, ReturnTyped DEF Types, CallTypes
<1> QED
  BY <1>1, <1>2 DEF Moves

LEMMA SetsTyped ==
  ASSUME Types, NEW k \in Call, Sets(k)
  PROVE  StoreTypes'
<1>1. Rid(k) \in RidKey
  BY RidTyped
<1> QED
  BY <1>1 DEF Types, StoreTypes, Sets, SetKey

LEMMA StepMoves ==
  ASSUME Types, NEW k \in Call, Step(k) \/ Crash(k)
  PROVE  \/ Moves(k) /\ Sets(k)
         \/ Refuse(k) /\ UNCHANGED store
         \/ Commit(k) \/ CommitUnseen(k)
<1>1. Rid(k) \in RidKey /\ key[Rid(k)] \in Int /\ mid[k] \in Nat
  BY RidTyped DEF Types, StoreTypes, CallTypes
<1>2. CASE Validate(k) \/ ValidateFails(k)
  BY <1>2 DEF Validate, ValidateFails, Moves, Sets, Point, store
<1>3. CASE Check(k) \/ CheckFails(k)
  BY <1>3 DEF Check, CheckFails, Moves, Sets, Point, store
<1>4. CASE Lookup(k)
  BY <1>1, <1>4 DEF Lookup, Moves, Sets, Point, store
<1>5. CASE Claim(k)
  BY <1>5 DEF Claim, Moves, Sets, Point, store, Processing
<1>6. CASE Examine(k) \/ ExamineFails(k)
  BY <1>6 DEF Examine, ExamineFails, Proceed, Moves, Sets, Point, store
<1>7. CASE RollBack(k)
  BY <1>7 DEF RollBack, Moves, Sets, Point, store
<1>8. CASE Drop(k)
  BY <1>8 DEF Drop, Moves, Sets, Point, store, Missing
<1>9. CASE Save(k)
  BY <1>1, <1>9 DEF Save, Moves, Sets, Point, store
<1>10. CASE Spawn(k) \/ SpawnFails(k)
  BY <1>1, <1>10 DEF Spawn, SpawnFails, Moves, Sets, store
<1>11. CASE Crash(k)
  BY <1>11 DEF Crash, Moves, Sets, Point, store
<1> QED
  BY <1>2, <1>3, <1>4, <1>5, <1>6, <1>7, <1>8, <1>9, <1>10, <1>11 DEF Step, Failure

LEMMA CommitTyped ==
  ASSUME Types, NEW k \in Call, Commit(k) \/ CommitUnseen(k)
  PROVE  /\ Types'
         /\ Len(rows) \in Nat /\ Len(rows') = Len(rows) + 1
         /\ \A i \in DOMAIN rows : i \in DOMAIN rows' /\ rows'[i] = rows[i]
         /\ rows'[Len(rows) + 1].rid = Rid(k)
<1> DEFINE row == [rid |-> Rid(k), chat |-> GetInternalChatID(Target(k), req[k].from)]
<1>1. GetInternalChatID(Target(k), req[k].from) \in ChatIds
  BY RequestTyped DEF ChatIds
<1>2. row \in Row
  BY <1>1, RidTyped DEF Row
<1>3. /\ rows \in Seq(Row) /\ rows' = Append(rows, row)
      /\ key \in [RidKey -> Int] /\ lapsed \in [RidKey -> Nat] /\ UNCHANGED <<key, lapsed>>
  BY DEF Types, StoreTypes, Commit, CommitUnseen, Insert
<1>4. row.rid = Rid(k)
  OBVIOUS
<1> HIDE DEF row
<1>5. /\ rows' \in Seq(Row) /\ Len(rows) \in Nat /\ Len(rows') = Len(rows) + 1
      /\ \A i \in DOMAIN rows : i \in DOMAIN rows' /\ rows'[i] = rows[i]
      /\ rows'[Len(rows) + 1] = row
  BY <1>2, <1>3
<1>6. CallTypes'
  <2>1. CASE Commit(k)
    BY <1>5, <2>1 DEF Types, CallTypes, Commit, Point
  <2>2. CASE CommitUnseen(k)
    BY <2>2 DEF Types, CallTypes, CommitUnseen, Goto, Point
  <2> QED
    BY <2>1, <2>2
<1> QED
  BY <1>3, <1>4, <1>5, <1>6 DEF Types, StoreTypes

LEMMA TypesKept ==
  ASSUME Types, [Next]_vars
  PROVE  Types'
<1>1. ASSUME NEW k \in Call, Step(k) \/ Crash(k) PROVE Types'
  <2>1. CASE Moves(k) /\ Sets(k)
    BY <2>1, MovesTyped, SetsTyped DEF Types
  <2>2. CASE Refuse(k) /\ UNCHANGED store
    <3>1. <<0>> \in Seq(Nat)
      OBVIOUS
    <3> QED
      BY <2>2, <3>1 DEF Refuse, Types, StoreTypes, CallTypes, store, Point
  <2> QED
    BY <1>1, <2>1, <2>2, StepMoves, CommitTyped
<1>2. ASSUME UNCHANGED <<rows, req, pc, at, mid, answers, key, lapsed>> PROVE Types'
  BY <1>2 DEF Types, StoreTypes, CallTypes
<1>3. ASSUME NEW k \in Call, Disconnect(k) PROVE Types'
  BY <1>2, <1>3 DEF Disconnect, store
<1>4. ASSUME NEW j \in jobs, GiveUp(j) \/ \E u \in Member : Tell(j, u) PROVE Types'
  BY <1>2, <1>4 DEF GiveUp, Tell, store, calls
<1>5. ASSUME NEW r \in RidKey, Expire(r) PROVE Types'
  BY <1>5 DEF Expire, Types, StoreTypes, CallTypes, calls, Missing
<1>6. ASSUME NEW u \in Member, Leave(u) PROVE Types'
  BY <1>2, <1>6 DEF Leave, calls
<1>7. CASE UNCHANGED vars
  BY <1>2, <1>7 DEF vars, store, calls
<1> QED
  BY <1>1, <1>3, <1>4, <1>5, <1>6, <1>7 DEF Next

LEMMA InitTyped ==
  ASSUME Init
  PROVE  Types
<1>1. \A q \in Scenarios, k \in Call : q[k].peers \in Seq(Peer) /\ q[k].peers # << >>
  BY SendingAssumption DEF Request
<1>2. \A q \in Scenarios, k \in Call : 1 \in DOMAIN q[k].peers
  BY <1>1
<1> QED
  BY <1>2 DEF Init, Types, StoreTypes, CallTypes, Missing, Point

-----------------------------------------------------------------------------
(* Lives of keys.                                                          *)

Holding == {"owner", "tx", "drop"}
Holders(r) == {k \in Call : pc[k] \in Holding /\ Rid(k) = r}

\* The lives of a key, the present one included
Lives(r) == lapsed[r] + (IF key[r] = Missing THEN 0 ELSE 1)

\* The messages that their calls know they have sent
Known(r) == Sent(r) \ unseen

\* Every such message with a random_id, and every call that may still send one,
\* has a life of the key to itself.
Budget(r) ==
  /\ IsFiniteSet(Holders(r))
  /\ Cardinality(Known(r)) + Cardinality(Holders(r)) <= Lives(r)
LifeInv == \A r \in RidKey : Budget(r)

LEMMA SentFinite ==
  ASSUME Types, NEW r \in RidKey
  PROVE  IsFiniteSet(Sent(r)) /\ Cardinality(Sent(r)) \in Nat
<1>1. Sent(r) \subseteq 1 .. Len(rows) /\ Len(rows) \in Nat
  BY DEF Sent, Types, StoreTypes
<1>2. IsFiniteSet(1 .. Len(rows))
  BY <1>1, FS_Interval
<1> QED
  BY <1>1, <1>2, FS_Subset, FS_CardinalityType

LEMMA KnownFinite ==
  ASSUME Types, NEW r \in RidKey
  PROVE  IsFiniteSet(Known(r)) /\ Cardinality(Known(r)) \in Nat
  BY SentFinite, FS_Subset, FS_CardinalityType DEF Known

LEMMA LivesTyped ==
  ASSUME Types, NEW r \in RidKey
  PROVE  lapsed[r] \in Nat /\ Lives(r) \in Nat
  BY DEF Types, StoreTypes, Lives

LEMMA LivesTypedNext ==
  ASSUME Types', NEW r \in RidKey
  PROVE  Lives(r)' \in Nat
  BY DEF Types, StoreTypes, Lives

LEMMA RidStays ==
  ASSUME NEW o \in Call, req' = req, at'[o] = at[o]
  PROVE  Rid(o)' = Rid(o)
  BY DEF Rid, RidOf

\* Who moves: a call that comes to p, and what it holds.
Comes(k, p) == /\ pc' = [pc EXCEPT ![k] = p] /\ req' = req
               /\ \A o \in Call \ {k} : at'[o] = at[o]

LEMMA HoldersStay ==
  ASSUME Types, NEW k \in Call, NEW p \in Point, Comes(k, p),
         p \in Holding => pc[k] \in Holding /\ at'[k] = at[k], NEW r
  PROVE  Holders(r)' \subseteq Holders(r)
<1> SUFFICES ASSUME NEW o \in Call, pc'[o] \in Holding, Rid(o)' = r
             PROVE  o \in Holders(r)
  BY DEF Holders
<1>1. at'[o] = at[o] /\ pc[o] \in Holding
  BY DEF Comes, Types, CallTypes
<1> QED
  BY <1>1, RidStays DEF Holders, Comes

LEMMA HolderLeaves ==
  ASSUME Types, NEW k \in Call, NEW p \in Point, Comes(k, p),
         p \notin Holding, pc[k] \in Holding, NEW r, Rid(k) = r
  PROVE  k \in Holders(r) /\ Holders(r)' \subseteq Holders(r) \ {k}
<1>1. k \in Holders(r)
  BY DEF Holders
<1>2. Holders(r)' \subseteq Holders(r)
  BY HoldersStay
<1>3. k \notin Holders(r)'
  BY DEF Holders, Comes, Types, CallTypes
<1> QED
  BY <1>1, <1>2, <1>3

\* Nobody new holds the key, nothing new is known, and no life is lost.
LEMMA BudgetStays ==
  ASSUME Types, Types', NEW r \in RidKey, Budget(r),
         Known(r)' = Known(r), Holders(r)' \subseteq Holders(r), Lives(r)' >= Lives(r)
  PROVE  Budget(r)'
<1>1. /\ IsFiniteSet(Holders(r)') /\ Cardinality(Holders(r)') <= Cardinality(Holders(r))
      /\ Cardinality(Holders(r)') \in Nat /\ Cardinality(Holders(r)) \in Nat
  BY FS_Subset, FS_CardinalityType DEF Budget
<1>2. Cardinality(Known(r)) \in Nat
  BY KnownFinite
<1>3. Lives(r) \in Nat /\ Lives(r)' \in Nat
  BY LivesTyped, LivesTypedNext
<1> QED
  BY <1>1, <1>2, <1>3 DEF Budget

\* A holder goes, and with him at most one life.
LEMMA BudgetLeave ==
  ASSUME Types, Types', NEW r \in RidKey, Budget(r), NEW k \in Holders(r),
         Holders(r)' \subseteq Holders(r) \ {k},
         \/ Known(r)' = Known(r) /\ Lives(r)' + 1 >= Lives(r)
         \/ (\E i : Known(r)' \subseteq Known(r) \cup {i}) /\ Lives(r)' >= Lives(r)
  PROVE  Budget(r)'
<1>1. /\ IsFiniteSet(Holders(r) \ {k})
      /\ Cardinality(Holders(r) \ {k}) = Cardinality(Holders(r)) - 1
      /\ Cardinality(Holders(r)) \in Nat
  BY FS_RemoveElement, FS_CardinalityType DEF Budget
<1>2. /\ IsFiniteSet(Holders(r)') /\ Cardinality(Holders(r)') <= Cardinality(Holders(r)) - 1
      /\ Cardinality(Holders(r)') \in Nat
  BY <1>1, FS_Subset, FS_CardinalityType
<1>3. /\ Lives(r) \in Nat /\ Lives(r)' \in Nat
      /\ Cardinality(Known(r)) \in Nat /\ IsFiniteSet(Known(r))
  BY LivesTyped, LivesTypedNext, KnownFinite
<1>4. CASE Known(r)' = Known(r) /\ Lives(r)' + 1 >= Lives(r)
  BY <1>1, <1>2, <1>3, <1>4 DEF Budget
<1>5. ASSUME NEW i, Known(r)' \subseteq Known(r) \cup {i}, Lives(r)' >= Lives(r)
      PROVE  Budget(r)'
  <2>1. /\ IsFiniteSet(Known(r) \cup {i})
        /\ Cardinality(Known(r) \cup {i}) \in Nat
        /\ Cardinality(Known(r) \cup {i}) <= Cardinality(Known(r)) + 1
    BY <1>3, FS_AddElement, FS_CardinalityType
  <2>2. Cardinality(Known(r)') <= Cardinality(Known(r) \cup {i}) /\ Cardinality(Known(r)') \in Nat
    BY <1>5, <2>1, FS_Subset, FS_CardinalityType
  <2> QED
    BY <1>1, <1>2, <1>3, <1>5, <2>1, <2>2 DEF Budget
<1> QED
  BY <1>4, <1>5

\* A holder comes, with a new life.
LEMMA BudgetCome ==
  ASSUME Types, Types', NEW r \in RidKey, Budget(r), NEW k,
         Known(r)' = Known(r), Holders(r)' \subseteq Holders(r) \cup {k},
         Lives(r)' = Lives(r) + 1
  PROVE  Budget(r)'
<1>1. /\ IsFiniteSet(Holders(r) \cup {k})
      /\ Cardinality(Holders(r) \cup {k}) <= Cardinality(Holders(r)) + 1
      /\ Cardinality(Holders(r) \cup {k}) \in Nat
      /\ Cardinality(Holders(r)) \in Nat
  <2>1. IsFiniteSet(Holders(r)) /\ Cardinality(Holders(r)) \in Nat
    BY FS_CardinalityType DEF Budget
  <2> DEFINE S == Holders(r)
  <2> HIDE DEF S
  <2>2. IsFiniteSet(S) => /\ IsFiniteSet(S \cup {k})
                          /\ Cardinality(S \cup {k}) = IF k \in S THEN Cardinality(S) ELSE Cardinality(S) + 1
    BY FS_AddElement, Zenon
  <2> QED
    BY <2>1, <2>2 DEF S
<1>2. /\ IsFiniteSet(Holders(r)') /\ Cardinality(Holders(r)') \in Nat
      /\ Cardinality(Holders(r)') <= Cardinality(Holders(r) \cup {k})
  BY <1>1, FS_Subset, FS_CardinalityType
<1>3. Cardinality(Known(r)) \in Nat
  BY KnownFinite
<1>4. Lives(r) \in Nat
  BY LivesTyped
<1> QED
  BY <1>1, <1>2, <1>3, <1>4 DEF Budget
-----------------------------------------------------------------------------
(* What is answered.                                                       *)

Settled == {"save", "spawn"}
Ended == {"done", "dead"}

\* Message n was sent with the key r.
Names(n, r) == n \in DOMAIN rows /\ rows[n].rid = r

\* AnswersAreSent, and where the answers come from: there is one for each peer
\* before the present one, and a finished key and a committed call name a
\* message of that key.
SentInv ==
  /\ AnswersAreSent
  /\ \A k \in Call : pc[k] \notin Ended => Len(answers[k]) = at[k] - 1
  /\ \A k \in Call : pc[k] \in Settled => Names(mid[k], Rid(k))
  /\ \A r \in RidKey : key[r] > 0 => Names(key[r], r)

\* A step of a call that is under way: to a point that it may come to, or back
\* with an answer that names a message of its key.
Orderly(k) ==
  \/ \E p \in Point : /\ Goto(k, p) /\ (p \in Settled => pc[k] \in Settled)
                      /\ pc[k] \in Ended => p \in Ended
  \/ \E n \in Nat : Return(k, n) /\ pc[k] \notin Ended /\ (n = 0 \/ Names(n, Rid(k)))

LEMMA OrderlySent ==
  ASSUME Types, Types', SentInv, NEW k \in Call, rows' = rows, Orderly(k),
         \A r \in RidKey : key'[r] > 0 => Names(key'[r], r)
  PROVE  SentInv'
<1>1. \A r \in RidKey : (key[r] > 0 => Names(key[r], r))'
  BY DEF Names
<1>2. ASSUME NEW p \in Point, Goto(k, p), p \in Settled => pc[k] \in Settled,
             pc[k] \in Ended => p \in Ended
      PROVE  SentInv'
  <2>1. pc' = [pc EXCEPT ![k] = p] /\ UNCHANGED <<req, at, mid, answers>>
    BY <1>2 DEF Goto
  <2>2. AnswersAreSent'
    BY <2>1 DEF SentInv, AnswersAreSent
  <2>3. \A o \in Call : pc'[o] \notin Ended => Len(answers'[o]) = at'[o] - 1
    BY <1>2, <2>1 DEF SentInv, Types, CallTypes
  <2>4. ASSUME NEW o \in Call, pc'[o] \in Settled PROVE Names(mid[o], Rid(o))'
    <3>1. pc[o] \in Settled
      BY <1>2, <2>1, <2>4 DEF Types, CallTypes
    <3>2. Rid(o)' = Rid(o)
      BY <2>1, RidStays
    <3> QED
      BY <2>1, <3>1, <3>2 DEF SentInv, Names
  <2> QED
    BY <1>1, <2>2, <2>3, <2>4 DEF SentInv
<1>3. ASSUME NEW n \in Nat, Return(k, n), pc[k] \notin Ended, n = 0 \/ Names(n, Rid(k))
      PROVE  SentInv'
  <2>1. /\ answers' = [answers EXCEPT ![k] = Append(answers[k], n)]
        /\ answers[k] \in Seq(Nat) /\ Len(answers[k]) = at[k] - 1
        /\ Len(answers[k]) \in Nat /\ at[k] \in Nat
    BY <1>3, ReturnTyped DEF SentInv, Types, CallTypes
  <2>2. /\ req' = req /\ mid' = mid /\ \A o \in Call \ {k} : at'[o] = at[o]
        /\ pc'[k] = "check" => at'[k] = at[k] + 1
    BY <1>3, ReturnTyped
  <2>3. pc'[k] \in {"check", "done"} /\ \A o \in Call \ {k} : pc'[o] = pc[o]
    BY <1>3, ReturnTyped DEF Types, CallTypes
  <2>4. ASSUME NEW i \in DOMAIN answers'[k], answers'[k][i] # 0
        PROVE  /\ answers'[k][i] \in DOMAIN rows
               /\ rows[answers'[k][i]].rid[1] = req[k].from
               /\ rows[answers'[k][i]].rid[2] = req[k].peers[i]
    <3>1. CASE i = at[k]
      <4>1. answers'[k][i] = n
        BY <2>1, <3>1 DEF Types, CallTypes
      <4> QED
        BY <1>3, <2>4, <3>1, <4>1, RidTyped DEF Names, Target
    <3>2. CASE i # at[k]
      <4>1. i \in DOMAIN answers[k] /\ answers'[k][i] = answers[k][i]
        BY <2>1, <2>4, <3>2 DEF Types, CallTypes
      <4> QED
        BY <2>4, <4>1 DEF SentInv, AnswersAreSent
    <3> QED
      BY <3>1, <3>2
  <2>5. AnswersAreSent'
    <3>1. \A o \in Call \ {k} : answers'[o] = answers[o]
      BY <2>1 DEF Types, CallTypes
    <3> QED
      BY <2>2, <2>4, <3>1 DEF SentInv, AnswersAreSent
  <2>6. ASSUME NEW o \in Call, pc'[o] \notin Ended PROVE Len(answers'[o]) = at'[o] - 1
    <3>1. CASE o = k
      <4>1. pc'[k] = "check"
        BY <2>3, <2>6, <3>1 DEF Ended
      <4>2. Len(answers'[k]) = Len(answers[k]) + 1
        BY <2>1 DEF Types, CallTypes
      <4> QED
        BY <2>1, <2>2, <3>1, <4>1, <4>2
    <3>2. CASE o # k
      BY <2>1, <2>2, <2>3, <2>6, <3>2 DEF SentInv, Types, CallTypes
    <3> QED
      BY <3>1, <3>2
  <2>7. ASSUME NEW o \in Call, pc'[o] \in Settled PROVE Names(mid[o], Rid(o))'
    <3>1. o # k /\ pc[o] \in Settled
      BY <2>3, <2>7 DEF Settled
    <3>2. Rid(o)' = Rid(o)
      BY <2>2, <3>1, RidStays
    <3> QED
      BY <2>2, <3>1, <3>2 DEF SentInv, Names
  <2> QED
    BY <1>1, <2>5, <2>6, <2>7 DEF SentInv
<1> QED
  BY <1>2, <1>3 DEF Orderly
LEMMA SetKeeps ==
  ASSUME Types, NEW k \in Call, NEW v \in Int, SetKey(k, v)
  PROVE  /\ rows' = rows /\ lapsed' = lapsed
         /\ \A r \in RidKey : key'[r] = IF r = Rid(k) THEN v ELSE key[r]
  BY RidTyped DEF SetKey, Types, StoreTypes

LEMMA CommitSent ==
  ASSUME Types, Types', SentInv, NEW k \in Call, Commit(k) \/ CommitUnseen(k)
  PROVE  SentInv'
<1> DEFINE n == Len(rows) + 1
<1>1. /\ \A i \in DOMAIN rows : i \in DOMAIN rows' /\ rows'[i] = rows[i]
      /\ n \in DOMAIN rows' /\ rows'[n].rid = Rid(k)
  <2>1. rows' \in Seq(Row)
    BY DEF Types, StoreTypes
  <2> QED
    BY <2>1, CommitTyped
<1>2. /\ UNCHANGED <<key, req, at, answers>> /\ pc[k] = "tx"
      /\ \/ mid' = [mid EXCEPT ![k] = n] /\ pc' = [pc EXCEPT ![k] = "save"]
         \/ mid' = mid /\ pc' = [pc EXCEPT ![k] = "drop"]
  BY DEF Commit, CommitUnseen, Insert, Goto, At
<1> HIDE DEF n
<1>3. AnswersAreSent'
  BY <1>1, <1>2 DEF SentInv, AnswersAreSent
<1>4. \A o \in Call : pc'[o] \notin Ended => Len(answers'[o]) = at'[o] - 1
  BY <1>2 DEF SentInv, Ended, Types, CallTypes
<1>5. ASSUME NEW o \in Call, pc'[o] \in Settled PROVE Names(mid[o], Rid(o))'
  <2>1. Rid(o)' = Rid(o)
    BY <1>2, RidStays
  <2>2. CASE o = k
    BY <1>1, <1>2, <1>5, <2>1, <2>2 DEF Names, Types, CallTypes, Settled
  <2>3. CASE o # k
    BY <1>1, <1>2, <1>5, <2>1, <2>3 DEF SentInv, Names, Types, CallTypes
  <2> QED
    BY <2>2, <2>3
<1>6. \A r \in RidKey : (key[r] > 0 => Names(key[r], r))'
  BY <1>1, <1>2 DEF SentInv, Names
<1> QED
  BY <1>3, <1>4, <1>5, <1>6 DEF SentInv

LEMMA RefusedSent ==
  ASSUME Types, Types', SentInv, NEW k \in Call, Refuse(k), UNCHANGED store
  PROVE  SentInv'
<1>1. /\ UNCHANGED <<req, at, mid, rows, key>>
      /\ pc' = [pc EXCEPT ![k] = "done"] /\ answers' = [answers EXCEPT ![k] = <<0>>]
  BY DEF store, Refuse
<1>2. AnswersAreSent'
  <2>1. \A i \in DOMAIN <<0>> : <<0>>[i] = 0
    OBVIOUS
  <2>2. \A o \in Call : answers'[o] = IF o = k THEN <<0>> ELSE answers[o]
    BY <1>1 DEF Types, CallTypes
  <2> QED
    BY <1>1, <2>1, <2>2 DEF SentInv, AnswersAreSent
<1>3. \A o \in Call : pc'[o] \notin Ended => Len(answers'[o]) = at'[o] - 1
  BY <1>1 DEF SentInv, Ended, Types, CallTypes
<1>4. ASSUME NEW o \in Call, pc'[o] \in Settled PROVE Names(mid[o], Rid(o))'
  <2>1. Rid(o)' = Rid(o)
    BY <1>1, RidStays
  <2>2. o # k /\ pc[o] \in Settled
    BY <1>1, <1>4 DEF Settled, Types, CallTypes
  <2> QED
    BY <1>1, <2>1, <2>2 DEF SentInv, Names
<1>5. \A r \in RidKey : (key[r] > 0 => Names(key[r], r))'
  BY <1>1 DEF SentInv, Names
<1> QED
  BY <1>2, <1>3, <1>4, <1>5 DEF SentInv

\* What a step of a call does to the keys never makes one name another message.
LEMMA StepSent ==
  ASSUME Types, Types', SentInv, NEW k \in Call, Step(k) \/ Crash(k)
  PROVE  SentInv'
<1>1. Rid(k) \in RidKey /\ key[Rid(k)] \in Int /\ mid[k] \in Nat
  BY RidTyped DEF Types, StoreTypes, CallTypes
<1>2. ASSUME UNCHANGED store, Orderly(k) PROVE SentInv'
  BY <1>2, OrderlySent DEF store, SentInv
<1>3. ASSUME NEW v \in Int, SetKey(k, v), Orderly(k), v > 0 => Names(v, Rid(k)) PROVE SentInv'
  BY <1>3, SetKeeps, OrderlySent DEF SentInv
<1>4. CASE Validate(k) \/ ValidateFails(k)
  <2>1. CASE Goto(k, "check")
    BY <1>2, <1>4, <2>1 DEF Validate, ValidateFails, At, Orderly, Point, Settled, Ended
  <2>2. CASE Refuse(k)
    BY <1>4, <2>2, RefusedSent DEF Validate, ValidateFails, store
  <2> QED
    BY <1>4, <2>1, <2>2 DEF Validate, ValidateFails
<1>5. CASE Check(k) \/ CheckFails(k)
  BY <1>2, <1>5 DEF Check, CheckFails, At, Orderly, Point, Settled, Ended
<1>6. CASE Lookup(k)
  <2>1. Orderly(k)
    BY <1>1, <1>6 DEF Lookup, At, Orderly, Point, Settled, Ended, SentInv
  <2> QED
    BY <1>2, <1>6, <2>1 DEF Lookup
<1>7. CASE Claim(k)
  <2>1. Orderly(k)
    BY <1>7 DEF Claim, At, Orderly, Point, Settled, Ended
  <2>2. UNCHANGED store \/ SetKey(k, Processing)
    BY <1>7 DEF Claim
  <2> QED
    BY <1>2, <1>3, <2>1, <2>2 DEF Processing
<1>8. CASE Examine(k) \/ ExamineFails(k)
  BY <1>2, <1>8 DEF Examine, ExamineFails, Proceed, At, Orderly, Point, Settled, Ended
<1>9. CASE Commit(k) \/ CommitUnseen(k)
  BY <1>9, CommitSent
<1>10. CASE RollBack(k)
  BY <1>2, <1>10 DEF RollBack, At, Orderly, Point, Settled, Ended
<1>11. CASE Drop(k)
  <2>1. Orderly(k)
    BY <1>11 DEF Drop, At, Orderly, Ended
  <2>2. UNCHANGED store \/ SetKey(k, Missing)
    BY <1>11 DEF Drop
  <2> QED
    BY <1>2, <1>3, <2>1, <2>2 DEF Missing
<1>12. CASE Save(k)
  <2>1. Orderly(k)
    BY <1>12 DEF Save, At, Orderly, Point, Settled, Ended
  <2>2. UNCHANGED store \/ SetKey(k, mid[k])
    BY <1>12 DEF Save
  <2>3. Names(mid[k], Rid(k))
    BY <1>12 DEF Save, At, SentInv, Settled
  <2> QED
    BY <1>1, <1>2, <1>3, <2>1, <2>2, <2>3
<1>13. CASE Spawn(k) \/ SpawnFails(k)
  <2>1. Names(mid[k], Rid(k))
    BY <1>13 DEF Spawn, SpawnFails, At, SentInv, Settled
  <2>2. Orderly(k)
    BY <1>1, <1>13, <2>1 DEF Spawn, SpawnFails, At, Orderly, Ended
  <2> QED
    BY <1>2, <1>13, <2>2 DEF Spawn, SpawnFails
<1>14. CASE Crash(k)
  BY <1>2, <1>14 DEF Crash, At, Orderly, Point, Settled, Ended
<1> QED
  BY <1>4, <1>5, <1>6, <1>7, <1>8, <1>9, <1>10, <1>11, <1>12, <1>13, <1>14 DEF Step, Failure
-----------------------------------------------------------------------------
(* The steps and the lives of keys.                                        *)

\* A step of a call that comes to hold nothing.
Quiet(k) ==
  \/ \E p \in Point : Goto(k, p) /\ (p \in Holding => pc[k] \in Holding)
  \/ \E n \in Nat : Return(k, n)

LEMMA QuietHolders ==
  ASSUME Types, NEW k \in Call, Quiet(k), NEW r
  PROVE  Holders(r)' \subseteq Holders(r)
<1>1. ASSUME NEW p \in Point, Goto(k, p), p \in Holding => pc[k] \in Holding
      PROVE  Holders(r)' \subseteq Holders(r)
  BY <1>1, HoldersStay DEF Goto, Comes
<1>2. ASSUME NEW n \in Nat, Return(k, n)
      PROVE  Holders(r)' \subseteq Holders(r)
  <2>1. PICK p \in {"check", "done"} : pc' = [pc EXCEPT ![k] = p]
    BY <1>2, ReturnTyped
  <2>2. Comes(k, p)
    BY <1>2, <2>1, ReturnTyped DEF Comes
  <2> QED
    BY <2>2, HoldersStay DEF Point, Holding
<1> QED
  BY <1>1, <1>2 DEF Quiet

LEMMA KnownStay ==
  ASSUME UNCHANGED <<rows, unseen>>, NEW r
  PROVE  Known(r)' = Known(r)
  BY DEF Known, Sent

LEMMA QuietLife ==
  ASSUME Types, Types', LifeInv, NEW k \in Call, Quiet(k), UNCHANGED <<rows, unseen>>,
         \A r \in RidKey : Lives(r)' >= Lives(r)
  PROVE  LifeInv'
  BY QuietHolders, KnownStay, BudgetStays DEF LifeInv

LEMMA SetLives ==
  ASSUME Types, NEW k \in Call, NEW v \in Int, SetKey(k, v)
  PROVE  /\ rows' = rows
         /\ \A r \in RidKey :
              Lives(r)' = IF r = Rid(k) THEN lapsed[r] + (IF v = Missing THEN 0 ELSE 1)
                          ELSE Lives(r)
  BY SetKeeps DEF Lives

LEMMA SameLives ==
  ASSUME Types, UNCHANGED store
  PROVE  rows' = rows /\ \A r \in RidKey : Lives(r)' = Lives(r) /\ Lives(r) \in Nat
  BY LivesTyped DEF store, Lives

\* SETNX that wins: a life for a holder.
LEMMA ClaimLife ==
  ASSUME Types, Types', LifeInv, NEW k \in Call, At(k, "claim"), key[Rid(k)] = Missing,
         SetKey(k, Processing), Goto(k, "owner"), unseen' = unseen
  PROVE  LifeInv'
<1> SUFFICES ASSUME NEW r \in RidKey PROVE Budget(r)'
  BY DEF LifeInv
<1>1. Known(r)' = Known(r) /\ Processing \in Int /\ Processing # Missing
  BY KnownStay DEF SetKey, Processing, Missing
<1>2. Holders(r)' \subseteq Holders(r) \cup {o \in Call : o = k /\ Rid(k)' = r}
  BY DEF Holders, Goto, Rid, Types, CallTypes
<1>3. Rid(k)' = Rid(k)
  BY RidStays DEF Goto
<1>4. Budget(r) /\ lapsed[r] \in Nat
  BY LivesTyped DEF LifeInv
<1>5. CASE r = Rid(k)
  <2>1. Lives(r)' = Lives(r) + 1
    BY <1>1, <1>4, <1>5, SetLives DEF Lives
  <2>2. Holders(r)' \subseteq Holders(r) \cup {k}
    BY <1>2
  <2> QED
    BY <1>1, <1>4, <2>1, <2>2, BudgetCome
<1>6. CASE r # Rid(k)
  <2>1. Lives(r)' = Lives(r) /\ Lives(r) \in Nat
    BY <1>1, <1>6, SetLives, LivesTyped
  <2>2. Holders(r)' \subseteq Holders(r)
    BY <1>2, <1>3, <1>6
  <2> QED
    BY <1>1, <1>4, <2>1, <2>2, BudgetStays
<1> QED
  BY <1>5, <1>6

\* The message takes over the life of the call that has sent it.
LEMMA CommitLife ==
  ASSUME Types, Types', LifeInv, NEW k \in Call, Commit(k)
  PROVE  LifeInv'
<1> SUFFICES ASSUME NEW r \in RidKey PROVE Budget(r)'
  BY DEF LifeInv
<1>1. /\ UNCHANGED <<key, lapsed, req, at, unseen>>
      /\ pc' = [pc EXCEPT ![k] = "save"] /\ pc[k] = "tx"
  BY DEF Commit, Insert, At, notes
<1>2. Comes(k, "save") /\ "save" \in Point /\ "save" \notin Holding /\ pc[k] \in Holding
  BY <1>1 DEF Comes, Point, Holding
<1>3. Lives(r)' = Lives(r) /\ Lives(r) \in Nat /\ Budget(r)
  BY <1>1, LivesTyped DEF Lives, LifeInv
<1>4. \A i \in DOMAIN rows' \ DOMAIN rows : i = Len(rows) + 1
  <2>1. rows' \in Seq(Row) /\ rows \in Seq(Row)
    BY DEF Types, StoreTypes
  <2> QED
    BY <2>1, CommitTyped
<1>5. CASE r = Rid(k)
  <2>1. Known(r)' \subseteq Known(r) \cup {Len(rows) + 1}
    BY <1>1, <1>4, CommitTyped DEF Known, Sent
  <2>2. k \in Holders(r) /\ Holders(r)' \subseteq Holders(r) \ {k}
    BY <1>2, <1>5, HolderLeaves
  <2>3. \E i : Known(r)' \subseteq Known(r) \cup {i}
    BY <2>1
  <2>4. Lives(r)' >= Lives(r)
    BY <1>3
  <2> QED
    BY <1>3, <2>2, <2>3, <2>4, BudgetLeave
<1>6. CASE r # Rid(k)
  <2>1. Known(r)' = Known(r)
    BY <1>1, <1>4, <1>6, CommitTyped DEF Known, Sent
  <2>2. Holders(r)' \subseteq Holders(r)
    BY <1>2, HoldersStay
  <2>3. Lives(r)' >= Lives(r)
    BY <1>3
  <2> QED
    BY <1>3, <2>1, <2>2, <2>3, BudgetStays
<1> QED
  BY <1>5, <1>6

\* A message that its call does not know of leaves the call its life.
LEMMA UnseenLife ==
  ASSUME Types, Types', LifeInv, NEW k \in Call, CommitUnseen(k)
  PROVE  LifeInv'
<1> SUFFICES ASSUME NEW r \in RidKey PROVE Budget(r)'
  BY DEF LifeInv
<1>1. /\ UNCHANGED <<key, lapsed>> /\ Goto(k, "drop") /\ pc[k] = "tx"
      /\ unseen' = unseen \cup {Len(rows) + 1}
  BY DEF CommitUnseen, Insert, At
<1>2. rows' \in Seq(Row) /\ rows \in Seq(Row)
  BY DEF Types, StoreTypes
<1>3. Known(r)' = Known(r)
  <2>1. DOMAIN rows' = DOMAIN rows \cup {Len(rows) + 1} /\ Len(rows) + 1 \notin DOMAIN rows
    <3>1. /\ DOMAIN rows = 1 .. Len(rows) /\ DOMAIN rows' = 1 .. Len(rows')
          /\ Len(rows) \in Nat /\ Len(rows') = Len(rows) + 1
      BY <1>2, CommitTyped
    <3> QED
      BY <3>1
  <2> QED
    BY <1>1, <2>1, CommitTyped DEF Known, Sent
<1>4. Holders(r)' \subseteq Holders(r)
  BY <1>1, HoldersStay DEF Goto, Comes, Point, Holding
<1>5. Lives(r)' >= Lives(r) /\ Budget(r)
  BY <1>1, LivesTyped DEF Lives, LifeInv
<1> QED
  BY <1>3, <1>4, <1>5, BudgetStays

\* DEL: whoever's life it ends, the call's own share of it is free.
LEMMA DropLife ==
  ASSUME Types, Types', LifeInv, NEW k \in Call, At(k, "drop"),
         SetKey(k, Missing), Return(k, 0), unseen' = unseen
  PROVE  LifeInv'
<1> SUFFICES ASSUME NEW r \in RidKey PROVE Budget(r)'
  BY DEF LifeInv
<1>1. Known(r)' = Known(r) /\ Missing \in Int
  BY KnownStay DEF SetKey, Missing
<1>2. PICK p \in {"check", "done"} : Comes(k, p)
  BY ReturnTyped DEF Comes
<1>3. p \in Point /\ p \notin Holding /\ pc[k] \in Holding
  BY DEF Point, Holding, At
<1>4. Budget(r) /\ lapsed[r] \in Nat /\ Lives(r) \in Nat
  BY LivesTyped DEF LifeInv
<1>5. CASE r = Rid(k)
  <2>1. Lives(r)' + 1 >= Lives(r)
    BY <1>1, <1>4, <1>5, SetLives DEF Lives
  <2>2. k \in Holders(r) /\ Holders(r)' \subseteq Holders(r) \ {k}
    BY <1>2, <1>3, <1>5, HolderLeaves
  <2> QED
    BY <1>1, <1>4, <2>1, <2>2, BudgetLeave
<1>6. CASE r # Rid(k)
  <2>1. Lives(r)' >= Lives(r)
    BY <1>1, <1>4, <1>6, SetLives
  <2>2. Holders(r)' \subseteq Holders(r)
    BY <1>2, <1>3, HoldersStay
  <2> QED
    BY <1>1, <1>4, <2>1, <2>2, BudgetStays
<1> QED
  BY <1>5, <1>6

LEMMA StepLife ==
  ASSUME Types, Types', SentInv, LifeInv, NEW k \in Call, Step(k) \/ Crash(k)
  PROVE  LifeInv'
<1>1. Rid(k) \in RidKey /\ key[Rid(k)] \in Int /\ mid[k] \in Nat /\ Len(rows) \in Nat
  BY RidTyped DEF Types, StoreTypes, CallTypes
<1>2. ASSUME UNCHANGED store, Quiet(k), unseen' = unseen PROVE LifeInv'
  BY <1>2, SameLives, QuietLife
<1>3. ASSUME NEW v \in Int, v # Missing, SetKey(k, v), Quiet(k), unseen' = unseen PROVE LifeInv'
  <2>1. \A r \in RidKey : lapsed[r] \in Nat /\ Lives(r) \in Nat /\ Lives(r) <= lapsed[r] + 1
    BY LivesTyped DEF Lives
  <2> QED
    BY <1>3, <2>1, SetLives, QuietLife
<1>4. CASE Validate(k) \/ ValidateFails(k)
  <2>0. UNCHANGED <<store, notes>>
    BY <1>4 DEF Validate, ValidateFails, store, notes
  <2>1. CASE Goto(k, "check")
    BY <1>2, <2>0, <2>1 DEF Quiet, Point, Holding, notes
  <2>2. CASE Refuse(k)
    <3>1. Comes(k, "done")
      BY <2>2 DEF Refuse, Comes
    <3>2. \A r \in RidKey : Holders(r)' \subseteq Holders(r)
      BY <3>1, HoldersStay DEF Point, Holding
    <3>3. \A r \in RidKey : Known(r)' = Known(r)
      BY <2>0, KnownStay DEF store, notes
    <3> QED
      BY <2>0, <3>2, <3>3, SameLives, BudgetStays DEF LifeInv
  <2> QED
    BY <1>4, <2>1, <2>2 DEF Validate, ValidateFails
<1>5. CASE Check(k) \/ CheckFails(k)
  BY <1>2, <1>5 DEF Check, CheckFails, Quiet, Point, Holding, notes
<1>6. CASE Lookup(k)
  BY <1>1, <1>2, <1>6 DEF Lookup, Quiet, Point, Holding, notes
<1>7. CASE Claim(k)
  <2>0. unseen' = unseen
    BY <1>7 DEF Claim, notes
  <2>1. CASE key[Rid(k)] = Missing /\ SetKey(k, Processing) /\ Goto(k, "owner")
    BY <1>7, <2>0, <2>1, ClaimLife DEF Claim
  <2>2. CASE SetKey(k, Processing) /\ Return(k, 0)
    BY <1>3, <2>0, <2>2 DEF Processing, Missing, Quiet
  <2>3. CASE UNCHANGED store /\ Return(k, 0)
    BY <1>2, <2>0, <2>3 DEF Quiet
  <2> QED
    BY <1>7, <2>1, <2>2, <2>3 DEF Claim
<1>8. CASE Examine(k) \/ ExamineFails(k)
  BY <1>2, <1>8 DEF Examine, ExamineFails, Proceed, At, Quiet, Point, Holding, notes
<1>9. CASE Commit(k) \/ CommitUnseen(k)
  BY <1>9, CommitLife, UnseenLife
<1>10. CASE RollBack(k)
  BY <1>2, <1>10 DEF RollBack, At, Quiet, Point, Holding, notes
<1>11. CASE Drop(k)
  <2>0. unseen' = unseen
    BY <1>11 DEF Drop, notes
  <2>1. CASE SetKey(k, Missing)
    BY <1>11, <2>0, <2>1, DropLife DEF Drop
  <2>2. CASE UNCHANGED store
    BY <1>2, <1>11, <2>0, <2>2 DEF Drop, Quiet
  <2> QED
    BY <1>11, <2>1, <2>2 DEF Drop
<1>12. CASE Save(k)
  <2>1. Quiet(k)
    BY <1>12 DEF Save, Quiet, Point, Holding
  <2>2. mid[k] # Missing
    <3>1. mid[k] \in DOMAIN rows
      BY <1>12 DEF Save, At, SentInv, Settled, Names
    <3> QED
      BY <1>1, <3>1 DEF Missing, Types, StoreTypes
  <2> QED
    BY <1>1, <1>2, <1>3, <1>12, <2>1, <2>2 DEF Save, notes
<1>13. CASE Spawn(k) \/ SpawnFails(k)
  BY <1>1, <1>2, <1>13 DEF Spawn, SpawnFails, Quiet, notes
<1>14. CASE Crash(k)
  BY <1>2, <1>14 DEF Crash, Quiet, Point, Holding, notes
<1> QED
  BY <1>4, <1>5, <1>6, <1>7, <1>8, <1>9, <1>10, <1>11, <1>12, <1>13, <1>14 DEF Step, Failure

\* A key that expires begins its next life as a missing one.
LEMMA ExpireKeeps ==
  ASSUME Types, Types', SentInv, LifeInv, NEW q \in RidKey, Expire(q)
  PROVE  SentInv' /\ LifeInv'
<1>1. /\ UNCHANGED <<rows, req, pc, at, mid, answers, unseen>> /\ key[q] # Missing
      /\ key' = [key EXCEPT ![q] = Missing] /\ lapsed' = [lapsed EXCEPT ![q] = lapsed[q] + 1]
  BY DEF Expire, calls, notes
<1>2. \A o \in Call : Rid(o)' = Rid(o)
  BY <1>1, RidStays
<1>3. SentInv'
  <2>1. \A r \in RidKey : (key[r] > 0 => Names(key[r], r))'
    BY <1>1 DEF SentInv, Names, Types, StoreTypes, Missing
  <2>2. \A o \in Call : pc'[o] \in Settled => Names(mid[o], Rid(o))'
    BY <1>1, <1>2 DEF SentInv, Names
  <2>3. AnswersAreSent'
    BY <1>1 DEF SentInv, AnswersAreSent
  <2> QED
    BY <1>1, <2>1, <2>2, <2>3 DEF SentInv
<1>4. ASSUME NEW r \in RidKey PROVE Budget(r)'
  <2>1. Holders(r)' = Holders(r)
    BY <1>1, <1>2 DEF Holders
  <2>2. Lives(r)' = Lives(r) /\ Lives(r) \in Nat
    BY <1>1, LivesTyped DEF Lives, Types, StoreTypes
  <2>3. Budget(r) /\ Known(r)' = Known(r)
    BY <1>1, KnownStay DEF LifeInv
  <2> QED
    BY <2>1, <2>2, <2>3, BudgetStays
<1> QED
  BY <1>3, <1>4 DEF LifeInv

LEMMA BothKept ==
  ASSUME Types, SentInv, LifeInv, [Next]_vars
  PROVE  SentInv' /\ LifeInv'
<1>1. Types'
  BY TypesKept
<1>2. ASSUME UNCHANGED <<rows, req, pc, at, mid, answers, key, lapsed, unseen>>
      PROVE  SentInv' /\ LifeInv'
  <2>1. \A o \in Call : Rid(o)' = Rid(o)
    BY <1>2, RidStays
  <2>2. SentInv'
    BY <1>2, <2>1 DEF SentInv, AnswersAreSent, Names
  <2>3. ASSUME NEW r \in RidKey PROVE Budget(r)'
    <3>1. Holders(r)' = Holders(r)
      BY <1>2, <2>1 DEF Holders
    <3>2. Lives(r)' = Lives(r) /\ Lives(r) \in Nat /\ Budget(r)
      BY <1>2, LivesTyped DEF Lives, LifeInv
    <3>3. Known(r)' = Known(r)
      BY <1>2, KnownStay
    <3> QED
      BY <1>1, <3>1, <3>2, <3>3, BudgetStays
  <2> QED
    BY <2>2, <2>3 DEF LifeInv
<1>3. ASSUME NEW k \in Call, Step(k) \/ Crash(k) PROVE SentInv' /\ LifeInv'
  BY <1>1, <1>3, StepSent, StepLife
<1>4. ASSUME NEW k \in Call, Disconnect(k) PROVE SentInv' /\ LifeInv'
  BY <1>2, <1>4 DEF Disconnect, store, notes
<1>5. ASSUME NEW j \in jobs, GiveUp(j) \/ \E u \in Member : Tell(j, u)
      PROVE  SentInv' /\ LifeInv'
  BY <1>2, <1>5 DEF GiveUp, Tell, store, calls, notes
<1>6. ASSUME NEW r \in RidKey, Expire(r) PROVE SentInv' /\ LifeInv'
  BY <1>1, <1>6, ExpireKeeps
<1>7. ASSUME NEW u \in Member, Leave(u) PROVE SentInv' /\ LifeInv'
  BY <1>2, <1>7 DEF Leave, calls, notes
<1>8. CASE UNCHANGED vars
  BY <1>2, <1>8 DEF vars, store, calls, notes
<1> QED
  BY <1>3, <1>4, <1>5, <1>6, <1>7, <1>8 DEF Next

LEMMA InitBoth ==
  ASSUME Init
  PROVE  Types /\ SentInv /\ LifeInv
<1>1. SentInv
  BY DEF Init, SentInv, AnswersAreSent, Settled, Missing
<1>2. ASSUME NEW r \in RidKey PROVE Budget(r)
  <2>1. Holders(r) = {} /\ Known(r) = {} /\ Lives(r) = 0
    BY DEF Init, Holders, Holding, Known, Sent, Lives
  <2> QED
    BY <2>1, FS_EmptySet DEF Budget
<1> QED
  BY <1>1, <1>2, InitTyped DEF LifeInv

\* What holds in every reachable state: the types, the origin of answers, and the
\* budget of every key.
THEOREM Invariance == Spec => [](Types /\ SentInv /\ LifeInv)
<1>1. Init => Types /\ SentInv /\ LifeInv
  BY InitBoth
<1>2. Types /\ SentInv /\ LifeInv /\ [Next]_vars => (Types /\ SentInv /\ LifeInv)'
  BY TypesKept, BothKept
<1> QED
  BY <1>1, <1>2, PTL DEF Spec

\* A random_id sends no more messages than its key has had lives, but for those
\* whose COMMIT was taken for a failure (OncePerKeyLife): retries in any number,
\* transactions that are rolled back, the deferred DEL of a key that may be
\* another call's by then, lost replies of Redis and crashes do not send it twice;
\* only a key that expires and a COMMIT whose answer is lost do.
THEOREM OncePerKey == Spec => []OncePerKeyLife
<1>1. ASSUME Types, LifeInv PROVE OncePerKeyLife
  <2> SUFFICES ASSUME NEW r \in RidKey
               PROVE  Cardinality(Sent(r)) <= 1 + lapsed[r] + Cardinality(Sent(r) \cap unseen)
    BY DEF OncePerKeyLife
  <2>1. /\ IsFiniteSet(Sent(r)) /\ Cardinality(Sent(r)) \in Nat
        /\ Cardinality(Known(r)) \in Nat /\ lapsed[r] \in Nat
    BY <1>1, SentFinite, KnownFinite, LivesTyped
  <2>2. /\ Cardinality(Holders(r)) \in Nat
        /\ Cardinality(Known(r)) + Cardinality(Holders(r)) <= Lives(r)
    BY <1>1, FS_CardinalityType DEF LifeInv, Budget
  <2>3. Cardinality(Known(r)) = Cardinality(Sent(r)) - Cardinality(Sent(r) \cap unseen)
    BY <2>1, FS_Difference DEF Known
  <2>4. Cardinality(Sent(r) \cap unseen) \in Nat
    BY <2>1, FS_Intersection, FS_CardinalityType
  <2> QED
    BY <2>1, <2>2, <2>3, <2>4 DEF Lives
<1> QED
  BY <1>1, Invariance, PTL

\* The id that a call answers for a peer is the id of a message from the caller
\* to that peer (AnswersAreSent), be it the call's own or the one its key had
\* from the call it repeats.
THEOREM AnswersSent == Spec => []AnswersAreSent
<1>1. SentInv => AnswersAreSent
  BY DEF SentInv
<1> QED
  BY <1>1, Invariance, PTL

-----------------------------------------------------------------------------
(* The goroutines and the histories they fill.                             *)

ToldTypes ==
  /\ inChat \subseteq Member /\ mute \in Settings /\ gone \subseteq Call
  /\ mass \subseteq Call /\ unseen \subseteq Nat /\ unasked \subseteq Nat
  /\ jobs \subseteq Job /\ feed \in [Member -> Seq(Event)]
  /\ faults \in 0 .. MaxFaults /\ expiries \in 0 .. MaxExpiries

\* Not nobody, and not two communities, which have no conversation.
Writable(u, p) == p # NoPeer /\ (p = Chat \/ p >= 0 \/ u >= 0)

\* Message m is stored in the conversation that u knows as p.
Filed(m, p, u) == m \in DOMAIN rows /\ rows[m].chat = GetInternalChatID(p, u)

Points == {"get", "claim", "owner", "tx", "drop", "save", "spawn"}
CallTold(k) ==
  /\ pc[k] \in Points => Writable(req[k].from, Target(k))
  /\ pc[k] \in Settled => Filed(mid[k], Target(k), req[k].from)

JobTold(j) ==
  /\ Filed(j.mid, j.peer, j.from) /\ Writable(j.from, j.peer)
  /\ j.peer # Chat => j.todo \subseteq {j.from, j.peer}
  /\ j.peer = Chat /\ j.mid \notin unasked =>
       \A u \in j.todo : Muted(mute[<<u, Chat>>]) => u \in j.muted

EventTold(e, u) ==
  /\ Filed(e.mid, e.peer, u)
  /\ e.peer = Chat /\ e.mid \notin unasked /\ Muted(mute[<<u, Chat>>]) => e.muted

HistoriesTold == \A u \in Member : \A i \in DOMAIN feed[u] : EventTold(feed[u][i], u)

ToldInv ==
  /\ \A k \in Call : CallTold(k)
  /\ \A j \in jobs : JobTold(j)
  /\ HistoriesTold

\* Messages are only added.
LEMMA FiledStays ==
  ASSUME Types, [Next]_vars, NEW m, NEW p, NEW u, Filed(m, p, u)
  PROVE  Filed(m, p, u)'
<1>1. CASE rows' = rows
  BY <1>1 DEF Filed
<1>2. ASSUME NEW k \in Call, Commit(k) \/ CommitUnseen(k) PROVE Filed(m, p, u)'
  BY <1>2, CommitTyped DEF Filed
<1>3. ASSUME NEW k \in Call, Step(k) \/ Crash(k), ~Commit(k), ~CommitUnseen(k)
      PROVE  rows' = rows
  BY <1>3, StepMoves DEF Sets, SetKey, store
<1> QED
  BY <1>1, <1>2, <1>3 DEF Next, Disconnect, GiveUp, Tell, Expire, Leave, vars, store

\* Nobody changes his settings, and what could not be read stays unread.
LEMMA SettingsStay ==
  ASSUME [Next]_vars
  PROVE  mute' = mute /\ unasked \subseteq unasked'
<1>1. ASSUME NEW k \in Call, Step(k) PROVE mute' = mute /\ unasked \subseteq unasked'
  <2>1. CASE Failure(k)
    BY <2>1 DEF Failure, ValidateFails, CheckFails, ExamineFails, Proceed, RollBack,
                CommitUnseen,
                SpawnFails, Insert, store, notes
  <2> QED
    BY <1>1, <2>1 DEF Step, Validate, Check, Lookup, Claim, Examine, Proceed, Commit, Insert,
                      Drop,
                      Save, Spawn, SetKey, store, notes
<1> QED
  BY <1>1 DEF Next, Disconnect, Crash, GiveUp, Tell, Expire, Leave, vars, store, notes

LEMMA RecipientsTyped ==
  ASSUME Types, inChat \subseteq Member, NEW k \in Call, Target(k) # NoPeer
  PROVE  Recipients(k) \subseteq Member
  BY RequestTyped DEF Recipients, Peer

LEMMA NewJobTyped ==
  ASSUME Types, NEW k \in Call, NEW R \in SUBSET Member, NEW M
  PROVE  NewJob(k, R, M) \in Job
<1> DEFINE row(u) == IF u \in M THEN mute[<<u, Target(k)>>] ELSE NoMute
           muted == {u \in R : Muted(row(u))}
           mentioned == {u \in R : Mentioned(row(u), u, ValidMentions(k))}
<1>1. muted \subseteq R /\ mentioned \subseteq R
  OBVIOUS
<1>2. mid[k] \in Nat /\ req[k].from \in Member /\ Target(k) \in Peer
  BY RequestTyped DEF Types, CallTypes
<1>3. NewJob(k, R, M) = [call |-> k, mid |-> mid[k], from |-> req[k].from, peer |-> Target(k),
                         todo |-> R, muted |-> muted, mentioned |-> mentioned]
  BY DEF NewJob
<1> HIDE DEF muted, mentioned
<1> QED
  BY <1>1, <1>2, <1>3 DEF Job

\* A goroutine with one recipient less is what it was otherwise.
LEMMA ShorterJob ==
  ASSUME NEW j \in Job, NEW u
  PROVE  /\ [j EXCEPT !.todo = @ \ {u}] \in Job
         /\ [j EXCEPT !.todo = @ \ {u}].todo = j.todo \ {u}
         /\ \A f \in {"call", "mid", "from", "peer", "muted", "mentioned"} :
              [j EXCEPT !.todo = @ \ {u}][f] = j[f]
<1>1. j = [call |-> j.call, mid |-> j.mid, from |-> j.from, peer |-> j.peer, todo |-> j.todo,
           muted |-> j.muted, mentioned |-> j.mentioned]
  BY DEF Job
<1>2. j.todo \ {u} \in SUBSET Member
  BY DEF Job
<1> QED
  BY <1>1, <1>2 DEF Job

LEMMA EventTyped ==
  ASSUME NEW j \in Job, NEW u \in Member
  PROVE  EventFor(j, u) \in Event
<1>1. (IF u = j.from \/ j.peer = Chat THEN j.peer ELSE j.from) \in Peer
  BY DEF Job, Peer
<1>2. /\ j.mid \in Nat /\ (u = j.from) \in BOOLEAN /\ (u \in j.muted) \in BOOLEAN
      /\ (u # j.from /\ u \in j.mentioned) \in BOOLEAN
  BY DEF Job
<1> QED
  BY <1>1, <1>2 DEF EventFor, Event

\* The jobs after a step of a call, and the histories.
\* Call k has handed a goroutine the recipients R with the mutes of M, knowing if
\* there are others.
Handed(k, R, M) ==
  /\ At(k, "spawn") /\ R \subseteq Recipients(k) /\ (R \subseteq M \/ mid[k] \in unasked')
  /\ jobs' = jobs \cup {NewJob(k, R, M)}

LEMMA StepJobs ==
  ASSUME NEW k \in Call, Step(k) \/ Crash(k)
  PROVE  /\ UNCHANGED <<feed, inChat>> /\ gone' = gone
         /\ \/ jobs' \subseteq jobs
            \/ \E R, M : Handed(k, R, M)
<1>1. CASE Step(k) /\ ~Spawn(k) /\ ~Failure(k)
  BY <1>1 DEF Step, Validate, Check, Lookup, Claim, Examine, Proceed, Commit, Insert, Drop,
              Save,
              SetKey, store, Goto, Return, Refuse
<1>2. CASE Failure(k) /\ ~SpawnFails(k)
  BY <1>2 DEF Failure, ValidateFails, CheckFails, ExamineFails, Proceed, RollBack,
              CommitUnseen,
              Insert, store, Goto, Return, Refuse
<1>3. CASE Spawn(k)
  <2>1. Handed(k, Recipients(k), Recipients(k))
    BY <1>3 DEF Spawn, Handed
  <2> QED
    BY <1>3, <2>1 DEF Spawn, store, Return
<1>4. CASE SpawnFails(k)
  <2>1. PICK R \in SUBSET Recipients(k), M \in SUBSET Recipients(k) :
               /\ jobs' = jobs \cup {NewJob(k, R, M)}
               /\ unasked' = IF R \subseteq M THEN unasked ELSE unasked \cup {mid[k]}
    BY <1>4 DEF SpawnFails
  <2>2. Handed(k, R, M)
    BY <1>4, <2>1 DEF SpawnFails, Handed
  <2> QED
    BY <1>4, <2>2 DEF SpawnFails, store, Return
<1>5. CASE Crash(k)
  BY <1>5 DEF Crash, store, Goto
<1> QED
  BY <1>1, <1>2, <1>3, <1>4, <1>5

LEMMA BoundsKept ==
  ASSUME ToldTypes, [Next]_vars
  PROVE  faults' \in 0 .. MaxFaults /\ expiries' \in 0 .. MaxExpiries
<1>1. Fault \/ Calm => faults' \in 0 .. MaxFaults /\ expiries' \in 0 .. MaxExpiries
  BY SendingAssumption DEF ToldTypes, Fault, Calm
<1>2. ASSUME NEW k \in Call, Step(k) PROVE Fault \/ Calm
  <2>1. CASE Failure(k)
    BY <2>1 DEF Failure, ValidateFails, CheckFails, ExamineFails, RollBack, CommitUnseen,
                SpawnFails
  <2> QED
    BY <1>2, <2>1 DEF Step, Validate, Check, Lookup, Claim, Examine, Commit, Drop, Save,
                      Spawn,
                      Broken
<1>3. ASSUME NEW r \in RidKey, Expire(r)
      PROVE  faults' \in 0 .. MaxFaults /\ expiries' \in 0 .. MaxExpiries
  BY <1>1, <1>3, SendingAssumption DEF Expire, ToldTypes
<1>4. CASE UNCHANGED vars
  BY <1>1, <1>4 DEF vars, Calm
<1> QED
  BY <1>1, <1>2, <1>3, <1>4 DEF Next, Disconnect, Crash, GiveUp, Tell, Leave

LEMMA NotesKept ==
  ASSUME Types, ToldTypes, [Next]_vars
  PROVE  mass' \subseteq Call /\ unseen' \subseteq Nat /\ unasked' \subseteq Nat
<1> DEFINE Good == mass' \subseteq Call /\ unseen' \subseteq Nat /\ unasked' \subseteq Nat
<1>1. ASSUME UNCHANGED notes PROVE Good
  BY <1>1 DEF notes, ToldTypes
<1>2. ASSUME NEW k \in Call, NEW b, Proceed(k, b) PROVE Good
  BY <1>2 DEF Proceed, ToldTypes
<1>3. ASSUME NEW k \in Call, CommitUnseen(k) PROVE Good
  <2>1. Len(rows) + 1 \in Nat
    BY <1>3, CommitTyped
  <2>2. unseen' = unseen \cup {Len(rows) + 1} /\ mass' = mass /\ unasked' = unasked
    BY <1>3 DEF CommitUnseen
  <2>3. mass \subseteq Call /\ unseen \subseteq Nat /\ unasked \subseteq Nat
    BY DEF ToldTypes
  <2>4. PICK n \in Nat : unseen' = unseen \cup {n}
    BY <2>1, <2>2
  <2> QED
    BY <2>2, <2>3, <2>4
<1>4. ASSUME NEW k \in Call, SpawnFails(k) PROVE Good
  BY <1>4 DEF SpawnFails, ToldTypes, Types, CallTypes
<1> HIDE DEF Good
<1>5. ASSUME NEW k \in Call, Step(k) PROVE Good
  <2>1. CASE Failure(k)
    BY <1>1, <1>2, <1>3, <1>4, <2>1 DEF Failure, ValidateFails, CheckFails, ExamineFails,
                                        RollBack
  <2>2. CASE Examine(k)
    BY <1>1, <1>2, <2>2 DEF Examine
  <2> QED
    BY <1>1, <1>5, <2>1, <2>2 DEF Step, Validate, Check, Lookup, Claim, Commit, Drop, Save,
                                  Spawn
<1>6. Good
  BY <1>1, <1>5 DEF Next, Disconnect, Crash, GiveUp, Tell, Expire, Leave, vars
<1> QED
  BY <1>6 DEF Good

LEMMA ToldTypesKept ==
  ASSUME Types, ToldTypes, ToldInv, [Next]_vars
  PROVE  ToldTypes'
<1>0. /\ faults' \in 0 .. MaxFaults /\ expiries' \in 0 .. MaxExpiries /\ mute' = mute
      /\ mass' \subseteq Call /\ unseen' \subseteq Nat /\ unasked' \subseteq Nat
  BY BoundsKept, SettingsStay, NotesKept
<1>1. ASSUME UNCHANGED <<inChat, gone, jobs, feed>> PROVE ToldTypes'
  BY <1>0, <1>1 DEF ToldTypes
<1>2. ASSUME NEW k \in Call, Step(k) \/ Crash(k) PROVE ToldTypes'
  <2>1. ASSUME NEW R, NEW M, Handed(k, R, M) PROVE jobs' \subseteq Job
    <3>1. Target(k) # NoPeer
      BY <2>1 DEF Handed, At, ToldInv, CallTold, Points, Writable
    <3>2. R \subseteq Member
      BY <2>1, <3>1, RecipientsTyped DEF Handed, ToldTypes
    <3> QED
      BY <2>1, <3>2, NewJobTyped DEF Handed, ToldTypes
  <2>2. jobs' \subseteq Job
    BY <1>2, <2>1, StepJobs DEF ToldTypes
  <2> QED
    BY <1>0, <1>2, <2>2, StepJobs DEF ToldTypes
<1>3. ASSUME NEW k \in Call, Disconnect(k) PROVE ToldTypes'
  BY <1>0, <1>3 DEF Disconnect, ToldTypes, store
<1>4. ASSUME NEW j \in jobs, GiveUp(j) PROVE ToldTypes'
  BY <1>0, <1>4 DEF GiveUp, ToldTypes, store, calls
<1>5. ASSUME NEW j \in jobs, NEW u \in Member, Tell(j, u) PROVE ToldTypes'
  <2>1. j \in Job /\ UNCHANGED <<inChat, gone>>
    BY <1>5 DEF ToldTypes, Tell, store, calls
  <2>2. jobs' \subseteq Job
    BY <1>5, <2>1, ShorterJob DEF Tell, ToldTypes
  <2>3. feed' \in [Member -> Seq(Event)]
    <3>1. Append(feed[u], EventFor(j, u)) \in Seq(Event)
      BY <2>1, EventTyped DEF ToldTypes
    <3> QED
      BY <1>5, <3>1 DEF Tell, ToldTypes
  <2> QED
    BY <1>0, <2>1, <2>2, <2>3 DEF ToldTypes
<1>6. ASSUME NEW r \in RidKey, Expire(r) PROVE ToldTypes'
  BY <1>1, <1>6 DEF Expire, calls
<1>7. ASSUME NEW u \in Member, Leave(u) PROVE ToldTypes'
  BY <1>0, <1>7 DEF Leave, ToldTypes, calls
<1>8. CASE UNCHANGED vars
  BY <1>1, <1>8 DEF vars, store, calls
<1> QED
  BY <1>2, <1>3, <1>4, <1>5, <1>6, <1>7, <1>8 DEF Next

\* A call that does not move is told the same.
LEMMA CallStays ==
  ASSUME Types, [Next]_vars, NEW o \in Call, CallTold(o), pc'[o] = pc[o],
         at'[o] = at[o], mid'[o] = mid[o], req' = req
  PROVE  CallTold(o)'
<1>1. Target(o)' = Target(o)
  BY DEF Target
<1>2. Filed(mid[o], Target(o), req[o].from) => Filed(mid[o], Target(o), req[o].from)'
  BY <1>1, FiledStays DEF Filed
<1> QED
  BY <1>1, <1>2 DEF CallTold, Filed

\* Where the control of a call goes, and what it holds there.
LEMMA OwnCallTold ==
  ASSUME Types, [Next]_vars, NEW k \in Call, CallTold(k), Step(k) \/ Crash(k)
  PROVE  CallTold(k)'
<1>1. ASSUME pc'[k] \in {"check", "done", "dead"} PROVE CallTold(k)'
  BY <1>1 DEF CallTold, Points, Settled
<1>2. ASSUME NEW n \in Nat, Return(k, n) PROVE CallTold(k)'
  BY <1>1, <1>2, ReturnTyped DEF Types, CallTypes
<1>3. ASSUME NEW p \in Points, Goto(k, p), Writable(req[k].from, Target(k)),
             p \in Settled => pc[k] \in Settled
      PROVE  CallTold(k)'
  <2>1. pc'[k] = p /\ UNCHANGED <<req, at, mid>>
    BY <1>3 DEF Goto, Types, CallTypes
  <2>2. Target(k)' = Target(k)
    BY <2>1 DEF Target
  <2>3. Filed(mid[k], Target(k), req[k].from) => Filed(mid[k], Target(k), req[k].from)'
    BY <2>1, <2>2, FiledStays DEF Filed
  <2> QED
    BY <1>3, <2>1, <2>2, <2>3 DEF CallTold, Filed, Writable
<1>4. CASE Validate(k) \/ ValidateFails(k)
  BY <1>1, <1>4 DEF Validate, ValidateFails, Goto, Refuse, Types, CallTypes
<1>5. CASE Check(k) \/ CheckFails(k)
  <2>1. CASE MayWrite(req[k].from, Target(k)) /\ Goto(k, "get")
    <3>1. req[k].from \in Int /\ Target(k) \in Int
      <4>1. Member \subseteq Int /\ Peer \subseteq Int
        BY SendingAssumption DEF Peer, NoPeer
      <4> QED
        BY <4>1, RequestTyped
    <3>2. Writable(req[k].from, Target(k))
      BY <2>1, <3>1 DEF MayWrite, Writable
    <3> QED
      BY <1>3, <2>1, <3>2 DEF Points, Settled
  <2>2. CASE Return(k, 0)
    BY <1>2, <2>2
  <2> QED
    BY <1>5, <2>1, <2>2 DEF Check, CheckFails
<1>6. CASE Lookup(k)
  <2>1. key[Rid(k)] \in Int
    BY RidTyped DEF Types, StoreTypes
  <2> QED
    BY <1>2, <1>3, <1>6, <2>1 DEF Lookup, At, CallTold, Points, Settled
<1>7. CASE Claim(k)
  BY <1>2, <1>3, <1>7 DEF Claim, At, CallTold, Points, Settled
<1>8. CASE Examine(k) \/ ExamineFails(k)
  BY <1>3, <1>8 DEF Examine, ExamineFails, Proceed, At, CallTold, Points, Settled
<1>9. CASE Commit(k)
  <2> DEFINE row == [rid |-> Rid(k), chat |-> GetInternalChatID(Target(k), req[k].from)]
  <2>1. rows \in Seq(Row) /\ rows' = Append(rows, row) /\ row \in Row
    BY <1>9, RidTyped, RequestTyped DEF Types, StoreTypes, Commit, Insert, Row, ChatIds
  <2>2. /\ UNCHANGED <<req, at>> /\ pc'[k] = "save" /\ mid'[k] = Len(rows) + 1 /\ pc[k] = "tx"
    BY <1>9 DEF Commit, At, Types, CallTypes
  <2>3. row.chat = GetInternalChatID(Target(k), req[k].from)
    OBVIOUS
  <2> HIDE DEF row
  <2>4. Len(rows) + 1 \in DOMAIN rows' /\ rows'[Len(rows) + 1] = row
    BY <2>1
  <2>5. Target(k)' = Target(k)
    BY <2>2 DEF Target
  <2> QED
    BY <2>2, <2>3, <2>4, <2>5 DEF CallTold, Filed, Writable, Points
<1>10. CASE RollBack(k) \/ CommitUnseen(k)
  BY <1>3, <1>10 DEF RollBack, CommitUnseen, At, CallTold, Points, Settled
<1>11. CASE Drop(k)
  BY <1>2, <1>11 DEF Drop
<1>12. CASE Save(k)
  BY <1>3, <1>12 DEF Save, At, CallTold, Points, Settled
<1>13. CASE Spawn(k) \/ SpawnFails(k)
  BY <1>2, <1>13 DEF Spawn, SpawnFails, Types, CallTypes
<1>14. CASE Crash(k)
  BY <1>1, <1>14 DEF Crash, Goto, Types, CallTypes
<1> QED
  BY <1>4, <1>5, <1>6, <1>7, <1>8, <1>9, <1>10, <1>11, <1>12, <1>13, <1>14 DEF Step, Failure

\* A step of one call does not move another.
LEMMA OthersStay ==
  ASSUME Types, NEW k \in Call, Step(k) \/ Crash(k), NEW o \in Call, o # k
  PROVE  pc'[o] = pc[o] /\ at'[o] = at[o] /\ mid'[o] = mid[o] /\ req' = req
<1>1. CASE Moves(k)
  <2>1. ASSUME NEW p \in Point, Goto(k, p)
        PROVE  pc'[o] = pc[o] /\ at'[o] = at[o] /\ mid'[o] = mid[o] /\ req' = req
    BY <2>1 DEF Goto, Types, CallTypes
  <2>2. ASSUME NEW n \in Nat, Return(k, n)
        PROVE  pc'[o] = pc[o] /\ at'[o] = at[o] /\ mid'[o] = mid[o] /\ req' = req
    BY <2>2, ReturnTyped DEF Types, CallTypes
  <2> QED
    BY <1>1, <2>1, <2>2 DEF Moves
<1>2. CASE Refuse(k)
  BY <1>2 DEF Refuse, Types, CallTypes
<1>3. CASE Commit(k) \/ CommitUnseen(k)
  BY <1>3 DEF Commit, CommitUnseen, Goto, Types, CallTypes
<1> QED
  BY <1>1, <1>2, <1>3, StepMoves

LEMMA JobStays ==
  ASSUME Types, [Next]_vars, NEW j, JobTold(j)
  PROVE  JobTold(j)'
<1>1. Filed(j.mid, j.peer, j.from)'
  BY FiledStays DEF JobTold
<1>2. mute' = mute /\ unasked \subseteq unasked'
  BY SettingsStay
<1> QED
  BY <1>1, <1>2 DEF JobTold, Muted, Writable

LEMMA EventStays ==
  ASSUME Types, [Next]_vars, NEW e, NEW u, EventTold(e, u)
  PROVE  EventTold(e, u)'
<1>1. Filed(e.mid, e.peer, u)'
  BY FiledStays DEF EventTold
<1>2. mute' = mute /\ unasked \subseteq unasked'
  BY SettingsStay
<1> QED
  BY <1>1, <1>2 DEF EventTold, Muted

\* What a goroutine pushes names the conversation for the one it is pushed to.
LEMMA EventForTold ==
  ASSUME Types, ToldTypes, NEW j \in jobs, JobTold(j), NEW u \in j.todo
  PROVE  EventTold(EventFor(j, u), u)
<1> DEFINE e == EventFor(j, u)
<1>1. j \in Job /\ u \in Member /\ j.from \in Member /\ j.peer \in Peer
  BY DEF ToldTypes, Job
<1>2. /\ u \in Int /\ j.from \in Int /\ j.peer \in Int
      /\ u <= ChatBase /\ j.from <= ChatBase /\ Chat \in Int /\ Chat > ChatBase
      /\ j.peer # Chat => j.peer <= ChatBase
  <2>1. /\ Member \subseteq Int /\ \A v \in Member : v <= ChatBase
        /\ Chat \in Int /\ Chat > ChatBase
    BY SendingAssumption
  <2>2. 0 <= ChatBase
    BY SMT DEF ChatBase
  <2>3. j.peer \in Member \/ j.peer = Chat \/ j.peer = 0
    BY <1>1 DEF Peer, NoPeer
  <2>4. u \in Int /\ j.from \in Int /\ u <= ChatBase /\ j.from <= ChatBase
    BY <1>1, <2>1
  <2>5. j.peer \in Int /\ (j.peer # Chat => j.peer <= ChatBase)
    <3>1. CASE j.peer \in Member
      BY <2>1, <3>1
    <3>2. CASE j.peer = Chat
      BY <2>1, <3>2
    <3>3. CASE j.peer = 0
      BY <2>2, <3>3
    <3> QED
      BY <2>3, <3>1, <3>2, <3>3
  <2> QED
    BY <2>1, <2>4, <2>5
<1>3. /\ e.mid = j.mid /\ e.muted = (u \in j.muted)
      /\ e.peer = IF u = j.from \/ j.peer = Chat THEN j.peer ELSE j.from
  BY DEF EventFor
<1>4. Filed(j.mid, j.peer, j.from)
  BY DEF JobTold
<1> HIDE DEF e
<1>5. Filed(e.mid, e.peer, u)
  <2>1. CASE j.peer = Chat
    <3>1. GetInternalChatID(Chat, u) = GetInternalChatID(Chat, j.from)
      BY <1>2 DEF GetInternalChatID
    <3> QED
      BY <1>3, <1>4, <2>1, <3>1 DEF Filed
  <2>2. CASE j.peer # Chat /\ u = j.from
    BY <1>3, <1>4, <2>2
  <2>3. CASE j.peer # Chat /\ u # j.from
    <3>1. u = j.peer /\ (j.peer >= 0 \/ j.from >= 0)
      BY <2>3 DEF JobTold, Writable
    <3>2. GetInternalChatID(j.peer, j.from) = GetInternalChatID(j.from, j.peer)
      BY <1>2, <2>3, <3>1, BothEndsAgree
    <3> QED
      BY <1>3, <1>4, <2>3, <3>1, <3>2 DEF Filed
  <2> QED
    BY <2>1, <2>2, <2>3
<1>6. e.peer = Chat => j.peer = Chat
  <2>1. j.from # Chat
    BY <1>2 DEF ChatBase
  <2> QED
    BY <1>3, <2>1
<1>7. PICK silent \in BOOLEAN : silent = Muted(mute[<<u, Chat>>])
  BY DEF Muted
<1>8. j.peer = Chat /\ j.mid \notin unasked /\ silent => u \in j.muted
  BY <1>7 DEF JobTold
<1>9. e.peer = Chat /\ e.mid \notin unasked /\ silent => e.muted
  BY <1>3, <1>6, <1>8
<1>10. EventTold(e, u)
  BY <1>5, <1>7, <1>9 DEF EventTold
<1> QED
  BY <1>10 DEF e

LEMMA SpawnTold ==
  ASSUME Types, [Next]_vars, NEW k \in Call, CallTold(k), NEW R, NEW M, Handed(k, R, M),
         NEW j, j = NewJob(k, R, M)
  PROVE  JobTold(j)'
<1> DEFINE row(u) == IF u \in M THEN mute[<<u, Target(k)>>] ELSE NoMute
<1>2. /\ j.mid = mid[k] /\ j.peer = Target(k) /\ j.from = req[k].from /\ j.todo = R
      /\ j.muted = {u \in R : Muted(row(u))}
  BY DEF NewJob
<1>3. Writable(j.from, j.peer) /\ Filed(j.mid, j.peer, j.from)
  BY <1>2 DEF Handed, At, CallTold, Points, Settled
<1>4. j.peer # Chat => j.todo \subseteq {j.from, j.peer}
  BY <1>2 DEF Handed, Recipients
<1>5. R \subseteq M \/ j.mid \in unasked'
  BY <1>2 DEF Handed
<1>6. R \subseteq M /\ j.peer = Chat => \A u \in j.todo : Muted(mute[<<u, Chat>>]) => u \in j.muted
  BY <1>2
<1>7. Filed(j.mid, j.peer, j.from)' /\ mute' = mute
  BY <1>3, FiledStays, SettingsStay
<1> QED
  BY <1>3, <1>4, <1>5, <1>6, <1>7 DEF JobTold, Writable, Muted

LEMMA ToldKept ==
  ASSUME Types, ToldTypes, ToldInv, [Next]_vars
  PROVE  ToldInv'
<1>1. \A j \in jobs : JobTold(j)'
  BY JobStays DEF ToldInv
<1>2. \A u \in Member : \A i \in DOMAIN feed[u] : EventTold(feed[u][i], u)
  BY DEF ToldInv, HistoriesTold
<1>3. ASSUME UNCHANGED calls PROVE \A o \in Call : CallTold(o)'
  BY <1>3, CallStays DEF calls, ToldInv
<1>4. ASSUME feed' = feed PROVE HistoriesTold'
  <2> SUFFICES ASSUME NEW u \in Member, NEW i \in DOMAIN feed[u] PROVE EventTold(feed[u][i], u)'
    BY <1>4 DEF HistoriesTold
  <2>1. PICK e : e = feed[u][i]
    OBVIOUS
  <2>2. EventTold(e, u)'
    BY <1>2, <2>1, EventStays
  <2> QED
    BY <1>4, <2>1, <2>2 DEF EventTold, Filed
<1>5. ASSUME NEW k \in Call, Step(k) \/ Crash(k) PROVE ToldInv'
  <2>1. \A o \in Call : CallTold(o)'
    BY <1>5, OthersStay, CallStays, OwnCallTold DEF ToldInv
  <2>2. ASSUME NEW j \in jobs' PROVE JobTold(j)'
    <3>1. CASE j \in jobs
      BY <1>1, <3>1
    <3>2. ASSUME NEW R, NEW M, Handed(k, R, M), j = NewJob(k, R, M) PROVE JobTold(j)'
      <4>1. Types /\ [Next]_vars /\ CallTold(k)
        BY DEF ToldInv
      <4> QED
        BY <3>2, <4>1, SpawnTold
    <3> QED
      BY <1>5, <2>2, <3>1, <3>2, StepJobs DEF Handed
  <2> QED
    BY <1>4, <1>5, <2>1, <2>2, StepJobs DEF ToldInv
<1>6. ASSUME NEW k \in Call, Disconnect(k) PROVE ToldInv'
  <2>1. \A o \in Call : CallTold(o)'
    BY <1>6, CallStays DEF Disconnect, ToldInv
  <2> QED
    BY <1>1, <1>4, <1>6, <2>1 DEF Disconnect, ToldInv
<1>7. ASSUME NEW j \in jobs, GiveUp(j) PROVE ToldInv'
  BY <1>1, <1>3, <1>4, <1>7 DEF GiveUp, ToldInv
<1>8. ASSUME NEW j \in jobs, NEW u \in Member, Tell(j, u) PROVE ToldInv'
  <2>1. JobTold(j) /\ j \in Job /\ u \in j.todo
    BY <1>8 DEF ToldInv, ToldTypes, Tell
  <2>2. ASSUME NEW x \in jobs' PROVE JobTold(x)'
    <3>1. CASE x \in jobs
      BY <1>1, <3>1
    <3>2. CASE x = [j EXCEPT !.todo = @ \ {u}]
      <4>1. /\ x.mid = j.mid /\ x.from = j.from /\ x.peer = j.peer /\ x.muted = j.muted
            /\ x.todo \subseteq j.todo
        BY <2>1, <3>2, ShorterJob
      <4>2. JobTold(j)'
        BY <1>1
      <4>3. Filed(j.mid, j.peer, j.from)' /\ mute' = mute /\ unasked \subseteq unasked'
        BY <2>1, FiledStays, SettingsStay DEF JobTold
      <4> QED
        BY <2>1, <4>1, <4>3 DEF JobTold, Filed, Muted, Writable
    <3> QED
      BY <1>8, <3>1, <3>2 DEF Tell
  <2>3. ASSUME NEW o \in Member, NEW i \in DOMAIN feed'[o] PROVE EventTold(feed[o][i], o)'
    <3>1. feed[o] \in Seq(Event) /\ feed[u] \in Seq(Event)
      BY DEF ToldTypes
    <3>2. EventTold(EventFor(j, u), u) /\ EventFor(j, u) \in Event
      BY <2>1, EventForTold, EventTyped
    <3>3. \/ i \in DOMAIN feed[o] /\ feed'[o][i] = feed[o][i]
          \/ o = u /\ feed'[o][i] = EventFor(j, u)
      <4>1. CASE feed' = feed
        BY <2>3, <4>1
      <4>2. CASE feed' = [feed EXCEPT ![u] = Append(@, EventFor(j, u))] /\ o = u
        BY <2>3, <3>1, <3>2, <4>2 DEF ToldTypes
      <4>3. CASE feed' = [feed EXCEPT ![u] = Append(@, EventFor(j, u))] /\ o # u
        BY <2>3, <4>3 DEF ToldTypes
      <4> QED
        BY <1>8, <4>1, <4>2, <4>3 DEF Tell
    <3>4. EventTold(feed'[o][i], o)
      BY <1>2, <3>2, <3>3
    <3>5. PICK e : e = feed'[o][i]
      OBVIOUS
    <3>6. EventTold(e, o)'
      BY <3>4, <3>5, EventStays
    <3> QED
      BY <3>5, <3>6 DEF EventTold, Filed
  <2> QED
    BY <1>3, <1>8, <2>2, <2>3 DEF Tell, ToldInv, HistoriesTold
<1>9. ASSUME NEW r \in RidKey, Expire(r) PROVE ToldInv'
  BY <1>1, <1>3, <1>4, <1>9 DEF Expire, ToldInv
<1>10. ASSUME NEW u \in Member, Leave(u) PROVE ToldInv'
  BY <1>1, <1>3, <1>4, <1>10 DEF Leave, ToldInv
<1>11. CASE UNCHANGED vars
  BY <1>1, <1>3, <1>4, <1>11 DEF vars, ToldInv
<1> QED
  BY <1>5, <1>6, <1>7, <1>8, <1>9, <1>10, <1>11 DEF Next

\* Type correctness: the model never leaves its types, for any members, calls,
\* requests and settings.
THEOREM TypeCorrect == Spec => []TypeOK
<1>1. Init => ToldTypes /\ ToldInv
  BY SendingAssumption DEF Init, ToldTypes, ToldInv, HistoriesTold, CallTold, Points, Settled
<1>2. Types /\ ToldTypes /\ ToldInv /\ [Next]_vars => ToldTypes' /\ ToldInv'
  BY ToldTypesKept, ToldKept
<1>3. Types /\ ToldTypes => TypeOK
  BY SendingAssumption
  DEF Types, StoreTypes, CallTypes, ToldTypes, TypeOK, Row, ChatIds, Point
<1> QED
  BY <1>1, <1>2, <1>3, Invariance, PTL DEF Spec

\* Every participant is told of a message under the conversation it is stored
\* in, and never with a sound in a chat that he has silenced, unless the mutes
\* could not be read: through any disconnects, crashes, failed reads and pushes,
\* and departures while the goroutine runs.
THEOREM EndsToldAsFound == Spec => []ToldAsFound
<1>1. Init => ToldTypes /\ ToldInv
  BY SendingAssumption DEF Init, ToldTypes, ToldInv, HistoriesTold, CallTold, Points, Settled
<1>2. Types /\ ToldTypes /\ ToldInv /\ [Next]_vars => ToldTypes' /\ ToldInv'
  BY ToldTypesKept, ToldKept
<1>3. ToldInv => ToldAsFound
  BY DEF ToldInv, HistoriesTold, ToldAsFound, EventTold, Filed, FetchPushSettings, Muted
<1> QED
  BY <1>1, <1>2, <1>3, Invariance, PTL DEF Spec
=============================================================================
