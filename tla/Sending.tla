------------------------------- MODULE Sending -------------------------------
(***************************************************************************)
(* messages.send around its transaction: what is refused, the key in Redis *)
(* that is to keep a repeated random_id from sending twice, and the        *)
(* goroutine that tells the recipients.  The transaction itself is a       *)
(* single step here; ChatStore looks into it.                              *)
(*                                                                         *)
(* A call is a request in progress.  A client that repeats a request makes *)
(* a call with the same random_id, at any time: it may have given up on    *)
(* the first.  Every call runs in a process of its own, so a crash ends    *)
(* one call and its goroutine.                                             *)
(***************************************************************************)
EXTENDS Sequences, FiniteSets, PeerIds, Permissions

CONSTANTS
  Member,        \* users (positive) and communities (negative)
  Chat,          \* the peer id of the group chat
  Founders,      \* its members at first
  Owner,         \* its owner
  Moderators,    \* its members with is_admin
  Mass,          \* its permission use_mass_mentions
  OnlineNow,     \* who has touched his online key in the last 300 seconds
  Settings,      \* the conversation_mutes there may be
  Call,          \* calls of messages.send
  Scenarios,     \* the requests the calls may have: functions from Call
  MaxPeers,      \* how many recipients a request may name: 25
  MaxExpiries,   \* bound: keys that expire
  MaxFaults      \* bound: failures, crashes, disconnects, departures

\* 0 is what a recipient that is left out, or does not parse, comes to.
NoPeer == 0
Peer == Member \cup {Chat, NoPeer}
Token == [tag : {"id", "club", "all", "online"}, id : Member \cup {0}]
Message == [text : {"none", "short", "long"}, tokens : SUBSET Token,
            attachment : {"none", "blank", "file", "sticker", "two stickers", "mixed", "junk"},
            reply : {"none", "junk", "hidden", "visible"},
            forward : {"none", "many", "junk", "hidden", "visible"}, asJson : BOOLEAN]
Request == [from : Member, peers : Seq(Peer), random : Nat, message : Message]
Mute == [until : {"never", "past", "later", "ever"}, sound : BOOLEAN,
         noMentions : BOOLEAN, noMass : BOOLEAN]

ASSUME SendingAssumption ==
  /\ Member \subseteq Int /\ 0 \notin Member /\ \A u \in Member : u <= ChatBase
  /\ Chat \in Int /\ Chat > ChatBase
  /\ Founders \subseteq Member /\ Moderators \subseteq Founders /\ OnlineNow \subseteq Member
  /\ Mass \in Level
  /\ Settings \subseteq [Member \X Peer -> Mute]
  /\ Scenarios \subseteq [Call -> Request]
  /\ \A q \in Scenarios, k \in Call : q[k].peers # << >>
  /\ MaxPeers \in Nat /\ MaxExpiries \in Nat /\ MaxFaults \in Nat

VARIABLES
  inChat,    \* the active members of the group chat
  mute,      \* conversation_mutes; the defaults stand for no row
  key,       \* rid:sender:peer:random -> Missing, Processing or a message id
  lapsed,    \* history: how often each key has expired
  rows,      \* messages in the order of their ids: the key and the sender
  req, pc,   \* call -> request, control point
  at,        \* call -> the peer it is sending to
  gone,      \* calls whose client has disconnected
  mid,       \* call -> id of the message it has committed
  answers,   \* call -> what it answers for each peer: a message id, 0 for an error
             \* or for an entry of peer_ids that it skips
  mass,      \* calls that have found that they may use mass mentions
  unseen,    \* history: messages whose COMMIT was taken for a failure
  unasked,   \* history: messages told by a goroutine that could not read the mutes
  jobs,      \* goroutines that tell the recipients
  feed,      \* member -> the new_msg events of his history
  faults, expiries

store == <<inChat, mute, key, lapsed, rows>>
calls == <<req, pc, at, gone, mid, answers>>
notes == <<mass, unseen, unasked>>
vars == <<store, calls, notes, jobs, feed, faults, expiries>>

Missing == 0
Processing == -1

Target(k) == req[k].peers[at[k]]

\* One peer_id: the caller's random_id, or, for 0, one of the server's choice.
\* peer_ids, one or many: every message has a random id of the server's choice.
RidOf(k, r, i) ==
  <<r.from, r.peers[i],
    IF Len(r.peers) = 1 /\ r.random # 0 THEN <<r.random>> ELSE <<k, i>>>>
Rid(k) == RidOf(k, req[k], at[k])
RidKey == UNION {{RidOf(k, q[k], i) : i \in DOMAIN q[k].peers} : q \in Scenarios, k \in Call}

-----------------------------------------------------------------------------
(* What a request may look like.                                           *)

StickerAlone(m) ==
  /\ m.attachment \notin {"two stickers", "mixed"}
  /\ m.attachment = "sticker" => m.text = "none" /\ (m.forward = "none" \/ m.asJson)

\* The forward parameter that does not parse as JSON is ignored.
Forwarded(m) == IF m.asJson /\ m.forward = "junk" THEN "none" ELSE m.forward

Acceptable(m) ==
  /\ StickerAlone(m)
  /\ m.attachment # "junk"
  /\ m.text # "none" \/ m.attachment # "none" \/ m.reply # "none" \/ Forwarded(m) # "none"
  /\ m.text # "long"
  /\ Forwarded(m) \in {"none", "visible"}

\* parseMentions, and what executeSendMessage keeps of it
Mention(t) == [user |-> IF t.tag = "club" THEN -t.id ELSE t.id, kind |-> t.tag]
parseMentions(tokens) ==
  {Mention(t) : t \in {x \in tokens : x.tag \in {"all", "online"} \/ x.id > 0}}
ValidMentions(k) ==
  {t \in parseMentions(req[k].message.tokens) : t.kind \in {"all", "online"} => k \in mass}

\* Whether the sender may use mass mentions.  A conversation that cannot be read
\* forbids nothing, and a member who cannot be read has no role.
MayMention(k, convRead, memberRead) ==
  LET u == req[k].from
  IN  Target(k) = Chat /\ convRead =>
        CheckPermission(Mass, u = Owner, memberRead /\ u \in Moderators \cap inChat,
                        memberRead /\ u \in inChat)

-----------------------------------------------------------------------------
(* The goroutine's view of one recipient.                                  *)

Muted(m) == m.until \in {"ever", "later"} \/ ~m.sound

NoMute == [until |-> "never", sound |-> TRUE, noMentions |-> FALSE, noMass |-> FALSE]

\* account.getPushSettings: what the recipient is told about the peer
FetchPushSettings(u, p) ==
  [disabled |-> mute[<<u, p>>].until \in {"ever", "later"},
   sound |-> mute[<<u, p>>].until \in {"ever", "later"} => mute[<<u, p>>].sound]

Mentioned(m, u, mentions) ==
  \/ ~m.noMentions /\ \E t \in mentions : t.kind \in {"id", "club"} /\ t.user = u
  \/ /\ ~m.noMass /\ ~m.noMentions
     /\ \E t \in mentions : t.kind = "all" \/ (t.kind = "online" /\ u \in OnlineNow)

\* Mutant of EventFor: everybody gets the peer that the sender has named.
EventForPeer(j, u) ==
  [mid |-> j.mid, outbox |-> u = j.from, muted |-> u \in j.muted,
   mention |-> u # j.from /\ u \in j.mentioned, peer |-> j.peer]

\* Both ends of a dialogue name the other one.
EventFor(j, u) ==
  [mid |-> j.mid, outbox |-> u = j.from, muted |-> u \in j.muted,
   mention |-> u # j.from /\ u \in j.mentioned,
   peer |-> IF u = j.from \/ j.peer = Chat THEN j.peer ELSE j.from]

Event == [mid : Nat, outbox : BOOLEAN, muted : BOOLEAN, mention : BOOLEAN, peer : Peer]
Job == [call : Call, mid : Nat, from : Member, peer : Peer, todo : SUBSET Member,
        muted : SUBSET Member, mentioned : SUBSET Member]

TypeOK ==
  /\ inChat \subseteq Member /\ mute \in Settings
  /\ key \in [RidKey -> Int] /\ lapsed \in [RidKey -> Nat]
  /\ rows \in Seq([rid : RidKey, chat : {GetInternalChatID(p, u) : p \in Peer, u \in Member}])
  /\ req \in [Call -> Request]
  /\ pc \in [Call -> {"start", "check", "get", "claim", "owner", "tx", "drop", "save",
                      "spawn", "done", "dead"}]
  /\ at \in [Call -> Nat] /\ \A k \in Call : at[k] \in DOMAIN req[k].peers
  /\ gone \subseteq Call
  /\ mid \in [Call -> Nat] /\ answers \in [Call -> Seq(Nat)]
  /\ mass \subseteq Call /\ unseen \subseteq Nat /\ unasked \subseteq Nat
  /\ jobs \subseteq Job /\ feed \in [Member -> Seq(Event)]
  /\ faults \in 0 .. MaxFaults /\ expiries \in 0 .. MaxExpiries

Init ==
  /\ inChat = Founders /\ mute \in Settings
  /\ key = [r \in RidKey |-> Missing] /\ lapsed = [r \in RidKey |-> 0]
  /\ rows = << >>
  /\ req \in Scenarios
  /\ pc = [k \in Call |-> "start"] /\ at = [k \in Call |-> 1]
  /\ gone = {} /\ mid = [k \in Call |-> 0] /\ answers = [k \in Call |-> << >>]
  /\ mass = {} /\ unseen = {} /\ unasked = {}
  /\ jobs = {} /\ feed = [u \in Member |-> << >>]
  /\ faults = 0 /\ expiries = 0

-----------------------------------------------------------------------------
(* A call.                                                                 *)

At(k, p) == pc[k] = p
Goto(k, p) == pc' = [pc EXCEPT ![k] = p] /\ UNCHANGED <<req, at, gone, mid, answers>>
Fault == faults < MaxFaults /\ faults' = faults + 1 /\ UNCHANGED expiries
Calm == UNCHANGED <<faults, expiries>>

\* A failure, or for a client that is gone the cancelled context of the request.
Broken(k) == IF k \in gone THEN Calm ELSE Fault

\* The answer for one peer: a message id, or 0 for an error.  Then the next peer.
Return(k, answer) ==
  /\ answers' = [answers EXCEPT ![k] = Append(@, answer)]
  /\ IF at[k] < Len(req[k].peers)
     THEN at' = [at EXCEPT ![k] = @ + 1] /\ pc' = [pc EXCEPT ![k] = "check"]
     ELSE UNCHANGED at /\ pc' = [pc EXCEPT ![k] = "done"]
  /\ UNCHANGED <<req, gone, mid>>

\* The whole request is answered with one error.
Refuse(k) ==
  /\ pc' = [pc EXCEPT ![k] = "done"] /\ answers' = [answers EXCEPT ![k] = <<0>>]
  /\ UNCHANGED <<req, at, gone, mid>>

Validate(k) ==
  /\ At(k, "start")
  /\ IF Acceptable(req[k].message) /\ Len(req[k].peers) <= MaxPeers THEN Goto(k, "check")
     ELSE Refuse(k)
  /\ Calm /\ UNCHANGED <<store, jobs, feed, notes>>

\* Forwarded messages that cannot be read are refused.
ValidateFails(k) ==
  /\ At(k, "start") /\ Acceptable(req[k].message) /\ Forwarded(req[k].message) = "visible"
  /\ Refuse(k)
  /\ Fault /\ UNCHANGED <<store, jobs, feed, notes>>

\* Members write to their chat, communities to users who have written to them,
\* nobody to nobody.
MayWrite(u, p) ==
  /\ p # NoPeer
  /\ p = Chat => u \in inChat
  /\ p # Chat /\ u < 0 =>
       p > 0 /\ \E i \in DOMAIN rows : /\ rows[i].chat = GetInternalChatID(p, u)
                                       /\ rows[i].rid[1] = p

Check(k) ==
  /\ At(k, "check")
  /\ IF MayWrite(req[k].from, Target(k)) THEN Goto(k, "get") ELSE Return(k, 0)
  /\ Calm /\ UNCHANGED <<store, jobs, feed, notes>>

\* Members, or the messages of a user, that cannot be read: no access.
CheckFails(k) ==
  /\ At(k, "check") /\ (Target(k) = Chat \/ (req[k].from < 0 /\ Target(k) > 0))
  /\ Return(k, 0) /\ Fault /\ UNCHANGED <<store, jobs, feed, notes>>

\* GET: a finished message is answered again, one in progress is an error.
Lookup(k) ==
  /\ At(k, "get")
  /\ \/ key[Rid(k)] = Processing /\ Return(k, 0) /\ Calm
     \/ key[Rid(k)] > 0 /\ Return(k, key[Rid(k)]) /\ Calm
     \/ key[Rid(k)] = Missing /\ Goto(k, "claim") /\ Calm
     \/ Goto(k, "claim") /\ Broken(k)
  /\ UNCHANGED <<store, jobs, feed, notes>>

SetKey(k, value) == key' = [key EXCEPT ![Rid(k)] = value] /\ UNCHANGED <<inChat, mute, lapsed, rows>>

\* Mutant of Claim: a key that is there is no obstacle.
ClaimAlways(k) ==
  /\ At(k, "claim") /\ SetKey(k, Processing) /\ Goto(k, "owner") /\ Calm
  /\ UNCHANGED <<jobs, feed, notes>>

\* SETNX for 15 seconds; its reply may be lost, and then nobody deletes the key.
Claim(k) ==
  /\ At(k, "claim")
  /\ \/ key[Rid(k)] = Missing /\ SetKey(k, Processing) /\ Goto(k, "owner") /\ Calm
     \/ key[Rid(k)] # Missing /\ UNCHANGED store /\ Return(k, 0) /\ Calm
     \/ UNCHANGED store /\ Return(k, 0) /\ Broken(k)
     \/ key[Rid(k)] = Missing /\ SetKey(k, Processing) /\ Return(k, 0) /\ Fault
  /\ UNCHANGED <<jobs, feed, notes>>

\* On to the transaction, with what the call has found about mass mentions.
Proceed(k, may) ==
  /\ req[k].message.reply \in {"none", "visible"} /\ Goto(k, "tx")
  /\ mass' = (IF may THEN mass \cup {k} ELSE mass \ {k}) /\ UNCHANGED <<unseen, unasked>>

Examine(k) ==
  /\ At(k, "owner")
  /\ \/ Proceed(k, MayMention(k, TRUE, TRUE))
     \/ req[k].message.reply \notin {"none", "visible"} /\ Goto(k, "drop") /\ UNCHANGED notes
  /\ Calm /\ UNCHANGED <<store, jobs, feed>>

\* A reply that cannot be read is refused; the rest is taken as MayMention says.
ExamineFails(k) ==
  /\ At(k, "owner")
  /\ \/ \E c, m \in BOOLEAN : Proceed(k, MayMention(k, c, m))
     \/ req[k].message.reply = "visible" /\ Goto(k, "drop") /\ UNCHANGED notes
  /\ Fault /\ UNCHANGED <<store, jobs, feed>>

\* Mutant of Commit: it takes the id before its own.
CommitBehind(k) ==
  /\ At(k, "tx")
  /\ rows' = Append(rows, [rid |-> Rid(k), chat |-> GetInternalChatID(Target(k), req[k].from)])
  /\ mid' = [mid EXCEPT ![k] = Len(rows) - 1]
  /\ pc' = [pc EXCEPT ![k] = "save"]
  /\ Calm /\ UNCHANGED <<inChat, mute, key, lapsed, req, at, gone, answers, jobs, feed, notes>>

Insert(k) ==
  /\ rows' = Append(rows, [rid |-> Rid(k), chat |-> GetInternalChatID(Target(k), req[k].from)])
  /\ UNCHANGED <<inChat, mute, key, lapsed>>

Commit(k) ==
  /\ At(k, "tx") /\ Insert(k)
  /\ mid' = [mid EXCEPT ![k] = Len(rows) + 1] /\ pc' = [pc EXCEPT ![k] = "save"]
  /\ Calm /\ UNCHANGED <<req, at, gone, answers, jobs, feed, notes>>

RollBack(k) ==
  /\ At(k, "tx") /\ Goto(k, "drop") /\ Fault /\ UNCHANGED <<store, jobs, feed, notes>>

\* The database executes the COMMIT and its answer is lost: the message is there,
\* and the call takes it for one that is not.
CommitUnseen(k) ==
  /\ At(k, "tx") /\ Insert(k) /\ Goto(k, "drop")
  /\ unseen' = unseen \cup {Len(rows) + 1}
  /\ Fault /\ UNCHANGED <<jobs, feed, mass, unasked>>

\* The deferred DEL, with a context of its own, whoever owns the key by now.
Drop(k) ==
  /\ At(k, "drop")
  /\ \/ SetKey(k, Missing) /\ Calm
     \/ UNCHANGED store /\ Fault
  /\ Return(k, 0) /\ UNCHANGED <<jobs, feed, notes>>

\* Mutant of Save: the key is set to the number of the attempt.
SaveAt(k) ==
  /\ At(k, "save") /\ SetKey(k, at[k]) /\ Goto(k, "spawn") /\ Calm
  /\ UNCHANGED <<jobs, feed, notes>>

\* SET for 24 hours, with the context of the request and its error dropped.
Save(k) ==
  /\ At(k, "save")
  /\ \/ k \notin gone /\ SetKey(k, mid[k]) /\ Calm
     \/ UNCHANGED store /\ Broken(k)
  /\ Goto(k, "spawn") /\ UNCHANGED <<jobs, feed, notes>>

\* Whoever is in the chat by now, or both ends of the dialogue.
Recipients(k) == IF Target(k) = Chat THEN inChat ELSE {req[k].from, Target(k)}

\* A goroutine for the recipients R that has found the mutes of M
NewJob(k, R, M) ==
  LET row(u) == IF u \in M THEN mute[<<u, Target(k)>>] ELSE NoMute
  IN  [call |-> k, mid |-> mid[k], from |-> req[k].from, peer |-> Target(k), todo |-> R,
       muted |-> {u \in R : Muted(row(u))},
       mentioned |-> {u \in R : Mentioned(row(u), u, ValidMentions(k))}]

Spawn(k) ==
  /\ At(k, "spawn") /\ jobs' = jobs \cup {NewJob(k, Recipients(k), Recipients(k))}
  /\ Return(k, mid[k]) /\ Calm /\ UNCHANGED <<store, feed, notes>>

\* Members of the chat, or mutes, that cannot be read are not there.
SpawnFails(k) ==
  /\ At(k, "spawn")
  /\ \E R \in SUBSET Recipients(k), M \in SUBSET Recipients(k) :
       /\ R = Recipients(k) \/ (M = Recipients(k) /\ Target(k) = Chat)
       /\ jobs' = jobs \cup {NewJob(k, R, M)}
       /\ unasked' = IF R \subseteq M THEN unasked ELSE unasked \cup {mid[k]}
  /\ Return(k, mid[k]) /\ Fault /\ UNCHANGED <<store, feed, mass, unseen>>

Disconnect(k) ==
  /\ ~At(k, "done") /\ ~At(k, "dead") /\ k \notin gone
  /\ gone' = gone \cup {k} /\ Fault
  /\ UNCHANGED <<store, req, pc, at, mid, answers, jobs, feed, notes>>

Crash(k) ==
  /\ ~At(k, "start") /\ ~At(k, "dead") /\ Goto(k, "dead") /\ Fault
  /\ jobs' = {j \in jobs : j.call # k} /\ UNCHANGED <<store, feed, notes>>

-----------------------------------------------------------------------------
(* The goroutine, Redis, and the rest of the service.                      *)

\* Mutant of Tell: the first recipient is the last.
TellFirst(j, u) ==
  /\ u \in j.todo /\ jobs' = jobs \ {j}
  /\ feed' = [feed EXCEPT ![u] = Append(@, EventFor(j, u))] /\ Calm
  /\ UNCHANGED <<store, calls, notes>>

\* new_msg for one recipient, in whatever order; a push that fails is skipped.
Tell(j, u) ==
  /\ u \in j.todo
  /\ jobs' = (jobs \ {j}) \cup
       (IF j.todo = {u} THEN {} ELSE {[j EXCEPT !.todo = @ \ {u}]})
  /\ \/ feed' = [feed EXCEPT ![u] = Append(@, EventFor(j, u))] /\ Calm
     \/ UNCHANGED feed /\ Fault
  /\ UNCHANGED <<store, calls, notes>>

\* Its ten seconds are over: nobody else is told.
GiveUp(j) ==
  /\ jobs' = jobs \ {j} /\ Fault /\ UNCHANGED <<store, calls, feed, notes>>

Held(r) == \E k \in Call : pc[k] \in {"owner", "tx", "drop", "save"} /\ Rid(k) = r

\* Mutant of Expire: the key is claimed without a time to live.
ExpireIds(r) ==
  /\ key[r] > 0
  /\ key' = [key EXCEPT ![r] = Missing] /\ lapsed' = [lapsed EXCEPT ![r] = @ + 1]
  /\ expiries < MaxExpiries /\ expiries' = expiries + 1 /\ UNCHANGED faults
  /\ UNCHANGED <<inChat, mute, rows, calls, jobs, feed, notes>>

\* The 15 seconds, or the 24 hours, are over.  A transaction may take longer.
Expire(r) ==
  /\ key[r] # Missing
  /\ key' = [key EXCEPT ![r] = Missing] /\ lapsed' = [lapsed EXCEPT ![r] = @ + 1]
  /\ IF key[r] = Processing /\ ~Held(r) THEN Calm
     ELSE expiries < MaxExpiries /\ expiries' = expiries + 1 /\ UNCHANGED faults
  /\ UNCHANGED <<inChat, mute, rows, calls, jobs, feed, notes>>

\* A member leaves the chat (messages.removeChatUser).
Leave(u) ==
  /\ u \in inChat /\ inChat' = inChat \ {u} /\ Fault
  /\ UNCHANGED <<mute, key, lapsed, rows, calls, jobs, feed, notes>>

Failure(k) == \/ ValidateFails(k) \/ CheckFails(k) \/ ExamineFails(k)
              \/ RollBack(k) \/ CommitUnseen(k) \/ SpawnFails(k)
Step(k) == \/ Validate(k) \/ Check(k) \/ Lookup(k) \/ Claim(k) \/ Examine(k)
           \/ Commit(k) \/ Drop(k) \/ Save(k) \/ Spawn(k) \/ Failure(k)

Next ==
  \/ \E k \in Call : Step(k) \/ Disconnect(k) \/ Crash(k)
  \/ \E j \in jobs : GiveUp(j) \/ \E u \in Member : Tell(j, u)
  \/ \E r \in RidKey : Expire(r)
  \/ \E u \in Member : Leave(u)

Spec == Init /\ [][Next]_vars

\* Some call that can go on does, and so do goroutines and expiring keys.  There
\* are finitely many of their steps, so nobody is passed over for ever.
FairSpec ==
  /\ Spec
  /\ WF_vars(\E k \in Call : Step(k))
  /\ WF_vars(\E j \in jobs, u \in Member : Tell(j, u))
  /\ WF_vars(\E r \in RidKey : Expire(r))

-----------------------------------------------------------------------------
(* Properties.                                                             *)

Sent(r) == {i \in DOMAIN rows : rows[i].rid = r}

\* A random_id sends one message for each life of its key: beyond the first,
\* every message is paid for, by a key that has expired (under a call that was
\* too slow, or died, or could not write its result), or by a message of the same
\* random_id whose COMMIT was taken for a failure, so that its call has freed the
\* key.  Nothing else - no retry, no transaction that is rolled back, no lost
\* reply of Redis, no DEL of a key that is somebody else's - sends twice.
OncePerKeyLife ==
  \A r \in RidKey :
    Cardinality(Sent(r)) <= 1 + lapsed[r] + Cardinality(Sent(r) \cap unseen)

\* What a call answers is a message that was sent to the peer with the random_id
\* of its request, by itself or by the call that it repeats.
AnswersAreSent ==
  \A k \in Call : \A i \in DOMAIN answers[k] :
    answers[k][i] # 0 =>
      /\ answers[k][i] \in DOMAIN rows
      /\ LET r == rows[answers[k][i]].rid
         IN  r[1] = req[k].from /\ r[2] = req[k].peers[i]

\* What a participant is told fits what he finds when he asks: every end files
\* the message under the conversation it is stored in, and a member who has
\* silenced a group chat is told so with its messages, but for those whose
\* goroutine could not read who has silenced it.
ToldAsFound ==
  \A u \in Member : \A i \in DOMAIN feed[u] :
    LET e == feed[u][i]
    IN  /\ rows[e.mid].chat = GetInternalChatID(e.peer, u)
        /\ e.peer = Chat /\ e.mid \notin unasked /\ FetchPushSettings(u, Chat).disabled
             => e.muted

\* No key says for ever that a message is being processed: in the end a client
\* that repeats its request is not refused.
KeysAreFreed == <>[](\A r \in RidKey : key[r] # Processing)

\* Without failures every message is told once to everybody in the chat, or to
\* both ends of the dialogue.
Ends(r) == IF r[2] = Chat THEN inChat ELSE {r[1], r[2]}
Delivered ==
  <>[](faults = 0 =>
         \A m \in DOMAIN rows : \A u \in Ends(rows[m].rid) :
           Cardinality({i \in DOMAIN feed[u] : feed[u][i].mid = m}) = 1)
=============================================================================
