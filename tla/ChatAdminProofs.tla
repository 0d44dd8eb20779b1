-------------------------- MODULE ChatAdminProofs --------------------------
(***************************************************************************)
(* Theorems about ChatAdmin for any users, calls, requests and failures:   *)
(* the types, that roles end with membership, that members are offered to  *)
(* remove just whom they may remove, that a change of permissions or flags *)
(* is not lost, that joins by a link are counted within its limit, and     *)
(* that the rows say what was announced last.                              *)
(***************************************************************************)
EXTENDS ChatAdmin, FiniteSetTheorems, WellFoundedInduction, TLAPS

-----------------------------------------------------------------------------
(* Types.                                                                  *)

Point == {"start", "write", "tell", "pick", "add", "count", "done"}

\* A member's move through a link is counted on a link that exists.
LinkChosen ==
  \A k \in Call : pc[k] \in {"add", "count"} => snap[k].link \in DOMAIN invites

\* What is pinned is a message, who is at the table has a request of his kind.
Writing ==
  \A k \in Call :
    /\ pc[k] \in {"write", "tell"} =>
         Is(k, {"appoint", "dismiss", "permit", "title", "photo", "pin", "unpin", "flags", "mute"})
    /\ pc[k] = "write" /\ Is(k, {"pin"}) => snap[k].msg \in Message

TypeInv == TypeOK /\ LinkChosen /\ Writing

LEMMA LevelsTyped ==
  ASSUME NEW old \in [Permission -> Level], NEW q \in Request
  PROVE  /\ NewLevels(old, q.levels) \in [Permission -> Level]
         /\ \A p \in Permission : NewLevels(old, q.levels)[p] \in Allowed(p)
<1>1. DefaultChatPermissions \in [Permission -> Level]
  BY DEF DefaultChatPermissions, Level, Permission
<1>2. \A p \in Permission : DefaultChatPermissions[p] \in Allowed(p)
  BY DEF DefaultChatPermissions, Level, Permission, Allowed
<1>3. \A p \in Permission : Allowed(p) \subseteq Level
  BY DEF Allowed, Level
<1> QED
  BY <1>1, <1>2, <1>3 DEF NewLevels, Normalized

LEMMA RequestTyped ==
  ASSUME TypeOK, NEW k \in Call
  PROVE  /\ req[k] \in Request /\ By(k) \in User /\ Who(k) \in User
         /\ req[k].what \in Nat /\ req[k].reset \in BOOLEAN /\ req[k].kind \in Kind
  BY DEF TypeOK, Request, By, Who

LEMMA SnapTyped ==
  ASSUME TypeOK, NEW k \in Call
  PROVE  /\ snap[k].levels \in [Permission -> Level] /\ snap[k].bits \in SUBSET Bits
         /\ snap[k].msg \in Message \cup {0} /\ snap[k].msg \in Nat /\ snap[k].link \in Nat
<1>1. snap[k] \in Snap
  BY DEF TypeOK
<1>2. /\ snap[k].levels \in [Permission -> Level] /\ snap[k].bits \in SUBSET Bits
      /\ snap[k].msg \in Message \cup {0} /\ snap[k].link \in Nat
  BY <1>1 DEF Snap
<1>3. Message \cup {0} \subseteq Nat
  BY ChatAdminAssumption
<1> QED
  BY <1>2, <1>3

LEMMA AboutTyped ==
  ASSUME TypeOK, NEW k \in Call
  PROVE  About(k) \in Topic
<1>1. snap[k].link \in Nat
  BY SnapTyped
<1> QED
  BY <1>1, RequestTyped DEF About, Topic, Is

LEMMA InitTyped ==
  ASSUME Init
  PROVE  TypeInv
<1>1. DefaultChatPermissions \in [Permission -> Level]
      /\ \A p \in Permission : DefaultChatPermissions[p] \in Allowed(p)
  BY DEF DefaultChatPermissions, Level, Permission, Allowed
<1>2. NoSnap \in Snap
  BY <1>1 DEF NoSnap, Snap
<1>3. joined \in Seq(Seq(User)) /\ Len(joined) = Len(invites)
  <2>1. joined = [i \in 1 .. Len(Invites) |-> << >>]
    BY ChatAdminAssumption DEF Init
  <2>2. << >> \in Seq(User)
    OBVIOUS
  <2>3. Len(Invites) \in Nat
    BY ChatAdminAssumption
  <2> QED
    BY <2>1, <2>2, <2>3 DEF Init
<1>4. /\ told \in [User -> [flags : SUBSET Bits, mute : Nat]]
      /\ log \in Seq(Entry)
  BY DEF Init
<1> QED
  BY <1>1, <1>2, <1>3, <1>4, ChatAdminAssumption
  DEF Init, TypeInv, TypeOK, LinkChosen, Writing, Bits

\* A call that moves on, with all rows as they were.
LEMMA CheckTyped ==
  ASSUME TypeInv, NEW k \in Call, Check(k), UNCHANGED faults
  PROVE  TypeInv'
<1>1. CASE Refuse(k, Allows(k))
  BY <1>1 DEF Refuse, Goto, TypeInv, TypeOK, LinkChosen, Writing, Is, rows, past
<1>2. CASE Allows(k) /\ Begin(k, IF Is(k, {"photo"}) THEN "tell" ELSE "write", About(k))
  <2>1. PICK p \in {"write", "tell"} : pc' = [pc EXCEPT ![k] = p]
    BY <1>2 DEF Begin, Goto
  <2>2. /\ UNCHANGED <<rows, log, told, req, joined>>
    BY <1>2 DEF Check, Refuse, past
  <2> PICK M \in Chosen(k) : snap' = [snap EXCEPT ![k].levels = perms, ![k].bits = flags[By(k)], ![k].msg = M]
    BY <1>2 DEF Check, Refuse
  <2>0. M \in Message \cup {0} /\ (Is(k, {"pin"}) => M \in Message)
    BY DEF Chosen, Named
  <2>3. snap' \in [Call -> Snap]
        /\ \A o \in Call : snap'[o].link = snap[o].link /\ (o # k => snap'[o] = snap[o])
        /\ snap'[k].msg = M
    <3>1. perms \in [Permission -> Level] /\ flags[By(k)] \in SUBSET Bits
      BY RequestTyped DEF TypeInv, TypeOK
    <3>2. PICK L \in {perms}, B \in {flags[By(k)]} : TRUE
      OBVIOUS
    <3>3. snap' = [snap EXCEPT ![k] = [snap[k] EXCEPT !.levels = L, !.bits = B, !.msg = M]]
      BY <3>2
    <3>4. snap \in [Call -> Snap]
      BY DEF TypeInv, TypeOK
    <3>5. PICK s \in {[snap[k] EXCEPT !.levels = L, !.bits = B, !.msg = M]} : TRUE
      OBVIOUS
    <3>6. s \in Snap /\ s.link = snap[k].link /\ s.msg = M
      BY <2>0, <3>1, <3>2, <3>4, <3>5 DEF Snap
    <3>7. snap' = [snap EXCEPT ![k] = s]
      BY <3>3, <3>5
    <3>8. snap' \in [Call -> Snap]
      BY <3>4, <3>6, <3>7
    <3>9. \A o \in Call : snap'[o] = IF o = k THEN s ELSE snap[o]
      BY <3>4, <3>7
    <3> QED
      BY <3>6, <3>8, <3>9
  <2>4. overlap' \subseteq Topic
    BY <1>2, AboutTyped DEF Begin, TypeInv, TypeOK
  <2>5. TypeOK'
    BY <2>1, <2>2, <2>3, <2>4 DEF TypeInv, TypeOK, rows
  <2>6. LinkChosen'
    BY <2>1, <2>2, <2>3 DEF TypeInv, TypeOK, LinkChosen, rows
  <2>7. Is(k, {"pin"}) => snap'[k].msg \in Message
    BY <2>0, <2>3
  <2>8. Is(k, {"appoint", "dismiss", "permit", "title", "photo", "pin", "unpin", "flags", "mute"})
    BY DEF Check
  <2>9. Writing'
    BY <2>1, <2>2, <2>3, <2>7, <2>8 DEF TypeInv, TypeOK, Writing, Is
  <2> QED
    BY <2>5, <2>6, <2>9 DEF TypeInv
<1> QED
  BY <1>1, <1>2 DEF Check

LEMMA WriteTyped ==
  ASSUME TypeInv, NEW k \in Call, Write(k), UNCHANGED faults
  PROVE  TypeInv'
<1>1. PICK p \in {"tell", "done"} : pc' = [pc EXCEPT ![k] = p]
  BY DEF Write, Goto
<1>2. pc[k] = "write" /\ UNCHANGED <<member, deleted, hidden, covered, invites, log, told, req, snap,
                                     joined, overlap>>
  BY DEF Write
<1>3. perms' \in [Permission -> Level] /\ \A p1 \in Permission : perms'[p1] \in Allowed(p1)
  <2>1. CASE WritePermissions(k)
    <3>1. snap[k].levels \in [Permission -> Level] /\ req[k] \in Request
      BY RequestTyped, SnapTyped DEF TypeInv
    <3> QED
      BY <2>1, <3>1, LevelsTyped DEF WritePermissions
  <2>2. CASE UNCHANGED perms
    BY <2>2 DEF TypeInv, TypeOK
  <2> QED
    BY <2>1, <2>2 DEF Write, WriteRole, WriteTitle, WritePin, WriteFlags, WriteMute
<1>4. admin' \in [User -> BOOLEAN]
  <2>1. CASE WriteRole(k)
    <3>1. Is(k, {"appoint"}) \in BOOLEAN /\ admin' = [admin EXCEPT ![Who(k)] = Is(k, {"appoint"})]
      BY <2>1 DEF WriteRole, NewRole, Is
    <3> QED
      BY <3>1 DEF TypeInv, TypeOK
  <2>2. CASE UNCHANGED admin
    BY <2>2 DEF TypeInv, TypeOK
  <2> QED
    BY <2>1, <2>2 DEF Write, WritePermissions, WriteTitle, WritePin, WriteFlags, WriteMute
<1>5. title' \in Nat /\ mute' \in [User -> Nat]
  BY RequestTyped DEF Write, WriteRole, WritePermissions, WriteTitle, WritePin, WriteFlags, WriteMute,
     TypeInv, TypeOK
<1>6. pinned' \in Message \cup {0}
  BY <1>2 DEF Write, WriteRole, WritePermissions, WriteTitle, WritePin, WriteFlags, WriteMute,
     TypeInv, TypeOK, Writing
<1>7. flags' \in [User -> SUBSET Bits]
  <2>1. NewBits(k, snap[k].bits) \subseteq Bits
    BY SnapTyped DEF NewBits, Mask, Bits, TypeInv
  <2> QED
    BY <2>1, RequestTyped DEF Write, WriteRole, WritePermissions, WriteTitle, WritePin, WriteFlags,
       WriteMute, TypeInv, TypeOK
<1>8. TypeOK'
  BY <1>1, <1>2, <1>3, <1>4, <1>5, <1>6, <1>7 DEF TypeInv, TypeOK
<1> QED
  BY <1>1, <1>2, <1>8 DEF TypeInv, TypeOK, LinkChosen, Writing, Is

LEMMA TellTyped ==
  ASSUME TypeInv, NEW k \in Call, Tell(k), UNCHANGED faults
  PROVE  TypeInv'
<1>1. pc' = [pc EXCEPT ![k] = "done"] /\ UNCHANGED <<rows, req, snap, past>>
  BY DEF Tell, Goto
<1>2. log' \in Seq(Entry)
  <2>1. ASSUME NEW v \in Nat PROVE [topic |-> About(k), value |-> v] \in Entry
    BY <2>1, AboutTyped DEF Entry, TypeInv
  <2>2. \A v \in Nat : Append(log, [topic |-> About(k), value |-> v]) \in Seq(Entry)
    BY <2>1 DEF TypeInv, TypeOK
  <2>3. log \in Seq(Entry) /\ req[k].what \in Nat /\ snap[k].msg \in Nat
    BY RequestTyped, SnapTyped DEF TypeInv, TypeOK
  <2> QED
    BY <2>2, <2>3 DEF Tell, AnnounceRole, AnnounceTitle, AnnouncePhoto, AnnouncePin, AnnounceUnpin,
       SendChatFlagsUpdate, SendNotificationSet, Announce, Say
<1>3. told' \in [User -> [flags : SUBSET Bits, mute : Nat]]
  <2>1. NewBits(k, snap[k].bits) \subseteq Bits
    BY SnapTyped DEF NewBits, Mask, Bits, TypeInv
  <2>2. CASE SendChatFlagsUpdate(k)
    <3>1. ASSUME NEW t \in [flags : SUBSET Bits, mute : Nat], NEW b \in SUBSET Bits
          PROVE  [t EXCEPT !.flags = b] \in [flags : SUBSET Bits, mute : Nat]
      OBVIOUS
    <3>2. told' = [told EXCEPT ![By(k)] = [@ EXCEPT !.flags = NewBits(k, snap[k].bits)]]
      BY <2>2 DEF SendChatFlagsUpdate
    <3> QED
      BY <2>1, <3>1, <3>2 DEF TypeInv, TypeOK
  <2>3. CASE SendNotificationSet(k)
    BY <2>3, RequestTyped DEF SendNotificationSet, TypeInv, TypeOK
  <2>4. CASE UNCHANGED told
    BY <2>4 DEF TypeInv, TypeOK
  <2> QED
    BY <2>2, <2>3, <2>4 DEF Tell, AnnounceRole, AnnounceTitle, AnnouncePhoto, AnnouncePin,
       AnnounceUnpin, Announce
<1> QED
  BY <1>1, <1>2, <1>3 DEF TypeInv, TypeOK, LinkChosen, Writing, Is, rows, past

LEMMA DepartTyped ==
  ASSUME TypeInv, NEW k \in Call, NEW roles \in [User -> BOOLEAN], Depart(k, roles),
         faults' \in 0 .. MaxFaults
  PROVE  TypeInv'
<1>1. overlap' \subseteq Topic
  BY AboutTyped DEF Depart, Begin, TypeInv, TypeOK
<1>2. log' \in Seq(Entry)
  <2>1. [topic |-> About(k), value |-> 0] \in Entry
    BY AboutTyped DEF Entry, TypeInv
  <2> QED
    BY <2>1 DEF Depart, Say, TypeInv, TypeOK
<1>3. /\ UNCHANGED <<perms, title, pinned, flags, mute, deleted, hidden, covered, invites, told, req,
                     snap, joined>>
      /\ member' = [member EXCEPT ![Who(k)] = IF Is(k, {"kick"}) THEN "removed" ELSE "left"]
      /\ pc' = [pc EXCEPT ![k] = "done"] /\ admin' = roles
  BY DEF Depart, Begin, Goto
<1> QED
  BY <1>1, <1>2, <1>3, RequestTyped DEF TypeInv, TypeOK, LinkChosen, Writing, Is

LEMMA MembershipTyped ==
  ASSUME TypeInv, NEW k \in Call, Delete(k) \/ Remove(k) \/ Add(k), UNCHANGED faults
  PROVE  TypeInv'
<1>1. CASE Delete(k)
  <2>1. deleted' \subseteq Message /\ hidden' \in [User -> SUBSET Message]
    BY <1>1, RequestTyped DEF Delete, Named, TypeInv, TypeOK
  <2>2. /\ pc' = [pc EXCEPT ![k] = "done"]
        /\ UNCHANGED <<perms, title, pinned, member, admin, flags, mute, covered, invites, log, told, req,
                       snap, past, faults>>
    BY <1>1 DEF Delete, Goto
  <2> QED
    BY <2>1, <2>2 DEF TypeInv, TypeOK, LinkChosen, Writing, Is, past
<1>2. CASE Remove(k) /\ Refuse(k, CanRemove(k))
  BY <1>2 DEF Refuse, Goto, TypeInv, TypeOK, LinkChosen, Writing, Is, rows, past
<1>3. CASE Depart(k, Dismissed(Who(k)))
  <2>1. Dismissed(Who(k)) \in [User -> BOOLEAN]
    BY RequestTyped DEF Dismissed, TypeInv, TypeOK
  <2>2. faults' \in 0 .. MaxFaults
    BY DEF TypeInv, TypeOK
  <2> QED
    BY <1>3, <2>1, <2>2, DepartTyped
<1>4. CASE Add(k) /\ Refuse(k, CanAdd(k))
  BY <1>4 DEF Refuse, Goto, TypeInv, TypeOK, LinkChosen, Writing, Is, rows, past
<1>5. CASE /\ member' = [member EXCEPT ![Who(k)] = "active"] /\ covered' = Cover(Who(k), req[k].reset)
           /\ UNCHANGED <<perms, title, pinned, admin, flags, mute, deleted, hidden, invites, log, told,
                          req, snap, past>>
           /\ pc' = [pc EXCEPT ![k] = "done"]
  <2>1. covered' \in [User -> BOOLEAN]
    BY <1>5, RequestTyped DEF Cover, TypeInv, TypeOK
  <2> QED
    BY <1>5, <2>1, RequestTyped DEF TypeInv, TypeOK, LinkChosen, Writing, Is, past
<1> QED
  BY <1>1, <1>2, <1>3, <1>4, <1>5 DEF Remove, Add, Goto

LEMMA LinkTyped ==
  ASSUME TypeInv, NEW k \in Call, LinkCheck(k) \/ LinkPick(k), UNCHANGED faults
  PROVE  TypeInv'
<1> DEFINE n == Len(invites)
<1>1. n \in Nat /\ DOMAIN invites = 1 .. n /\ \A i \in 1 .. n : invites[i] \in Invite
  BY DEF TypeInv, TypeOK
<1>2. CASE LinkCheck(k) /\ Refuse(k, IsMember(By(k)) /\ admin[By(k)])
  BY <1>2 DEF Refuse, Goto, TypeInv, TypeOK, LinkChosen, Writing, Is, rows, past
<1>3. CASE LinkCheck(k) /\ pc' = [pc EXCEPT ![k] = "pick"]
           /\ invites' = (IF req[k].reset THEN [i \in DOMAIN invites |-> [invites[i] EXCEPT !.revoked = TRUE]]
                          ELSE invites)
           /\ UNCHANGED <<perms, title, pinned, member, admin, flags, mute, deleted, hidden, covered,
                          log, told, req, snap, past>>
  <2>1. ASSUME NEW v \in Invite PROVE [v EXCEPT !.revoked = TRUE] \in Invite
    BY DEF Invite
  <2>2. invites' \in [1 .. n -> Invite]
    BY <1>1, <1>3, <2>1 DEF TypeInv, TypeOK
  <2>3. invites' \in Seq(Invite) /\ Len(invites') = n /\ DOMAIN invites' = 1 .. n
    BY <1>1, <2>2
  <2> QED
    BY <1>1, <1>3, <2>3 DEF TypeInv, TypeOK, LinkChosen, Writing, Is, past
<1>4. CASE LinkPick(k)
  <2> DEFINE new == [limit |-> req[k].what, used |-> 0, revoked |-> FALSE, history |-> Who(k) # By(k)]
  <2>1. new \in Invite
    <3>1. req[k].what \in Nat /\ (Who(k) # By(k)) \in BOOLEAN
      BY RequestTyped DEF TypeInv
    <3> QED
      BY <3>1 DEF Invite
  <2>2. << >> \in Seq(User)
    OBVIOUS
  <2>3. \/ UNCHANGED <<invites, joined>>
        \/ invites' = Append(invites, new) /\ joined' = Append(joined, << >>)
    BY <1>4 DEF LinkPick
  <2>4. /\ invites' \in Seq(Invite) /\ joined' \in Seq(Seq(User)) /\ Len(joined') = Len(invites')
        /\ DOMAIN invites \subseteq DOMAIN invites'
    <3> HIDE DEF new
    <3>1. /\ invites \in Seq(Invite) /\ joined \in Seq(Seq(User)) /\ Len(joined) = Len(invites)
      BY DEF TypeInv, TypeOK
    <3>2. /\ Append(invites, new) \in Seq(Invite) /\ Len(Append(invites, new)) = Len(invites) + 1
          /\ DOMAIN invites \subseteq DOMAIN Append(invites, new)
      BY <2>1, <3>1
    <3>3. /\ Append(joined, << >>) \in Seq(Seq(User)) /\ Len(Append(joined, << >>)) = Len(joined) + 1
      <4> DEFINE S == Seq(User)
      <4>1. joined \in Seq(S) /\ << >> \in S
        BY <2>2, <3>1
      <4> HIDE DEF S
      <4>2. Append(joined, << >>) \in Seq(S) /\ Len(Append(joined, << >>)) = Len(joined) + 1
        BY <4>1
      <4> QED
        BY <4>2 DEF S
    <3> QED
      BY <2>3, <3>1, <3>2, <3>3
  <2>5. /\ pc' = [pc EXCEPT ![k] = "done"]
        /\ UNCHANGED <<perms, title, pinned, member, admin, flags, mute, deleted, hidden, covered,
                       log, told, req,
                       snap, meant, overlap>>
    BY <1>4 DEF LinkPick, Goto
  <2> QED
    BY <2>4, <2>5 DEF TypeInv, TypeOK, LinkChosen, Writing, Is
<1> QED
  BY <1>2, <1>3, <1>4 DEF LinkCheck, Goto

LEMMA JoinTyped ==
  ASSUME TypeInv, NEW k \in Call, JoinCheck(k) \/ JoinAdd(k) \/ JoinCount(k), UNCHANGED faults
  PROVE  TypeInv'
<1> DEFINE n == Len(invites)
<1>1. n \in Nat /\ DOMAIN invites = 1 .. n /\ \A i \in 1 .. n : invites[i] \in Invite
  BY DEF TypeInv, TypeOK
<1>2. CASE JoinCheck(k) /\ pc' = [pc EXCEPT ![k] = "done"] /\ UNCHANGED <<rows, log, told, req, snap, past>>
  BY <1>2 DEF TypeInv, TypeOK, LinkChosen, Writing, Is, rows, past
<1>3. CASE JoinCheck(k) /\ n > 0 /\ Begin(k, "add", [on |-> "link", of |-> n])
           /\ snap' = [snap EXCEPT ![k].link = n] /\ UNCHANGED <<rows, log, told, req, joined, meant>>
  <2>1. [on |-> "link", of |-> n] \in Topic
    BY <1>1 DEF Topic
  <2>2. overlap' \subseteq Topic /\ pc' = [pc EXCEPT ![k] = "add"]
    BY <1>3, <2>1 DEF Begin, Goto, TypeInv, TypeOK
  <2>3. /\ snap' \in [Call -> Snap]
        /\ \A o \in Call : snap'[o].link = IF o = k THEN n ELSE snap[o].link
        /\ \A o \in Call : snap'[o].msg = snap[o].msg
    <3>1. ASSUME NEW v \in Snap
          PROVE  /\ [v EXCEPT !.link = n] \in Snap
                 /\ [v EXCEPT !.link = n].link = n
      BY <1>1 DEF Snap
    <3>2. snap' = [snap EXCEPT ![k] = [@ EXCEPT !.link = n]]
      BY <1>3
    <3>3. \A o \in Call : o # k => snap'[o] = snap[o]
      BY <3>2 DEF TypeInv, TypeOK
    <3>4. snap'[k].msg = snap[k].msg
      BY <3>2 DEF TypeInv, TypeOK, Snap
    <3> HIDE DEF n
    <3> QED
      BY <3>1, <3>2, <3>3, <3>4 DEF TypeInv, TypeOK
  <2> QED
    <3>1. TypeOK'
      BY <1>3, <2>2, <2>3 DEF TypeInv, TypeOK, rows
    <3>2. LinkChosen'
      BY <1>1, <1>3, <2>2, <2>3 DEF TypeInv, TypeOK, LinkChosen, rows
    <3>3. Writing'
      BY <1>3, <2>2, <2>3 DEF TypeInv, TypeOK, Writing, Is
    <3> QED
      BY <3>1, <3>2, <3>3 DEF TypeInv
<1>4. CASE JoinAdd(k)
  <2>1. snap[k].link \in 1 .. n /\ By(k) \in User
    BY <1>1, <1>4, RequestTyped DEF JoinAdd, TypeInv, LinkChosen
  <2>2. joined \in Seq(Seq(User)) /\ DOMAIN joined = 1 .. n
    BY <1>1 DEF TypeInv, TypeOK
  <2>3. Append(joined[snap[k].link], By(k)) \in Seq(User)
    BY <2>1, <2>2
  <2>4. joined' \in Seq(Seq(User)) /\ Len(joined') = n
    BY <1>1, <1>4, <2>1, <2>2, <2>3 DEF JoinAdd
  <2>5. PICK p \in {"count", "done"} : pc' = [pc EXCEPT ![k] = p]
    BY <1>4 DEF JoinAdd, Goto
  <2>6. member' \in [User -> {"none", "active", "left", "removed"}]
    BY <1>4, <2>1 DEF JoinAdd, TypeInv, TypeOK
  <2>7. pc[k] = "add"
        /\ UNCHANGED <<perms, title, pinned, admin, flags, mute, deleted, hidden, invites, log, told, req,
                       snap, meant, overlap>>
    BY <1>4 DEF JoinAdd
  <2>8. covered' \in [User -> BOOLEAN]
    <3>1. invites[snap[k].link].history \in BOOLEAN
      BY <1>1, <2>1 DEF Invite
    <3> QED
      BY <1>4, <2>1, <3>1 DEF JoinAdd, Cover, TypeInv, TypeOK
  <2> QED
    BY <2>4, <2>5, <2>6, <2>7, <2>8 DEF TypeInv, TypeOK, LinkChosen, Writing, Is
<1>5. CASE JoinCount(k)
  <2>1. snap[k].link \in 1 .. n
    BY <1>1, <1>5 DEF JoinCount, TypeInv, LinkChosen
  <2>2. ASSUME NEW v \in Invite PROVE [v EXCEPT !.used = v.used + 1] \in Invite
    BY DEF Invite
  <2>3. invites \in [1 .. n -> Invite]
    BY <1>1 DEF TypeInv, TypeOK
  <2>4. invites' \in [1 .. n -> Invite]
    <3> HIDE DEF n
    <3>1. invites' = [invites EXCEPT ![snap[k].link] =
                        [invites[snap[k].link] EXCEPT !.used = invites[snap[k].link].used + 1]]
      BY <1>5 DEF JoinCount
    <3> QED
      BY <2>1, <2>2, <2>3, <3>1
  <2>5. invites' \in Seq(Invite) /\ Len(invites') = n /\ DOMAIN invites' = 1 .. n
    BY <1>1, <2>4
  <2>6. /\ pc' = [pc EXCEPT ![k] = "done"]
        /\ UNCHANGED <<perms, title, pinned, member, admin, flags, mute, deleted, hidden, covered,
                       log, told, req, snap, past>>
    BY <1>5 DEF JoinCount, Goto
  <2> QED
    BY <1>1, <2>5, <2>6 DEF TypeInv, TypeOK, LinkChosen, Writing, Is, past
<1>6. JoinCheck(k) => \/ pc' = [pc EXCEPT ![k] = "done"] /\ UNCHANGED <<rows, log, told, req, snap, past>>
                      \/ /\ n > 0 /\ Begin(k, "add", [on |-> "link", of |-> n])
                         /\ snap' = [snap EXCEPT ![k].link = n]
                         /\ UNCHANGED <<rows, log, told, req, joined, meant>>
  BY DEF JoinCheck, Refuse, Goto
<1> QED
  BY <1>2, <1>3, <1>4, <1>5, <1>6

LEMMA FailTyped ==
  ASSUME TypeInv, NEW k \in Call, Fail(k)
  PROVE  TypeInv'
<1>1. faults' \in 0 .. MaxFaults
  BY ChatAdminAssumption DEF Fail, TypeInv, TypeOK
<1> QED
  BY <1>1 DEF Fail, Goto, TypeInv, TypeOK, LinkChosen, Writing, Is, rows, past

LEMMA MisreadTyped ==
  ASSUME TypeInv, NEW k \in Call, Misread(k)
  PROVE  TypeInv'
<1>1. [admin EXCEPT ![Who(k)] = FALSE] \in [User -> BOOLEAN]
  BY DEF TypeInv, TypeOK
<1>2. faults' \in 0 .. MaxFaults
  BY ChatAdminAssumption DEF Misread, TypeInv, TypeOK
<1> QED
  BY <1>1, <1>2, DepartTyped DEF Misread

\* Every reachable state is well typed (TypeOK), whoever calls what and dies
\* where.
THEOREM TypeCorrect == Spec => []TypeOK
<1>1. Init => TypeInv
  BY InitTyped
<1>2. TypeInv /\ [Next]_vars => TypeInv'
  <2>1. ASSUME TypeInv, NEW k \in Call, Step(k) PROVE TypeInv'
    BY <2>1, CheckTyped, WriteTyped, TellTyped, MembershipTyped, LinkTyped, JoinTyped DEF Step
  <2>2. ASSUME TypeInv, UNCHANGED vars PROVE TypeInv'
    BY <2>2 DEF TypeInv, TypeOK, LinkChosen, Writing, Is, vars, rows, calls, past
  <2> QED
    BY <2>1, <2>2, MisreadTyped, FailTyped DEF Next
<1>3. TypeInv => TypeOK
  BY DEF TypeInv
<1> QED
  BY <1>1, <1>2, <1>3, PTL DEF Spec

-----------------------------------------------------------------------------
(* Roles.                                                                  *)

\* Beside DepartedHaveNoRole: the owner keeps his flag while no query fails,
\* nobody is about to take it from him, and who is about to be appointed is still in, unless he is being
\* removed at the same time.
RoleInv ==
  /\ faults = 0 => admin[Owner]
  /\ DepartedHaveNoRole
  /\ \A k \in Call : pc[k] = "write" /\ Is(k, {"appoint", "dismiss"}) => Who(k) # Owner
  /\ \A k \in Call : pc[k] = "write" /\ Is(k, {"appoint"}) /\ About(k) \notin overlap
                       => IsMember(Who(k))

LEMMA RoleTopic ==
  ASSUME NEW k \in Call, Is(k, {"appoint", "dismiss", "leave", "kick"})
  PROVE  About(k) = [on |-> "role", of |-> Who(k)]
  BY DEF About, Is

\* A step that leaves the members in, and their roles, and starts no change.
LEMMA RolesStay ==
  ASSUME TypeInv, RoleInv, UNCHANGED <<req, admin>>, overlap \subseteq overlap',
         faults' = 0 => faults = 0,
         \A u \in User : IsMember(u) => IsMember(u)',
         \A k \in Call : pc'[k] = "write" => pc[k] = "write"
  PROVE  RoleInv'
<1>1. \A k \in Call : Is(k, {"appoint"}) => About(k)' = About(k)
  BY DEF About, Is, Who
<1>2. \A k \in Call : Who(k) \in User
  BY RequestTyped DEF TypeInv
<1> QED
  BY <1>1, <1>2 DEF RoleInv, DepartedHaveNoRole, Is, Who

LEMMA RoleInit ==
  ASSUME Init
  PROVE  RoleInv
  BY ChatAdminAssumption DEF Init, RoleInv, DepartedHaveNoRole, IsMember

LEMMA RoleCheck ==
  ASSUME TypeInv, RoleInv, NEW k \in Call, Check(k), UNCHANGED faults
  PROVE  RoleInv'
<1>1. CASE Refuse(k, Allows(k))
  BY <1>1, RolesStay DEF Refuse, Goto, TypeInv, TypeOK, IsMember, rows, past
<1>2. CASE Allows(k) /\ Begin(k, IF Is(k, {"photo"}) THEN "tell" ELSE "write", About(k))
           /\ UNCHANGED <<rows, req>>
  <2>1. overlap \subseteq overlap'
    BY <1>2 DEF Begin
  <2>2. \A o \in Call : pc'[o] = "write" => o = k \/ pc[o] = "write"
    BY <1>2 DEF Begin, Goto, TypeInv, TypeOK
  <2>3. Is(k, {"appoint", "dismiss"}) => CanAppoint(k)
    BY <1>2 DEF Allows, Is
  <2>4. \A o \in Call : Is(o, {"appoint"}) => About(o)' = About(o)
    BY <1>2 DEF About, Is, Who
  <2>5. DepartedHaveNoRole' /\ (faults' = 0 => admin'[Owner])
    BY <1>2, <2>1 DEF RoleInv, DepartedHaveNoRole, IsMember, rows
  <2>6. \A o \in Call : pc'[o] = "write" /\ Is(o, {"appoint", "dismiss"}) => Who(o) # Owner
    BY <2>2, <2>3 DEF RoleInv, CanAppoint
  <2>7. \A o \in Call : pc'[o] = "write" /\ Is(o, {"appoint"}) /\ About(o) \notin overlap'
                           => IsMember(Who(o))
    BY <2>1, <2>2, <2>3 DEF RoleInv, CanAppoint, Is
  <2> QED
    BY <1>2, <2>4, <2>5, <2>6, <2>7 DEF RoleInv, Is, Who, IsMember, rows
<1> QED
  BY <1>1, <1>2 DEF Check, Refuse

LEMMA RoleWrite ==
  ASSUME TypeInv, RoleInv, NEW k \in Call, Write(k), UNCHANGED faults
  PROVE  RoleInv'
<1>1. /\ pc[k] = "write" /\ UNCHANGED <<member, req, snap, overlap>>
      /\ \A o \in Call : pc'[o] = "write" => pc[o] = "write"
  BY DEF Write, Goto, TypeInv, TypeOK
<1>2. CASE UNCHANGED admin
  BY <1>1, <1>2, RolesStay DEF IsMember
<1>3. CASE WriteRole(k)
  <2>1. Is(k, {"appoint", "dismiss"}) /\ admin' = [admin EXCEPT ![Who(k)] = Is(k, {"appoint"})]
    BY <1>3 DEF WriteRole, NewRole
  <2>2. Who(k) \in User /\ Who(k) # Owner /\ Owner \in User
    BY <1>1, <2>1, RequestTyped, ChatAdminAssumption DEF RoleInv, TypeInv
  <2>3. faults' = 0 => admin'[Owner]
    BY <2>1, <2>2 DEF RoleInv, TypeInv, TypeOK
  <2>4. ASSUME NEW u \in User \ {Owner}, admin'[u], [on |-> "role", of |-> u] \notin overlap'
        PROVE  IsMember(u)'
    <3>1. CASE u # Who(k)
      BY <1>1, <2>1, <2>4, <3>1 DEF RoleInv, DepartedHaveNoRole, TypeInv, TypeOK, IsMember
    <3>2. CASE u = Who(k)
      <4>1. Is(k, {"appoint"})
        BY <2>1, <2>4, <3>2 DEF TypeInv, TypeOK
      <4>2. About(k) \notin overlap
        BY <1>1, <2>4, <3>2, <4>1, RoleTopic DEF Is
      <4> QED
        BY <1>1, <3>2, <4>1, <4>2 DEF RoleInv, IsMember
    <3> QED
      BY <3>1, <3>2
  <2>5. \A o \in Call : About(o)' = About(o)
    BY <1>1 DEF About, Is, Who, By
  <2> QED
    BY <1>1, <2>3, <2>4, <2>5 DEF RoleInv, DepartedHaveNoRole, Is, Who, IsMember
<1> QED
  BY <1>2, <1>3 DEF Write, WritePermissions, WriteTitle, WritePin, WriteFlags, WriteMute

\* Who is put out loses his role; the owner, only if a query failed.
LEMMA RoleDepart ==
  ASSUME TypeInv, RoleInv, NEW k \in Call, Is(k, {"leave", "kick"}), NEW roles, Depart(k, roles),
         roles = Dismissed(Who(k)) \/ (roles = [admin EXCEPT ![Who(k)] = FALSE] /\ faults' # 0),
         faults' = 0 => faults = 0
  PROVE  RoleInv'
<1>2. /\ Begin(k, "done", About(k)) /\ admin' = roles
      /\ member' = [member EXCEPT ![Who(k)] = IF Is(k, {"kick"}) THEN "removed" ELSE "left"]
      /\ UNCHANGED <<req, snap>>
  BY DEF Depart
<1> QED
  <2>1. About(k) = [on |-> "role", of |-> Who(k)] /\ Who(k) \in User
    BY RoleTopic, RequestTyped DEF Is, TypeInv
  <2>2. overlap \subseteq overlap'
    BY <1>2 DEF Begin
  <2>3. /\ \A u \in User \ {Owner} : admin'[u] = IF u = Who(k) THEN FALSE ELSE admin[u]
        /\ faults' = 0 => admin'[Owner] = admin[Owner]
        /\ \A u \in User : u # Who(k) => IsMember(u)' = IsMember(u)
    <3>1. admin \in [User -> BOOLEAN] /\ Owner \in User
      BY ChatAdminAssumption DEF TypeInv, TypeOK
    <3>2. \A u \in User : u # Who(k) => IsMember(u)' = IsMember(u)
      BY <1>2, <2>1 DEF IsMember, TypeInv, TypeOK
    <3>3. CASE admin' = [admin EXCEPT ![Who(k)] = admin[Who(k)] /\ Who(k) = Owner]
      BY <2>1, <3>1, <3>2, <3>3
    <3>4. CASE admin' = [admin EXCEPT ![Who(k)] = FALSE] /\ faults' # 0
      BY <2>1, <3>1, <3>2, <3>4
    <3> QED
      BY <1>2, <3>3, <3>4 DEF Dismissed
  <2>4. (faults' = 0 => admin'[Owner]) /\ DepartedHaveNoRole'
    BY <2>2, <2>3, ChatAdminAssumption DEF RoleInv, DepartedHaveNoRole
  <2>5. \A o \in Call : About(o)' = About(o)
    BY <1>2 DEF About, Is, Who, By
  <2>6. \A o \in Call : pc'[o] = "write" => o # k /\ pc[o] = "write"
    BY <1>2 DEF Begin, Goto, TypeInv, TypeOK
  <2>7. ASSUME NEW o \in Call, pc[o] = "write", o # k, Is(o, {"appoint"}), Who(o) = Who(k)
        PROVE  About(o) \in overlap'
    <3>1. Begun(o) /\ About(o) = About(k)
      BY <2>1, <2>7, RoleTopic DEF Begun, Is
    <3> QED
      BY <1>2, <2>7, <3>1 DEF Begin
  <2>8. ASSUME NEW o \in Call, pc'[o] = "write", Is(o, {"appoint"}), About(o) \notin overlap'
        PROVE  IsMember(Who(o))'
    <3>1. pc[o] = "write" /\ Who(o) # Who(k) /\ About(o) \notin overlap /\ Who(o) \in User
      BY <2>2, <2>6, <2>7, <2>8, RequestTyped DEF TypeInv
    <3>2. IsMember(Who(o))
      BY <2>8, <3>1 DEF RoleInv
    <3> QED
      BY <1>2, <3>1, <3>2, <2>1 DEF IsMember, Who, TypeInv, TypeOK
  <2> QED
    BY <1>2, <2>4, <2>5, <2>6, <2>8 DEF RoleInv, Is, Who, IsMember

LEMMA RoleRemove ==
  ASSUME TypeInv, RoleInv, NEW k \in Call, (Remove(k) /\ UNCHANGED faults) \/ Misread(k)
  PROVE  RoleInv'
<1>1. CASE Refuse(k, CanRemove(k)) /\ UNCHANGED faults
  BY <1>1, RolesStay DEF Refuse, Goto, TypeInv, TypeOK, IsMember, rows, past
<1>2. CASE Is(k, {"leave", "kick"}) /\ Depart(k, Dismissed(Who(k))) /\ UNCHANGED faults
  BY <1>2, RoleDepart
<1>3. CASE Misread(k)
  <2>1. faults' # 0
    BY <1>3 DEF Misread, TypeInv, TypeOK
  <2> QED
    BY <1>3, <2>1, RoleDepart DEF Misread
<1> QED
  BY <1>1, <1>2, <1>3 DEF Remove

\* Nothing else touches roles, or puts a member out.
LEMMA RoleBeside ==
  ASSUME TypeInv, RoleInv, NEW k \in Call,
         \/ (\/ Tell(k) \/ Delete(k) \/ Add(k) \/ LinkCheck(k) \/ LinkPick(k)
             \/ JoinCheck(k) \/ JoinAdd(k) \/ JoinCount(k)) /\ UNCHANGED faults
         \/ Fail(k)
  PROVE  RoleInv'
<1>0. faults' = 0 => faults = 0
  BY DEF Fail, TypeInv, TypeOK
<1>1. UNCHANGED <<req, admin>>
  BY DEF Tell, Delete, Add, Refuse, LinkCheck, LinkPick, JoinCheck, JoinAdd, JoinCount, Fail, rows
<1>2. overlap \subseteq overlap'
  BY DEF Tell, Delete, Add, Refuse, LinkCheck, LinkPick, JoinCheck, JoinAdd, JoinCount, Fail,
     Begin, past
<1>3. \A u \in User : IsMember(u) => IsMember(u)'
  <2>1. CASE Add(k) /\ member' = [member EXCEPT ![Who(k)] = "active"]
    BY <2>1 DEF IsMember, TypeInv, TypeOK
  <2>2. CASE JoinAdd(k)
    BY <2>2 DEF JoinAdd, IsMember, TypeInv, TypeOK
  <2>3. CASE UNCHANGED member
    BY <2>3 DEF IsMember
  <2> QED
    BY <2>1, <2>2, <2>3
    DEF Tell, Delete, Add, Refuse, LinkCheck, LinkPick, JoinCheck, JoinCount, Fail, rows
<1>4. \A o \in Call : pc'[o] = "write" => pc[o] = "write"
  BY DEF Tell, Delete, Add, Refuse, LinkCheck, LinkPick, JoinCheck, JoinAdd, JoinCount, Fail,
     Begin, Goto, TypeInv, TypeOK
<1> QED
  BY <1>0, <1>1, <1>2, <1>3, <1>4, RolesStay

LEMMA RoleInvariant == Spec => [](TypeInv /\ RoleInv)
<1>1. Init => TypeInv /\ RoleInv
  BY InitTyped, RoleInit
<1>2. TypeInv /\ RoleInv /\ [Next]_vars => (TypeInv /\ RoleInv)'
  <2>1. ASSUME TypeInv, RoleInv, NEW k \in Call, Step(k) PROVE TypeInv' /\ RoleInv'
    BY <2>1, CheckTyped, WriteTyped, TellTyped, MembershipTyped, LinkTyped, JoinTyped,
       RoleCheck, RoleWrite, RoleRemove, RoleBeside DEF Step
  <2>2. ASSUME TypeInv, RoleInv, NEW k \in Call, Fail(k) \/ Misread(k) PROVE TypeInv' /\ RoleInv'
    BY <2>2, FailTyped, MisreadTyped, RoleBeside, RoleRemove
  <2>3. ASSUME TypeInv, RoleInv, UNCHANGED vars PROVE TypeInv' /\ RoleInv'
    BY <2>3 DEF TypeInv, TypeOK, LinkChosen, Writing, RoleInv, DepartedHaveNoRole, IsMember, Is,
       Who, By, About, vars, rows, calls, past
  <2> QED
    BY <2>1, <2>2, <2>3 DEF Next
<1> QED
  BY <1>1, <1>2, PTL DEF Spec

\* No departed user holds a role (DepartedHaveNoRole), however appointments,
\* dismissals, removals, invitations and joins interleave and fail, but for an
\* appointment and a removal of one user at the same time: what
\* RemoveUserFromConversation takes away stays away.
THEOREM RolesEndWithMembership == Spec => []DepartedHaveNoRole
<1>1. TypeInv /\ RoleInv => DepartedHaveNoRole
  BY DEF RoleInv
<1> QED
  BY <1>1, RoleInvariant, PTL

\* Members are offered to remove just whom they may, but for a community that
\* owns the chat, and both lists show the same acl (KickIsShown).  The readings
\* of can_kick differ for an owner without is_admin, those of the acl for him and
\* for a departed moderator: neither can be, unless a query fails.
THEOREM KickIsAsShown == Spec => []KickIsShown
<1>1. ASSUME TypeInv, RoleInv PROVE KickIsShown
  <2>1. \A u \in User : admin[u] \in BOOLEAN
    BY <1>1 DEF TypeInv, TypeOK
  <2> DEFINE may(by) == {u \in User \ {by} : IsMember(u) /\ CanKick(by, u)}
  <2>2. ASSUME admin[Owner], NEW by \in User, IsMember(by), by = Owner /\ Owner \in Club
        PROVE  ShownKick(by) = {u \in may(by) : ~admin[u]}
    BY <2>1, <2>2 DEF ShownKick, CanKick, Owns
  <2>3. ASSUME admin[Owner], NEW by \in User, IsMember(by), ~(by = Owner /\ Owner \in Club)
        PROVE  ShownKick(by) = may(by)
    BY <2>1, <2>3 DEF ShownKick, CanKick, Owns
  <2>4. ASSUME admin[Owner], NEW by \in User, IsMember(by)
        PROVE  ListACL(by) = MembersACL(by)
    <3>1. (by \in AdminIDs) = (Owns(by) \/ admin[by])
      BY <2>1, <2>4 DEF AdminIDs, Owns
    <3>2. IsMember(by) = TRUE
      BY <2>4 DEF IsMember
    <3> QED
      BY <3>1, <3>2 DEF ListACL, MembersACL
  <2> QED
    BY <1>1, <2>2, <2>3, <2>4 DEF KickIsShown, RoleInv
<1> QED
  BY <1>1, RoleInvariant, PTL

-----------------------------------------------------------------------------
(* Updates.                                                                *)

\* Two changes of the permissions, or of one member's flags.
Rivals(k, o) ==
  \/ Is(k, {"permit"}) /\ Is(o, {"permit"})
  \/ Is(k, {"flags"}) /\ Is(o, {"flags"}) /\ By(k) = By(o)

\* What a change that is alone is going to write back is what is still there.
UpdateInv ==
  /\ UpdatesAreKept
  /\ meant \in [levels : [Permission -> Level], bits : [User -> SUBSET Bits]]
  /\ \A k, o \in Call : k # o /\ pc[k] = "write" /\ pc[o] = "write" /\ Rivals(k, o)
                          => About(k) \in overlap
  /\ \A k \in Call : pc[k] = "write" /\ About(k) \notin overlap =>
       /\ Is(k, {"permit"}) => snap[k].levels = perms
       /\ Is(k, {"flags"}) => snap[k].bits = flags[By(k)]

LEMMA RivalTopics ==
  ASSUME NEW k \in Call, NEW o \in Call, Rivals(k, o)
  PROVE  About(k) = About(o)
  BY DEF Rivals, About, Is

LEMMA UpdateTopics ==
  ASSUME NEW k \in Call
  PROVE  /\ Is(k, {"permit"}) => About(k) = [on |-> "permissions", of |-> NoUser]
         /\ Is(k, {"flags"}) => About(k) = [on |-> "flags", of |-> By(k)]
  BY DEF About, Is

\* The topics of calls that write do not change.
LEMMA TopicsStay ==
  ASSUME TypeInv, NEW k \in Call, pc[k] = "write", UNCHANGED req
  PROVE  About(k)' = About(k)
<1>1. Is(k, {"appoint", "dismiss", "permit", "title", "photo", "pin", "unpin", "flags", "mute"})
  BY DEF TypeInv, Writing
<1> QED
  BY <1>1 DEF About, Is, Who, By

\* A step that changes neither permissions nor flags and starts no change.
LEMMA UpdatesStay ==
  ASSUME TypeInv, UpdateInv, UNCHANGED <<req, perms, flags, meant>>, overlap \subseteq overlap',
         \A k \in Call : pc'[k] = "write" => pc[k] = "write" /\ snap'[k] = snap[k]
  PROVE  UpdateInv'
<1>1. \A k \in Call : pc'[k] = "write" => About(k)' = About(k)
  BY TopicsStay
<1>2. UpdatesAreKept'
  BY DEF UpdateInv, UpdatesAreKept
<1>3. \A k, o \in Call : Rivals(k, o)' = Rivals(k, o)
  BY DEF Rivals, Is, By
<1>4. \A k, o \in Call : k # o /\ pc'[k] = "write" /\ pc'[o] = "write" /\ Rivals(k, o)'
                           => About(k)' \in overlap'
  BY <1>1, <1>3 DEF UpdateInv
<1>5. \A k \in Call : pc'[k] = "write" /\ About(k)' \notin overlap' =>
        /\ Is(k, {"permit"})' => snap'[k].levels = perms'
        /\ Is(k, {"flags"})' => snap'[k].bits = flags'[By(k)']
  BY <1>1 DEF UpdateInv, Is, By
<1> QED
  BY <1>2, <1>4, <1>5 DEF UpdateInv

LEMMA UpdateInit ==
  ASSUME Init
  PROVE  UpdateInv
<1>1. DefaultChatPermissions \in [Permission -> Level]
  BY DEF DefaultChatPermissions, Level, Permission
<1> QED
  BY <1>1 DEF Init, UpdateInv, UpdatesAreKept, Bits

LEMMA UpdateCheck ==
  ASSUME TypeInv, UpdateInv, NEW k \in Call, Check(k)
  PROVE  UpdateInv'
<1>1. CASE Refuse(k, Allows(k))
  BY <1>1, UpdatesStay DEF Refuse, Goto, TypeInv, TypeOK, rows, past
<1>2. CASE /\ Begin(k, IF Is(k, {"photo"}) THEN "tell" ELSE "write", About(k)) /\ UNCHANGED <<rows,
                                                                                              req, meant>>
           /\ \E m : snap' = [snap EXCEPT ![k].levels = perms, ![k].bits = flags[By(k)], ![k].msg = m]
  <2> PICK m : snap' = [snap EXCEPT ![k].levels = perms, ![k].bits = flags[By(k)], ![k].msg = m]
    BY <1>2
  <2>1. overlap \subseteq overlap' /\ UNCHANGED <<perms, flags, meant, req>>
    BY <1>2 DEF Begin, rows
  <2>2. \A o \in Call : pc'[o] = "write" => o = k \/ (pc[o] = "write" /\ snap'[o] = snap[o])
    BY <1>2 DEF Begin, Goto, TypeInv, TypeOK
  <2>3. snap'[k].levels = perms /\ snap'[k].bits = flags[By(k)]
    BY DEF Snap, TypeInv, TypeOK
  <2>4. UpdatesAreKept'
    BY <2>1 DEF UpdateInv, UpdatesAreKept
  <2>5. \A o \in Call : About(o)' = About(o) \/ (pc'[o] # "write")
    <3>1. \A o \in Call : o # k /\ pc'[o] = "write" => About(o)' = About(o)
      BY <2>1, <2>2, TopicsStay
    <3>2. About(k)' = About(k)
      BY <2>1 DEF Check, About, Is, Who, By
    <3> QED
      BY <3>1, <3>2
  <2>6. ASSUME NEW o \in Call, NEW q \in Call, o # q, pc'[o] = "write", pc'[q] = "write",
               Rivals(o, q)
        PROVE  About(o) \in overlap'
    <3>1. CASE o # k /\ q # k
      BY <2>1, <2>2, <2>6, <3>1 DEF UpdateInv
    <3>2. CASE o = k
      <4>1. Begun(q) /\ About(q) = About(k)
        BY <2>2, <2>6, <3>2, RivalTopics DEF Begun
      <4> QED
        BY <1>2, <2>6, <3>2, <4>1 DEF Begin
    <3>3. CASE q = k
      <4>1. Begun(o) /\ About(o) = About(k)
        BY <2>2, <2>6, <3>3, RivalTopics DEF Begun
      <4> QED
        BY <1>2, <2>6, <3>3, <4>1 DEF Begin
    <3> QED
      BY <3>1, <3>2, <3>3
  <2>7. \A o, q \in Call : Rivals(o, q)' = Rivals(o, q)
    BY <2>1 DEF Rivals, Is, By
  <2>8. \A o, q \in Call : o # q /\ pc'[o] = "write" /\ pc'[q] = "write" /\ Rivals(o, q)'
                             => About(o)' \in overlap'
    BY <2>5, <2>6, <2>7
  <2>9. \A o \in Call : pc'[o] = "write" /\ About(o)' \notin overlap' =>
          /\ Is(o, {"permit"})' => snap'[o].levels = perms'
          /\ Is(o, {"flags"})' => snap'[o].bits = flags'[By(o)']
    BY <2>1, <2>2, <2>3, <2>5 DEF UpdateInv, Is, By
  <2> QED
    BY <2>1, <2>4, <2>8, <2>9 DEF UpdateInv
<1> QED
  BY <1>1, <1>2 DEF Check, Refuse

\* NewLevels does what Changed says, as long as every level is one it may have.
LEMMA LevelsChanged ==
  ASSUME NEW old \in [Permission -> Level], \A p \in Permission : old[p] \in Allowed(p),
         NEW named, DOMAIN named \subseteq Permission
  PROVE  NewLevels(old, named) = Changed(old, named)
  BY DEF NewLevels, Changed, Normalized

LEMMA UpdateWrite ==
  ASSUME TypeInv, UpdateInv, NEW k \in Call, Write(k)
  PROVE  UpdateInv'
<1>1. /\ pc[k] = "write" /\ UNCHANGED <<req, snap, overlap>>
      /\ \A o \in Call : pc'[o] = "write" => o # k /\ pc[o] = "write"
  BY DEF Write, Goto, TypeInv, TypeOK
<1>2. CASE UNCHANGED <<perms, flags, meant>>
  BY <1>1, <1>2, UpdatesStay
<1>3. \A o \in Call : About(o)' = About(o) /\ By(o)' = By(o)
  BY <1>1 DEF About, Is, Who, By
<1>4. \A o, q \in Call : Rivals(o, q)' = Rivals(o, q)
  BY <1>1 DEF Rivals, Is, By
<1>5. \A o, q \in Call : o # q /\ pc'[o] = "write" /\ pc'[q] = "write" /\ Rivals(o, q)'
                           => About(o)' \in overlap'
  BY <1>1, <1>3, <1>4 DEF UpdateInv
<1>6. \A o \in Call : pc'[o] = "write" /\ Rivals(k, o) => About(o) \in overlap
  BY <1>1, RivalTopics DEF UpdateInv
<1>7. CASE WritePermissions(k)
  <2> DEFINE named == req[k].levels
  <2>1. /\ Is(k, {"permit"}) /\ UNCHANGED flags
        /\ perms' = NewLevels(snap[k].levels, named)
        /\ meant' = [meant EXCEPT !.levels = Changed(meant.levels, named)]
    BY <1>7 DEF WritePermissions
  <2>2. req[k] \in Request /\ DOMAIN named \subseteq Permission
    BY RequestTyped DEF TypeInv, Request
  <2>3. Changed(meant.levels, named) \in [Permission -> Level]
    <3>1. \A p \in Permission : Allowed(p) \subseteq Level /\ DefaultChatPermissions[p] \in Level
      BY DEF Allowed, Level, DefaultChatPermissions, Permission
    <3> QED
      BY <3>1 DEF Changed, UpdateInv
  <2>4. /\ meant'.levels = Changed(meant.levels, named) /\ meant'.bits = meant.bits
        /\ meant' \in [levels : [Permission -> Level], bits : [User -> SUBSET Bits]]
    BY <2>1, <2>3 DEF UpdateInv
  <2>5. ASSUME [on |-> "permissions", of |-> NoUser] \notin overlap
        PROVE  perms' = meant'.levels
    <3>1. snap[k].levels = perms /\ perms = meant.levels
      BY <1>1, <2>1, <2>5, UpdateTopics DEF UpdateInv, UpdatesAreKept
    <3>2. NewLevels(perms, named) = Changed(perms, named)
      BY <2>2, LevelsChanged DEF TypeInv, TypeOK
    <3> QED
      BY <2>1, <2>4, <3>1, <3>2
  <2>6. UpdatesAreKept'
    BY <1>1, <2>1, <2>4, <2>5 DEF UpdateInv, UpdatesAreKept
  <2>7. ASSUME NEW o \in Call, pc'[o] = "write", About(o) \notin overlap
        PROVE  /\ Is(o, {"permit"}) => snap[o].levels = perms'
               /\ Is(o, {"flags"}) => snap[o].bits = flags'[By(o)]
    <3>1. ~Is(o, {"permit"})
      BY <1>6, <2>1, <2>7 DEF Rivals
    <3> QED
      BY <1>1, <2>1, <2>7, <3>1 DEF UpdateInv
  <2> QED
    BY <1>1, <1>3, <1>5, <2>4, <2>6, <2>7 DEF UpdateInv, Is
<1>8. CASE WriteFlags(k)
  <2>1. /\ Is(k, {"flags"}) /\ UNCHANGED perms /\ By(k) \in User
        /\ flags' = [flags EXCEPT ![By(k)] = NewBits(k, snap[k].bits)]
        /\ meant' = [meant EXCEPT !.bits = [meant.bits EXCEPT ![By(k)] = NewBits(k, meant.bits[By(k)])]]
    BY <1>8, RequestTyped DEF WriteFlags, TypeInv
  <2>2. NewBits(k, meant.bits[By(k)]) \subseteq Bits
    BY <2>1 DEF NewBits, Mask, Bits, UpdateInv
  <2>3. [meant.bits EXCEPT ![By(k)] = NewBits(k, meant.bits[By(k)])] \in [User -> SUBSET Bits]
    BY <2>2 DEF UpdateInv
  <2>4. /\ meant'.levels = meant.levels
        /\ meant'.bits = [meant.bits EXCEPT ![By(k)] = NewBits(k, meant.bits[By(k)])]
        /\ meant' \in [levels : [Permission -> Level], bits : [User -> SUBSET Bits]]
    BY <2>1, <2>3 DEF UpdateInv
  <2>5. ASSUME NEW u \in User, [on |-> "flags", of |-> u] \notin overlap
        PROVE  flags'[u] = meant'.bits[u]
    <3>1. CASE u = By(k)
      <4>1. snap[k].bits = flags[u] /\ flags[u] = meant.bits[u]
        BY <1>1, <2>1, <2>5, <3>1, UpdateTopics DEF UpdateInv, UpdatesAreKept
      <4> QED
        BY <2>1, <2>4, <3>1, <4>1 DEF UpdateInv, TypeInv, TypeOK
    <3>2. CASE u # By(k)
      BY <2>1, <2>4, <2>5, <3>2 DEF UpdateInv, UpdatesAreKept, TypeInv, TypeOK
    <3> QED
      BY <3>1, <3>2
  <2>6. UpdatesAreKept'
    BY <1>1, <2>1, <2>4, <2>5 DEF UpdateInv, UpdatesAreKept
  <2>7. ASSUME NEW o \in Call, pc'[o] = "write", About(o) \notin overlap
        PROVE  /\ Is(o, {"permit"}) => snap[o].levels = perms'
               /\ Is(o, {"flags"}) => snap[o].bits = flags'[By(o)]
    <3>1. Is(o, {"flags"}) => By(o) # By(k)
      BY <1>6, <2>1, <2>7 DEF Rivals
    <3>2. By(o) \in User
      BY RequestTyped DEF TypeInv
    <3> QED
      BY <1>1, <2>1, <2>7, <3>1, <3>2 DEF UpdateInv, TypeInv, TypeOK
  <2> QED
    BY <1>1, <1>3, <1>5, <2>4, <2>6, <2>7 DEF UpdateInv, Is
<1> QED
  BY <1>2, <1>7, <1>8 DEF Write, WriteRole, WriteTitle, WritePin, WriteMute, WritePermissions, WriteFlags

LEMMA UpdateBeside ==
  ASSUME TypeInv, UpdateInv, NEW k \in Call,
         \/ Tell(k) \/ Delete(k) \/ Remove(k) \/ Add(k) \/ LinkCheck(k) \/ LinkPick(k)
         \/ JoinCheck(k) \/ JoinAdd(k) \/ JoinCount(k) \/ Misread(k) \/ Fail(k)
  PROVE  UpdateInv'
<1>1. UNCHANGED <<req, perms, flags, meant>>
  BY DEF Tell, Delete, Remove, Add, Refuse, LinkCheck, LinkPick, JoinCheck, JoinAdd, JoinCount,
     Misread, Depart, Fail, rows, past
<1>2. overlap \subseteq overlap'
  BY DEF Tell, Delete, Remove, Add, Refuse, LinkCheck, LinkPick, JoinCheck, JoinAdd, JoinCount,
     Misread, Depart, Fail, Begin, past
<1>3. \A o \in Call : pc'[o] = "write" => pc[o] = "write" /\ o # k
  BY DEF Tell, Delete, Remove, Add, Refuse, LinkCheck, LinkPick, JoinCheck, JoinAdd, JoinCount,
     Misread, Depart, Fail, Begin, Goto, TypeInv, TypeOK
<1>4. \A o \in Call : o # k => snap'[o] = snap[o]
  BY DEF Tell, Delete, Remove, Add, Refuse, LinkCheck, LinkPick, JoinCheck, JoinAdd, JoinCount,
     Misread, Depart, Fail, TypeInv, TypeOK
<1> QED
  BY <1>1, <1>2, <1>3, <1>4, UpdatesStay

\* A change of permissions or of flags is applied to what it names and to
\* nothing else (UpdatesAreKept), although SetChatPermissions and
\* UpdateChatFlags read the whole value and write it back in another
\* statement: only changes that overlap can undo one another.
THEOREM ChangesAreApplied == Spec => []UpdatesAreKept
<1>1. Init => TypeInv /\ UpdateInv
  BY InitTyped, UpdateInit
<1>2. TypeInv /\ UpdateInv /\ [Next]_vars => (TypeInv /\ UpdateInv)'
  <2>1. ASSUME TypeInv, UpdateInv, NEW k \in Call, Step(k) PROVE TypeInv' /\ UpdateInv'
    BY <2>1, CheckTyped, WriteTyped, TellTyped, MembershipTyped, LinkTyped, JoinTyped,
       UpdateCheck, UpdateWrite, UpdateBeside DEF Step
  <2>2. ASSUME TypeInv, UpdateInv, NEW k \in Call, Fail(k) \/ Misread(k) PROVE TypeInv' /\ UpdateInv'
    BY <2>2, FailTyped, MisreadTyped, UpdateBeside
  <2>3. ASSUME TypeInv, UpdateInv, UNCHANGED vars PROVE TypeInv' /\ UpdateInv'
    <3>1. TypeInv'
      BY <2>3 DEF TypeInv, TypeOK, LinkChosen, Writing, Is, vars, rows, calls, past
    <3>2. UpdateInv'
      BY <2>3, UpdatesStay DEF vars, rows, calls, past
    <3> QED
      BY <3>1, <3>2
  <2> QED
    BY <2>1, <2>2, <2>3 DEF Next
<1>3. UpdateInv => UpdatesAreKept
  BY DEF UpdateInv
<1> QED
  BY <1>1, <1>2, <1>3, PTL DEF Spec

-----------------------------------------------------------------------------
(* Joins.                                                                  *)

LinkTopic(i) == [on |-> "link", of |-> i]
Joining == {"add", "count"}

\* Link i has brought who is counted and who is about to be, within its limit.
Balanced(i) ==
  /\ IsFiniteSet(Counting(i))
  /\ UsedBefore(i) + Len(joined[i]) = invites[i].used + Cardinality(Counting(i))
  /\ LinkTopic(i) \notin overlap /\ invites[i].limit > 0 /\ joined[i] # << >>
       => UsedBefore(i) + Len(joined[i]) <= invites[i].limit

\* Joins by one link at the same time overlap, and who is about to be added
\* alone has seen that the limit is not reached.
Apart ==
  \A k, o \in Call : k # o /\ pc[k] \in Joining /\ pc[o] \in Joining /\ snap[k].link = snap[o].link
                       => LinkTopic(snap[k].link) \in overlap
Room ==
  \A k \in Call :
    pc[k] = "add" /\ LinkTopic(snap[k].link) \notin overlap /\ invites[snap[k].link].limit > 0
      => invites[snap[k].link].used < invites[snap[k].link].limit

JoinInv ==
  /\ Len(Invites) <= Len(invites)
  /\ \A k \in Call : pc[k] \in Joining => Is(k, {"join"})
  /\ faults = 0 => Apart /\ Room /\ \A i \in DOMAIN invites : Balanced(i)

LEMMA InvitesTyped ==
  \A i \in DOMAIN Invites : Invites[i].used \in Nat
<1>1. Invites \in Seq(Invite)
  BY ChatAdminAssumption
<1>2. \A i \in DOMAIN Invites : Invites[i] \in Invite
  BY <1>1
<1> QED
  BY <1>2 DEF Invite

LEMMA LenDomain ==
  ASSUME NEW S, NEW s \in Seq(S), NEW t \in Seq(S), DOMAIN s = DOMAIN t
  PROVE  Len(s) = Len(t)
<1>1. PICK m \in Nat, n \in Nat : m = Len(s) /\ n = Len(t)
  OBVIOUS
<1>2. 1 .. m = 1 .. n
  BY <1>1
<1>3. m = n
  BY <1>2
<1> QED
  BY <1>1, <1>3

LEMMA LinksTyped ==
  ASSUME TypeInv
  PROVE  /\ Len(invites) \in Nat /\ DOMAIN invites = 1 .. Len(invites) /\ DOMAIN joined = 1 .. Len(invites)
         /\ \A i \in DOMAIN invites : /\ invites[i] \in Invite /\ joined[i] \in Seq(User)
                                      /\ invites[i].used \in Nat /\ invites[i].limit \in Nat
                                      /\ UsedBefore(i) \in Nat
         /\ \A k \in Call : pc[k] \in Joining => snap[k].link \in DOMAIN invites
<1>2. \A i : UsedBefore(i) \in Nat
  BY InvitesTyped DEF UsedBefore
<1>3. /\ Len(invites) \in Nat /\ DOMAIN invites = 1 .. Len(invites) /\ DOMAIN joined = 1 .. Len(invites)
      /\ \A i \in DOMAIN invites : invites[i] \in Invite /\ joined[i] \in Seq(User)
  BY DEF TypeInv, TypeOK
<1> QED
  BY <1>2, <1>3 DEF Invite, TypeInv, LinkChosen, Joining

\* A link nobody joins by, or counts, in this step.
LEMMA BalanceStays ==
  ASSUME NEW i, Balanced(i), Counting(i)' = Counting(i), joined'[i] = joined[i],
         invites'[i].used = invites[i].used, invites'[i].limit = invites[i].limit,
         overlap \subseteq overlap'
  PROVE  Balanced(i)'
  BY DEF Balanced, UsedBefore

LEMMA JoinInit ==
  ASSUME Init
  PROVE  JoinInv
<1>1. \A k \in Call : pc[k] = "start"
  BY DEF Init
<1>2. \A i : Counting(i) = {}
  BY <1>1 DEF Counting
<1>3. invites = Invites /\ joined = [i \in DOMAIN Invites |-> << >>] /\ Len(Invites) \in Nat
  BY ChatAdminAssumption DEF Init
<1>4. ASSUME NEW i \in DOMAIN invites PROVE Balanced(i)
  <2>1. joined[i] = << >> /\ UsedBefore(i) = invites[i].used /\ invites[i].used \in Nat
    BY <1>3, InvitesTyped DEF UsedBefore
  <2>2. IsFiniteSet(Counting(i)) /\ Cardinality(Counting(i)) = 0
    BY <1>2, FS_EmptySet
  <2> QED
    BY <2>1, <2>2 DEF Balanced
<1> QED
  BY <1>1, <1>3, <1>4 DEF JoinInv, Apart, Room, Joining

\* A step in which nobody joins.
LEMMA JoinsStay ==
  ASSUME TypeInv, TypeInv', JoinInv, UNCHANGED <<req, joined>>, overlap \subseteq overlap',
         faults' = 0 => faults = 0, Len(invites') = Len(invites),
         \A i \in DOMAIN invites : /\ invites'[i].used = invites[i].used
                                   /\ invites'[i].limit = invites[i].limit,
         \A k \in Call : /\ pc'[k] \in Joining => pc[k] = pc'[k] /\ snap'[k].link = snap[k].link
                         /\ pc[k] = "count" => pc'[k] = "count"
  PROVE  JoinInv'
<1>1. DOMAIN invites' = DOMAIN invites
  BY DEF TypeInv, TypeOK
<1>2. \A k \in Call : pc'[k] \in Joining => Is(k, {"join"})'
  BY DEF JoinInv, Is
<1>3. ASSUME faults' = 0 PROVE Apart' /\ Room' /\ \A i \in DOMAIN invites : Balanced(i)'
  <2>1. Apart /\ Room /\ \A i \in DOMAIN invites : Balanced(i)
    BY <1>3 DEF JoinInv
  <2>2. Apart'
    BY <2>1 DEF Apart, LinkTopic
  <2>3. Room'
    <3> SUFFICES ASSUME NEW k \in Call, pc'[k] = "add", LinkTopic(snap'[k].link) \notin overlap',
                        invites'[snap'[k].link].limit > 0
                 PROVE  invites'[snap'[k].link].used < invites'[snap'[k].link].limit
      BY DEF Room, LinkTopic
    <3>1. pc[k] = "add" /\ snap'[k].link = snap[k].link /\ snap[k].link \in DOMAIN invites
      BY LinksTyped DEF Joining
    <3> QED
      BY <2>1, <3>1 DEF Room
  <2>4. ASSUME NEW i \in DOMAIN invites PROVE Balanced(i)'
    <3>1. \A k \in Call : (pc'[k] = "count") = (pc[k] = "count")
      BY DEF Joining
    <3>2. Counting(i)' = Counting(i)
      BY <3>1 DEF Counting, Joining
    <3> QED
      BY <2>1, <3>2, BalanceStays
  <2> QED
    BY <2>2, <2>3, <2>4
<1> QED
  BY <1>1, <1>2, <1>3 DEF JoinInv

LEMMA JoinBeside ==
  ASSUME TypeInv, TypeInv', JoinInv, NEW k \in Call,
         \/ (Check(k) \/ Write(k) \/ Tell(k) \/ Delete(k) \/ Remove(k) \/ Add(k) \/ LinkCheck(k))
              /\ UNCHANGED faults
         \/ Misread(k) \/ Fail(k)
  PROVE  JoinInv'
<1>1. UNCHANGED <<req, joined>> /\ overlap \subseteq overlap' /\ (faults' = 0 => faults = 0)
  BY DEF Check, Write, Tell, Delete, Remove, Add, LinkCheck, Misread, Depart, Fail, Refuse, Begin,
     past, TypeInv, TypeOK
<1>2. \/ UNCHANGED invites
      \/ invites' = [i \in DOMAIN invites |-> [invites[i] EXCEPT !.revoked = TRUE]]
  BY DEF Check, Write, Tell, Delete, Remove, Add, LinkCheck, Misread, Depart, Fail, Refuse, rows
<1>3. /\ Len(invites') = Len(invites)
      /\ \A i \in DOMAIN invites : /\ invites'[i].used = invites[i].used
                                   /\ invites'[i].limit = invites[i].limit
  <2>1. CASE invites' = [i \in DOMAIN invites |-> [invites[i] EXCEPT !.revoked = TRUE]]
    <3>1. ASSUME NEW v \in Invite
          PROVE  [v EXCEPT !.revoked = TRUE].used = v.used /\ [v EXCEPT !.revoked = TRUE].limit = v.limit
      BY DEF Invite
    <3>2. \A i \in DOMAIN invites : invites[i] \in Invite /\ invites'[i] = [invites[i] EXCEPT !.revoked = TRUE]
      BY <2>1, LinksTyped
    <3>3. Len(invites') = Len(invites)
      <4>1. DOMAIN invites' = DOMAIN invites
        BY <2>1
      <4>2. invites' \in Seq(Invite) /\ invites \in Seq(Invite)
        BY DEF TypeInv, TypeOK
      <4> QED
        BY <4>1, <4>2, LenDomain
    <3> QED
      BY <3>1, <3>2, <3>3
  <2>2. CASE UNCHANGED invites
    BY <2>2
  <2> QED
    BY <1>2, <2>1, <2>2
<1>4. \A o \in Call : /\ pc'[o] \in Joining => pc[o] = pc'[o]
                      /\ o # k => pc'[o] = pc[o]
  BY DEF Check, Write, Tell, Delete, Remove, Add, LinkCheck, Misread, Depart, Fail, Refuse, Begin,
     Goto, Joining,
     TypeInv, TypeOK
<1>5. \A o \in Call : snap'[o].link = snap[o].link
  <2>1. CASE \E m : snap' = [snap EXCEPT ![k].levels = perms, ![k].bits = flags[By(k)], ![k].msg = m]
    <3>1. PICK m : snap' = [snap EXCEPT ![k].levels = perms, ![k].bits = flags[By(k)], ![k].msg = m]
      BY <2>1
    <3> QED
      BY <3>1 DEF Snap, TypeInv, TypeOK
  <2>2. CASE UNCHANGED snap
    BY <2>2
  <2> QED
    BY <2>1, <2>2 DEF Check, Write, Tell, Delete, Remove, Add, LinkCheck, Misread, Depart, Fail, Refuse
<1>6. pc[k] = "count" => Fail(k)
  BY DEF Check, Write, Tell, Delete, Remove, Add, LinkCheck, Misread, Refuse
<1>7. CASE Fail(k)
  <2>1. faults' # 0 /\ UNCHANGED invites
    BY <1>7 DEF Fail, TypeInv, TypeOK, rows
  <2> QED
    BY <1>1, <1>4, <2>1 DEF JoinInv, Is, Joining
<1>8. CASE ~Fail(k)
  BY <1>1, <1>3, <1>4, <1>5, <1>6, <1>8, JoinsStay
<1> QED
  BY <1>7, <1>8

LEMMA JoinPick ==
  ASSUME TypeInv, TypeInv', JoinInv, NEW k \in Call, LinkPick(k), UNCHANGED faults
  PROVE  JoinInv'
<1>1. /\ pc[k] = "pick" /\ pc' = [pc EXCEPT ![k] = "done"] /\ UNCHANGED <<req, snap, overlap>>
  BY DEF LinkPick, Goto
<1>2. \A o \in Call : (pc'[o] \in Joining \/ pc[o] \in Joining) => pc'[o] = pc[o]
  BY <1>1 DEF TypeInv, TypeOK, Joining
<1>3. CASE UNCHANGED <<invites, joined>>
  BY <1>1, <1>2, <1>3, JoinsStay DEF Joining
<1>4. ASSUME NEW new, new.used = 0, new.used \in Nat,
             invites' = Append(invites, new), joined' = Append(joined, << >>)
      PROVE  JoinInv'
  <2>0. PICK n \in Nat, m \in Nat : n = Len(invites) /\ m = n + 1
    BY LinksTyped
  <2>1. /\ DOMAIN invites' = 1 .. m /\ Len(invites') = m
        /\ \A i \in 1 .. n : invites'[i] = invites[i] /\ joined'[i] = joined[i]
        /\ invites'[m] = new /\ joined'[m] = << >>
    BY <1>4, <2>0, LinksTyped DEF TypeInv, TypeOK
  <2>2. Len(Invites) \in Nat /\ DOMAIN Invites = 1 .. Len(Invites)
    BY ChatAdminAssumption
  <2>3. \A i : Counting(i)' = Counting(i)
    BY <1>1, <1>2 DEF Counting, Joining
  <2>4. \A o \in Call : pc[o] \in Joining => snap[o].link \in 1 .. n
    BY <2>0, LinksTyped
  <2>5. Balanced(m)'
    <3>1. Counting(m) = {}
      BY <2>0, <2>4 DEF Counting, Joining
    <3>2. IsFiniteSet(Counting(m)') /\ Cardinality(Counting(m)') = 0
      BY <2>3, <3>1, FS_EmptySet
    <3>3. UsedBefore(m) = 0
      BY <2>0, <2>2 DEF UsedBefore, JoinInv
    <3>4. joined'[m] = << >> /\ Len(joined'[m]) = 0 /\ invites'[m].used = 0
      BY <1>4, <2>1
    <3> QED
      BY <3>2, <3>3, <3>4 DEF Balanced, UsedBefore
  <2>6. ASSUME faults' = 0 PROVE Apart' /\ Room' /\ \A i \in DOMAIN invites' : Balanced(i)'
    <3>1. Apart /\ Room /\ \A i \in 1 .. n : Balanced(i)
      BY <2>0, <2>6, LinksTyped DEF JoinInv
    <3>2. Apart'
      BY <1>1, <1>2, <3>1 DEF Apart, LinkTopic
    <3>3. Room'
      BY <1>1, <1>2, <2>1, <2>4, <3>1 DEF Room, LinkTopic, Joining
    <3>4. \A i \in 1 .. n : Balanced(i)'
      BY <1>1, <2>1, <2>3, <3>1, BalanceStays
    <3>5. \A i \in DOMAIN invites' : i \in 1 .. n \/ i = m
      BY <2>0, <2>1
    <3> QED
      BY <2>5, <3>2, <3>3, <3>4, <3>5
  <2>7. Len(Invites) <= Len(invites')
    BY <2>0, <2>1, <2>2 DEF JoinInv
  <2> QED
    BY <1>1, <1>2, <2>6, <2>7 DEF JoinInv, Is
<1> QED
  BY <1>3, <1>4 DEF LinkPick

LEMMA JoinChecked ==
  ASSUME TypeInv, TypeInv', JoinInv, NEW k \in Call, JoinCheck(k), UNCHANGED faults
  PROVE  JoinInv'
<1> DEFINE n == Len(invites)
<1>1. CASE pc' = [pc EXCEPT ![k] = "done"] /\ UNCHANGED <<rows, req, snap, past>>
  <2>1. pc[k] = "start"
    BY DEF JoinCheck
  <2>2. \A o \in Call : (pc'[o] \in Joining \/ pc[o] \in Joining) => pc'[o] = pc[o]
    BY <1>1, <2>1 DEF TypeInv, TypeOK, Joining
  <2> QED
    BY <1>1, <2>2, JoinsStay DEF rows, past, Joining
<1>2. CASE /\ n > 0 /\ Usable(invites[n]) /\ Begin(k, "add", LinkTopic(n))
           /\ snap' = [snap EXCEPT ![k].link = n] /\ UNCHANGED <<rows, req, joined>>
  <2>1. pc[k] = "start" /\ pc' = [pc EXCEPT ![k] = "add"] /\ overlap \subseteq overlap'
        /\ Is(k, {"join"})
    BY <1>2 DEF JoinCheck, Begin, Goto
  <2>2. \A o \in Call \ {k} : pc'[o] = pc[o] /\ snap'[o] = snap[o]
    BY <1>2, <2>1 DEF TypeInv, TypeOK
  <2>3. pc'[k] = "add" /\ snap'[k].link = n
    BY <1>2, <2>1 DEF TypeInv, TypeOK
  <2>4. ASSUME NEW o \in Call \ {k}, pc[o] \in Joining, snap[o].link = n
        PROVE  LinkTopic(n) \in overlap'
    <3>1. Begun(o) /\ About(o) = LinkTopic(n)
      BY <2>4 DEF Begun, About, Is, LinkTopic, Joining, JoinInv
    <3> QED
      BY <1>2, <3>1 DEF Begin
  <2>5. \A i : Counting(i)' = Counting(i)
    BY <2>1, <2>2, <2>3 DEF Counting
  <2>6. invites[n].limit > 0 => invites[n].used < invites[n].limit
    BY <1>2, LinksTyped DEF Usable
  <2>7. UNCHANGED <<invites, joined, req>>
    BY <1>2 DEF rows
  <2> HIDE DEF n
  <2>8. ASSUME faults' = 0 PROVE Apart' /\ Room' /\ \A i \in DOMAIN invites' : Balanced(i)'
    <3>1. Apart /\ Room /\ \A i \in DOMAIN invites : Balanced(i)
      BY <2>8 DEF JoinInv
    <3>2. Apart'
      BY <2>1, <2>2, <2>3, <2>4, <3>1 DEF Apart, LinkTopic
    <3>3. Room'
      BY <2>1, <2>2, <2>3, <2>6, <2>7, <3>1 DEF Room, LinkTopic
    <3>4. \A i \in DOMAIN invites' : Balanced(i)'
      BY <2>1, <2>5, <2>7, <3>1, BalanceStays
    <3> QED
      BY <3>2, <3>3, <3>4
  <2> QED
    BY <2>1, <2>2, <2>7, <2>8 DEF JoinInv, Is
<1> QED
  BY <1>1, <1>2 DEF JoinCheck, Refuse, Goto, CanJoin, LinkTopic

LEMMA JoinAdded ==
  ASSUME TypeInv, TypeInv', JoinInv, NEW k \in Call, JoinAdd(k), UNCHANGED faults
  PROVE  JoinInv'
<1>1. pc[k] = "add" /\ UNCHANGED <<invites, req, snap, overlap>>
  BY DEF JoinAdd
<1>2. PICK i : i = snap[k].link
  OBVIOUS
<1>3. i \in DOMAIN invites /\ i \in DOMAIN joined
  BY <1>1, <1>2, LinksTyped DEF Joining
<1>4. CASE pc' = [pc EXCEPT ![k] = "done"] /\ UNCHANGED joined
  <2>1. \A o \in Call : /\ pc'[o] \in Joining => pc'[o] = pc[o]
                        /\ pc[o] = "count" => pc'[o] = "count"
    BY <1>1, <1>4 DEF TypeInv, TypeOK, Joining
  <2> QED
    BY <1>1, <1>4, <2>1, JoinsStay
<1>5. CASE pc' = [pc EXCEPT ![k] = "count"] /\ joined' = [joined EXCEPT ![i] = Append(joined[i], By(k))]
  <2>1. /\ pc'[k] = "count" /\ \A o \in Call \ {k} : pc'[o] = pc[o]
    BY <1>5 DEF TypeInv, TypeOK
  <2>2. \A o \in Call : pc'[o] \in Joining <=> pc[o] \in Joining
    BY <1>1, <2>1 DEF Joining
  <2>3. /\ Len(joined'[i]) = Len(joined[i]) + 1 /\ Len(joined[i]) \in Nat
        /\ \A j \in DOMAIN invites : j # i => joined'[j] = joined[j]
    <3>1. joined[i] \in Seq(User) /\ By(k) \in User
      BY <1>3, LinksTyped, RequestTyped DEF TypeInv
    <3>2. joined'[i] = Append(joined[i], By(k)) /\ \A j \in DOMAIN joined : j # i => joined'[j] = joined[j]
      BY <1>3, <1>5
    <3> QED
      BY <3>1, <3>2, LinksTyped
  <2>4. Counting(i)' = Counting(i) \cup {k} /\ k \notin Counting(i)
    BY <1>1, <1>2, <2>1 DEF Counting
  <2>5. \A j : j # i => Counting(j)' = Counting(j)
    BY <1>1, <1>2, <2>1 DEF Counting
  <2>6. ASSUME faults' = 0 PROVE Apart' /\ Room' /\ \A j \in DOMAIN invites' : Balanced(j)'
    <3>1. Apart /\ Room /\ \A j \in DOMAIN invites : Balanced(j)
      BY <2>6 DEF JoinInv
    <3>2. Apart'
      BY <1>1, <2>2, <3>1 DEF Apart, LinkTopic
    <3>3. Room'
      BY <1>1, <2>1, <3>1 DEF Room, LinkTopic
    <3>4. ASSUME NEW j \in DOMAIN invites, j # i PROVE Balanced(j)'
      BY <1>1, <2>3, <2>5, <3>1, <3>4, BalanceStays
    <3>5. Balanced(i)'
      <4>1. IsFiniteSet(Counting(i)) /\ Cardinality(Counting(i)) \in Nat
        BY <1>3, <3>1, FS_CardinalityType DEF Balanced
      <4>2. IsFiniteSet(Counting(i)') /\ Cardinality(Counting(i)') = Cardinality(Counting(i)) + 1
        BY <2>4, <4>1, FS_AddElement
      <4>3. UsedBefore(i) + Len(joined[i]) = invites[i].used + Cardinality(Counting(i))
            /\ UsedBefore(i) \in Nat /\ invites[i].used \in Nat /\ invites[i].limit \in Nat
        BY <1>3, <3>1, LinksTyped DEF Balanced
      <4>4. UsedBefore(i) + Len(joined'[i]) = invites[i].used + Cardinality(Counting(i)')
        <5>1. PICK c \in Nat, b \in Nat, l \in Nat, u \in Nat :
                /\ c = Cardinality(Counting(i)) /\ b = UsedBefore(i)
                /\ l = Len(joined[i]) /\ u = invites[i].used
          BY <2>3, <4>1, <4>3
        <5>2. b + l = u + c
          BY <4>3, <5>1
        <5>3. b + (l + 1) = u + (c + 1)
          BY <5>2
        <5>4. Len(joined'[i]) = l + 1 /\ Cardinality(Counting(i)') = c + 1
          BY <2>3, <4>2, <5>1
        <5> QED
          BY <5>1, <5>3, <5>4
      <4>5. ASSUME LinkTopic(i) \notin overlap, invites[i].limit > 0
            PROVE  UsedBefore(i) + Len(joined'[i]) <= invites[i].limit
        <5>1. \A o \in Call : ~(pc[o] = "count" /\ snap[o].link = i)
          BY <1>1, <1>2, <3>1, <4>5 DEF Apart, Joining
        <5>2. Counting(i) = {}
          BY <5>1 DEF Counting
        <5>3. Cardinality(Counting(i)) = 0
          BY <5>2, FS_EmptySet
        <5>4. invites[i].used < invites[i].limit
          BY <1>1, <1>2, <3>1, <4>5 DEF Room
        <5> QED
          BY <2>3, <4>3, <5>3, <5>4
      <4> QED
        BY <1>1, <4>2, <4>4, <4>5 DEF Balanced, UsedBefore, LinkTopic
    <3> QED
      BY <1>1, <3>2, <3>3, <3>4, <3>5
  <2> QED
    BY <1>1, <2>2, <2>6 DEF JoinInv, Is
<1> QED
  BY <1>2, <1>4, <1>5 DEF JoinAdd, Goto

LEMMA JoinCounted ==
  ASSUME TypeInv, TypeInv', JoinInv, NEW k \in Call, JoinCount(k), UNCHANGED faults
  PROVE  JoinInv'
<1>1. pc[k] = "count" /\ UNCHANGED <<joined, req, snap, overlap>>
  BY DEF JoinCount, past
<1>2. PICK i : i = snap[k].link
  OBVIOUS
<1>3. i \in DOMAIN invites
  BY <1>1, <1>2, LinksTyped DEF Joining
<1>4. pc' = [pc EXCEPT ![k] = "done"]
      /\ invites' = [invites EXCEPT ![i] = [invites[i] EXCEPT !.used = invites[i].used + 1]]
  BY <1>2 DEF JoinCount, Goto
<1>5. pc'[k] = "done" /\ \A o \in Call \ {k} : pc'[o] = pc[o]
  BY <1>4 DEF TypeInv, TypeOK
<1>6. /\ DOMAIN invites' = DOMAIN invites /\ Len(invites') = Len(invites)
      /\ invites'[i].used = invites[i].used + 1 /\ invites'[i].limit = invites[i].limit
      /\ \A j \in DOMAIN invites : j # i => invites'[j] = invites[j]
  <2>1. DOMAIN invites' = DOMAIN invites
    BY <1>4
  <2>2. invites' \in Seq(Invite) /\ invites \in Seq(Invite)
    BY DEF TypeInv, TypeOK
  <2>3. Len(invites') = Len(invites)
    BY <2>1, <2>2, LenDomain
  <2>4. invites'[i] = [invites[i] EXCEPT !.used = invites[i].used + 1]
        /\ \A j \in DOMAIN invites : j # i => invites'[j] = invites[j]
    BY <1>3, <1>4
  <2>5. invites[i] \in Invite
    BY <1>3, LinksTyped
  <2>6. invites'[i].used = invites[i].used + 1 /\ invites'[i].limit = invites[i].limit
    BY <2>4, <2>5 DEF Invite
  <2> QED
    BY <2>1, <2>3, <2>4, <2>6
<1>7. Counting(i)' = Counting(i) \ {k} /\ k \in Counting(i)
  BY <1>1, <1>2, <1>5 DEF Counting
<1>8. \A j : j # i => Counting(j)' = Counting(j)
  BY <1>1, <1>2, <1>5 DEF Counting
<1>9. ASSUME faults' = 0 PROVE Apart' /\ Room' /\ \A j \in DOMAIN invites' : Balanced(j)'
  <2>1. Apart /\ Room /\ \A j \in DOMAIN invites : Balanced(j)
    BY <1>9 DEF JoinInv
  <2>2. Apart'
    BY <1>1, <1>5, <2>1 DEF Apart, LinkTopic, Joining
  <2>3. Room'
    <3> SUFFICES ASSUME NEW o \in Call, pc'[o] = "add", LinkTopic(snap[o].link) \notin overlap,
                        invites'[snap[o].link].limit > 0
                 PROVE  invites'[snap[o].link].used < invites'[snap[o].link].limit
      BY <1>1 DEF Room, LinkTopic
    <3>1. o # k /\ pc[o] = "add"
      BY <1>5
    <3>2. snap[o].link # i /\ snap[o].link \in DOMAIN invites
      BY <1>1, <1>2, <2>1, <3>1, LinksTyped DEF Apart, Joining
    <3> QED
      BY <1>6, <2>1, <3>1, <3>2 DEF Room
  <2>4. ASSUME NEW j \in DOMAIN invites, j # i PROVE Balanced(j)'
    BY <1>1, <1>6, <1>8, <2>1, <2>4, BalanceStays
  <2>5. Balanced(i)'
    <3>1. IsFiniteSet(Counting(i)) /\ Cardinality(Counting(i)) \in Nat
      BY <1>3, <2>1, FS_CardinalityType DEF Balanced
    <3>2. IsFiniteSet(Counting(i)') /\ Cardinality(Counting(i)') = Cardinality(Counting(i)) - 1
      BY <1>7, <3>1, FS_RemoveElement
    <3>3. UsedBefore(i) + Len(joined[i]) = invites[i].used + Cardinality(Counting(i))
          /\ UsedBefore(i) \in Nat /\ invites[i].used \in Nat /\ Len(joined[i]) \in Nat
      BY <1>3, <2>1, LinksTyped DEF Balanced
    <3>4. UsedBefore(i) + Len(joined'[i]) = invites'[i].used + Cardinality(Counting(i)')
      <4>1. PICK c \in Nat, b \in Nat, l \in Nat, u \in Nat :
              /\ c = Cardinality(Counting(i)) /\ b = UsedBefore(i)
              /\ l = Len(joined[i]) /\ u = invites[i].used
        BY <3>1, <3>3
      <4>2. b + l = u + c
        BY <3>3, <4>1
      <4>3. b + l = (u + 1) + (c - 1)
        BY <4>2
      <4>4. invites'[i].used = u + 1 /\ Cardinality(Counting(i)') = c - 1 /\ joined' = joined
        BY <1>1, <1>6, <3>2, <4>1
      <4> QED
        BY <4>1, <4>3, <4>4
    <3>5. LinkTopic(i) \notin overlap /\ invites[i].limit > 0 /\ joined[i] # << >>
            => UsedBefore(i) + Len(joined[i]) <= invites[i].limit
      BY <1>3, <2>1 DEF Balanced
    <3> QED
      BY <1>1, <1>6, <3>2, <3>4, <3>5 DEF Balanced, UsedBefore, LinkTopic
  <2> QED
    BY <1>6, <2>2, <2>3, <2>4, <2>5
<1> QED
  BY <1>1, <1>5, <1>6, <1>9 DEF JoinInv, Is, Joining

\* Every user who came by a link is counted on it, and none comes above its
\* limit (JoinsAreCounted), although joinChatByInviteLink compares the limit,
\* adds the user and counts in three statements: unless two join by the link
\* at once, or a call dies.
THEOREM JoinsCounted == Spec => []JoinsAreCounted
<1>1. Init => TypeInv /\ JoinInv
  BY InitTyped, JoinInit
<1>2. TypeInv /\ JoinInv /\ [Next]_vars => (TypeInv /\ JoinInv)'
  <2> SUFFICES ASSUME TypeInv, JoinInv, [Next]_vars PROVE TypeInv' /\ JoinInv'
    OBVIOUS
  <2>1. ASSUME NEW k \in Call, Step(k) PROVE TypeInv' /\ JoinInv'
    <3>1. TypeInv'
      BY <2>1, CheckTyped, WriteTyped, TellTyped, MembershipTyped, LinkTyped, JoinTyped DEF Step
    <3> QED
      BY <2>1, <3>1, JoinBeside, JoinPick, JoinChecked, JoinAdded, JoinCounted DEF Step
  <2>2. ASSUME NEW k \in Call, Fail(k) \/ Misread(k) PROVE TypeInv' /\ JoinInv'
    BY <2>2, FailTyped, MisreadTyped, JoinBeside
  <2>3. ASSUME UNCHANGED vars PROVE TypeInv' /\ JoinInv'
    <3>1. TypeInv'
      BY <2>3 DEF TypeInv, TypeOK, LinkChosen, Writing, Is, vars, rows, calls, past
    <3>2. JoinInv'
      BY <2>3, <3>1, JoinsStay DEF vars, rows, calls, past
    <3> QED
      BY <3>1, <3>2
  <2> QED
    BY <2>1, <2>2, <2>3 DEF Next
<1>3. TypeInv /\ JoinInv => JoinsAreCounted
  <2> SUFFICES ASSUME TypeInv, JoinInv, faults = 0, NEW i \in DOMAIN invites
               PROVE  /\ UsedBefore(i) + Len(joined[i]) = invites[i].used + Cardinality(Counting(i))
                      /\ Calm("link", i) /\ invites[i].limit > 0 /\ joined[i] # << >>
                           => UsedBefore(i) + Len(joined[i]) <= invites[i].limit
    BY DEF JoinsAreCounted
  <2> QED
    BY DEF JoinInv, Balanced, Calm, LinkTopic
<1> QED
  BY <1>1, <1>2, <1>3, PTL DEF Spec

-----------------------------------------------------------------------------
(* Announcements.  For each topic that is told: what its row holds, what a *)
(* call that has written it is going to tell, what was told last.          *)

At(on, of) == [on |-> on, of |-> of]
Topics ==
  {At("title", NoUser), At("pin", NoUser)}
    \cup {At(on, u) : on \in {"role"}, u \in User \ {Owner}}
    \cup {At(on, u) : on \in {"flags", "mute"}, u \in User}

InRow(t) ==
  IF t.on = "title" THEN title
  ELSE IF t.on = "pin" THEN pinned
  ELSE IF t.on = "role" THEN (IF admin[t.of] THEN 1 ELSE 0)
  ELSE IF t.on = "flags" THEN flags[t.of]
  ELSE mute[t.of]
Telling(k) ==
  IF Is(k, {"appoint"}) THEN 1
  ELSE IF Is(k, {"dismiss", "unpin"}) THEN 0
  ELSE IF Is(k, {"flags"}) THEN NewBits(k, snap[k].bits)
  ELSE IF Is(k, {"pin"}) THEN snap[k].msg
  ELSE req[k].what
Told(t) ==
  IF t.on = "flags" THEN told[t.of].flags
  ELSE IF t.on = "mute" THEN told[t.of].mute
  ELSE LastSaid(t.on, t.of, IF t.on = "role" /\ t.of \in Moderators THEN 1 ELSE 0)

\* What was told last is what the row holds, unless somebody is about to tell.
Agreed(t) ==
  /\ \A k \in Call : pc[k] = "tell" /\ About(k) = t => InRow(t) = Telling(k)
  /\ (\A k \in Call : ~(pc[k] = "tell" /\ About(k) = t)) => InRow(t) = Told(t)

AnnounceInv ==
  /\ \A k, o \in Call :
       k # o /\ pc[k] \in {"write", "tell"} /\ pc[o] \in {"write", "tell"} /\ About(k) = About(o)
         => About(k) \in overlap
  /\ faults = 0 => \A t \in Topics \ overlap : Agreed(t)

\* The latest of some places in a sequence.
LEMMA LatestThere ==
  ASSUME NEW n \in Nat, NEW S \in SUBSET (1 .. n), S # {}
  PROVE  \E i \in S : \A j \in S : j <= i
<1> DEFINE Less == OpToRel(<, Nat)
           Gaps == {n - i : i \in S}
<1>1. IsWellFoundedOn(Less, Nat)
  BY NatLessThanWellFounded
<1>2. Gaps \in SUBSET Nat /\ Gaps # {}
  <2>1. \A i \in S : n - i \in Nat
    OBVIOUS
  <2> QED
    BY <2>1
<1>3. \A l, m \in Nat : l < m => <<l, m>> \in Less
  BY DEF OpToRel
<1> HIDE DEF Less
<1>4. PICK g \in Gaps : \A h \in Gaps : ~ (<<h, g>> \in Less)
  <2> HIDE DEF Gaps
  <2> QED
    BY <1>1, <1>2, WFMin
<1>5. \A h \in Gaps : ~ (h < g)
  BY <1>3, <1>4, <1>2, Zenon
<1>6. PICK i \in S : g = n - i
  OBVIOUS
<1>7. ASSUME NEW j \in S PROVE j <= i
  <2>1. n - j \in Gaps
    OBVIOUS
  <2>2. ~ (n - j < n - i)
    BY <1>5, <1>6, <2>1
  <2> QED
    BY <2>2
<1> QED
  BY <1>7

LEMMA SaidNext ==
  ASSUME TypeInv, NEW t, NEW v, log' = Append(log, [topic |-> t, value |-> v]),
         NEW on, NEW of, NEW first
  PROVE  LastSaid(on, of, first)' = IF t = At(on, of) THEN v ELSE LastSaid(on, of, first)
<1> DEFINE said == {i \in DOMAIN log : log[i].topic = At(on, of)}
           said2 == {i \in DOMAIN log' : log'[i].topic = At(on, of)}
<1>1. PICK n \in Nat : n = Len(log)
  BY DEF TypeInv, TypeOK
<1>2. /\ DOMAIN log = 1 .. n /\ DOMAIN log' = 1 .. n + 1
      /\ \A i \in 1 .. n : log'[i] = log[i]
      /\ log'[n + 1].topic = t /\ log'[n + 1].value = v
  BY <1>1 DEF TypeInv, TypeOK
<1>3. LastSaid(on, of, first)' = IF said2 = {} THEN first
                                 ELSE log'[CHOOSE i \in said2 : \A j \in said2 : j <= i].value
  BY DEF LastSaid, At
<1>4. LastSaid(on, of, first) = IF said = {} THEN first
                                ELSE log[CHOOSE i \in said : \A j \in said : j <= i].value
  BY DEF LastSaid, At
<1>5. CASE t = At(on, of)
  <2>1. n + 1 \in said2 /\ \A j \in said2 : j \in Nat /\ j <= n + 1
    BY <1>2, <1>5
  <2> HIDE DEF said2
  <2>2. \A i \in said2 : (\A j \in said2 : j <= i) => i = n + 1
    BY <2>1
  <2>3. (CHOOSE i \in said2 : \A j \in said2 : j <= i) = n + 1
    BY <2>1, <2>2
  <2> QED
    BY <1>2, <1>3, <1>5, <2>1, <2>3
<1>6. CASE t # At(on, of)
  <2>1. said2 = said
    BY <1>2, <1>6
  <2>2. said \subseteq 1 .. n
    BY <1>2
  <2>3. ASSUME said # {}
        PROVE  log'[CHOOSE i \in said : \A j \in said : j <= i].value
                 = log[CHOOSE i \in said : \A j \in said : j <= i].value
    <3>1. \E i \in said : \A j \in said : j <= i
      BY <2>2, <2>3, LatestThere
    <3>2. (CHOOSE i \in said : \A j \in said : j <= i) \in 1 .. n
      BY <2>2, <3>1
    <3> QED
      BY <1>2, <3>2
  <2> HIDE DEF said, said2
  <2> QED
    BY <1>3, <1>4, <1>6, <2>1, <2>3
<1> QED
  BY <1>5, <1>6

LEMMA Subjects ==
  ASSUME NEW k \in Call
  PROVE  /\ Is(k, {"appoint", "dismiss", "leave", "kick"}) => About(k) = At("role", Who(k))
         /\ Is(k, {"flags"}) => About(k) = At("flags", By(k))
         /\ Is(k, {"mute"}) => About(k) = At("mute", By(k))
         /\ Is(k, {"title"}) => About(k) = At("title", NoUser)
         /\ Is(k, {"photo"}) => About(k) = At("photo", NoUser)
         /\ Is(k, {"pin", "unpin"}) => About(k) = At("pin", NoUser)
         /\ Is(k, {"permit"}) => About(k) = At("permissions", NoUser)
  BY DEF About, Is, At

LEMMA TopicsTyped ==
  ASSUME NEW t \in Topics
  PROVE  /\ t = At(t.on, t.of)
         /\ \/ t.on \in {"title", "pin"} /\ t.of = NoUser
            \/ t.on = "role" /\ t.of \in User \ {Owner}
            \/ t.on \in {"flags", "mute"} /\ t.of \in User
  BY DEF Topics, At

\* A call that writes or tells is about the same, with the same news.
LEMMA NewsStays ==
  ASSUME TypeInv, NEW k \in Call, pc[k] \in {"write", "tell"}, UNCHANGED req,
         snap'[k].bits = snap[k].bits, snap'[k].msg = snap[k].msg
  PROVE  About(k)' = About(k) /\ Telling(k)' = Telling(k)
<1>1. Is(k, {"appoint", "dismiss", "permit", "title", "photo", "pin", "unpin", "flags", "mute"})
  BY DEF TypeInv, Writing
<1>2. About(k)' = About(k)
  BY <1>1 DEF About, Is, Who, By
<1>3. NewBits(k, snap[k].bits)' = NewBits(k, snap[k].bits)
  BY DEF NewBits, Mask
<1> QED
  BY <1>2, <1>3 DEF Telling, Is

\* A topic whose row, news and callers stay as they are.
LEMMA AgreedStays ==
  ASSUME TypeInv, NEW t, Agreed(t), InRow(t)' = InRow(t), Told(t)' = Told(t),
         UNCHANGED req,
         \A k \in Call : pc[k] \in {"write", "tell"} =>
           snap'[k].bits = snap[k].bits /\ snap'[k].msg = snap[k].msg,
         \A k \in Call : pc'[k] = "tell" => pc[k] = "tell" \/ (About(k)' # t /\ About(k) # t),
         \A k \in Call : pc[k] = "tell" => pc'[k] = "tell" \/ (About(k)' # t /\ About(k) # t)
  PROVE  Agreed(t)'
<1>1. \A k \in Call : pc[k] = "tell" => About(k)' = About(k) /\ Telling(k)' = Telling(k)
  BY NewsStays
<1>2. \A k \in Call : pc'[k] = "tell" /\ About(k)' = t => pc[k] = "tell" /\ About(k) = t
  BY <1>1
<1>3. \A k \in Call : pc[k] = "tell" /\ About(k) = t => pc'[k] = "tell" /\ About(k)' = t
  BY <1>1
<1> QED
  BY <1>1, <1>2, <1>3 DEF Agreed

LEMMA SameRow ==
  ASSUME NEW t, UNCHANGED <<title, pinned, admin, flags, mute>>
  PROVE  InRow(t)' = InRow(t)
  BY DEF InRow

LEMMA SameNews ==
  ASSUME NEW t, UNCHANGED <<log, told>>
  PROVE  Told(t)' = Told(t)
<1>1. \A first : LastSaid(t.on, t.of, first)' = LastSaid(t.on, t.of, first)
  BY DEF LastSaid
<1> QED
  BY <1>1 DEF Told

LEMMA AnnounceInit ==
  ASSUME Init
  PROVE  AnnounceInv
<1>1. \A k \in Call : pc[k] = "start"
  BY DEF Init
<1>2. \A on, of, first : LastSaid(on, of, first) = first
  BY DEF Init, LastSaid
<1>3. ASSUME NEW t \in Topics PROVE InRow(t) = Told(t)
  <2>1. CASE t.on = "role" /\ t.of \in User
    <3>1. admin[t.of] = (t.of \in Moderators)
      BY <2>1 DEF Init
    <3>2. InRow(t) = IF t.of \in Moderators THEN 1 ELSE 0
      BY <2>1, <3>1 DEF InRow
    <3>3. PICK first : first = IF t.of \in Moderators THEN 1 ELSE 0
      OBVIOUS
    <3>4. Told(t) = LastSaid(t.on, t.of, first)
      BY <2>1, <3>3 DEF Told
    <3> QED
      BY <1>2, <3>2, <3>3, <3>4
  <2>2. CASE t.on \in {"title", "pin"}
    BY <1>2, <2>2 DEF Init, InRow, Told
  <2>3. CASE t.on \in {"flags", "mute"} /\ t.of \in User
    BY <2>3 DEF Init, InRow, Told
  <2> QED
    BY <2>1, <2>2, <2>3, TopicsTyped
<1> QED
  BY <1>1, <1>3 DEF AnnounceInv, Agreed

\* A step that starts no change and tells nothing.
LEMMA AnnounceBeside ==
  ASSUME TypeInv, TypeInv', AnnounceInv, NEW k \in Call,
         \/ (Delete(k) \/ Add(k) \/ LinkCheck(k) \/ LinkPick(k) \/ JoinCheck(k) \/ JoinAdd(k) \/ JoinCount(k))
              /\ UNCHANGED faults
         \/ Fail(k)
  PROVE  AnnounceInv'
<1>1. /\ UNCHANGED <<req, title, pinned, admin, flags, mute, log, told>> /\ overlap \subseteq overlap'
  BY DEF Delete, Add, LinkCheck, LinkPick, JoinCheck, JoinAdd, JoinCount, Fail, Refuse, Begin, rows, past
<1>2. \A o \in Call : o # k => pc'[o] = pc[o] /\ snap'[o] = snap[o]
  BY DEF Delete, Add, LinkCheck, LinkPick, JoinCheck, JoinAdd, JoinCount, Fail, Refuse, Begin, Goto,
     TypeInv, TypeOK
<1>3. pc'[k] \notin {"write", "tell"}
  BY DEF Delete, Add, LinkCheck, LinkPick, JoinCheck, JoinAdd, JoinCount, Fail, Refuse, Begin, Goto,
     TypeInv, TypeOK
<1>4. pc[k] \in {"write", "tell"} => faults' # 0
  BY DEF Delete, Add, LinkCheck, LinkPick, JoinCheck, JoinAdd, JoinCount, Fail, TypeInv, TypeOK
<1>5. faults' = 0 => faults = 0
  BY DEF Fail, TypeInv, TypeOK
<1>6. ASSUME NEW o \in Call, NEW q \in Call, o # q, pc'[o] \in {"write", "tell"}, pc'[q] \in {"write", "tell"},
             About(o)' = About(q)'
      PROVE  About(o)' \in overlap'
  <2>1. /\ pc[o] \in {"write", "tell"} /\ pc[q] \in {"write", "tell"}
        /\ About(o)' = About(o) /\ About(q)' = About(q)
    BY <1>1, <1>2, <1>3, <1>6, NewsStays
  <2> QED
    BY <1>1, <1>6, <2>1 DEF AnnounceInv
<1>7. ASSUME faults' = 0, NEW t \in Topics, t \notin overlap' PROVE Agreed(t)'
  <2>1. Agreed(t)
    BY <1>1, <1>5, <1>7 DEF AnnounceInv
  <2>2. InRow(t)' = InRow(t) /\ Told(t)' = Told(t)
    BY <1>1, SameRow, SameNews
  <2> QED
    BY <1>1, <1>2, <1>3, <1>4, <1>7, <2>1, <2>2, AgreedStays
<1> QED
  BY <1>6, <1>7 DEF AnnounceInv, Topics

LEMMA AnnounceCheck ==
  ASSUME TypeInv, TypeInv', AnnounceInv, NEW k \in Call, Check(k), UNCHANGED faults
  PROVE  AnnounceInv'
<1>1. /\ UNCHANGED <<req, title, pinned, admin, flags, mute, log, told>> /\ overlap \subseteq overlap'
      /\ pc[k] = "start"
  BY DEF Check, Refuse, Begin, rows, past
<1>2. \A o \in Call : o # k => pc'[o] = pc[o] /\ snap'[o] = snap[o]
  BY DEF Check, Refuse, Begin, Goto, TypeInv, TypeOK
<1>3. About(k)' = About(k)
  BY <1>1 DEF Check, About, Is, Who, By
<1>4. pc'[k] = "tell" => About(k) \notin Topics
  <2>1. pc'[k] = "tell" => Is(k, {"photo"})
    BY DEF Check, Refuse, Begin, Goto, TypeInv, TypeOK
  <2>2. At("photo", NoUser) \notin Topics
    BY TopicsTyped DEF At
  <2> QED
    BY <2>1, <2>2, Subjects
<1>5. ASSUME NEW o \in Call, o # k, pc'[k] \in {"write", "tell"}, pc'[o] \in {"write", "tell"},
             About(o) = About(k)
      PROVE  About(k) \in overlap'
  <2>1. Begun(o)
    BY <1>2, <1>5 DEF Begun
  <2>2. Begin(k, IF Is(k, {"photo"}) THEN "tell" ELSE "write", About(k))
    BY <1>5 DEF Check, Refuse, Goto, TypeInv, TypeOK
  <2> QED
    BY <1>5, <2>1, <2>2 DEF Begin
<1>6. ASSUME NEW o \in Call, o # k, pc'[o] \in {"write", "tell"}
      PROVE  pc[o] \in {"write", "tell"} /\ About(o)' = About(o)
  BY <1>1, <1>2, <1>6, NewsStays
<1>7. ASSUME NEW o \in Call, NEW q \in Call, o # q, pc'[o] \in {"write", "tell"}, pc'[q] \in {"write", "tell"},
             About(o)' = About(q)'
      PROVE  About(o)' \in overlap'
  <2>1. CASE o = k
    BY <1>3, <1>5, <1>6, <1>7, <2>1
  <2>2. CASE q = k
    BY <1>3, <1>5, <1>6, <1>7, <2>2
  <2>3. CASE o # k /\ q # k
    BY <1>1, <1>6, <1>7, <2>3 DEF AnnounceInv
  <2> QED
    BY <2>1, <2>2, <2>3
<1>8. ASSUME faults' = 0, NEW t \in Topics, t \notin overlap' PROVE Agreed(t)'
  <2>1. Agreed(t)
    BY <1>1, <1>8 DEF AnnounceInv
  <2>2. InRow(t)' = InRow(t) /\ Told(t)' = Told(t)
    BY <1>1, SameRow, SameNews
  <2> QED
    BY <1>1, <1>2, <1>3, <1>4, <2>1, <2>2, AgreedStays
<1> QED
  BY <1>7, <1>8 DEF AnnounceInv, Topics

\* The UPDATE of a call puts into its row what the call is going to tell, and
\* touches no other row.
LEMMA RowWritten ==
  ASSUME TypeInv, NEW k \in Call, Write(k), NEW t \in Topics
  PROVE  /\ About(k) = t => InRow(t)' = Telling(k)
         /\ About(k) # t => InRow(t)' = InRow(t)
<1>1. Who(k) \in User /\ By(k) \in User
  BY RequestTyped DEF TypeInv
<1>2. /\ t = At(t.on, t.of)
      /\ \/ t.on \in {"title", "pin"} /\ t.of = NoUser
         \/ t.on = "role" /\ t.of \in User \ {Owner}
         \/ t.on \in {"flags", "mute"} /\ t.of \in User
  BY TopicsTyped
<1>3. CASE WriteRole(k)
  <2>1. /\ About(k) = At("role", Who(k)) /\ admin' = [admin EXCEPT ![Who(k)] = Is(k, {"appoint"})]
        /\ UNCHANGED <<title, pinned, flags, mute>>
    BY <1>3, Subjects DEF WriteRole, NewRole, Is
  <2>2. Telling(k) = IF Is(k, {"appoint"}) THEN 1 ELSE 0
    BY <1>3 DEF WriteRole, Telling, Is
  <2>3. CASE t.on = "role" /\ t.of = Who(k)
    <3>1. admin'[Who(k)] = Is(k, {"appoint"})
      BY <1>1, <2>1 DEF TypeInv, TypeOK
    <3>2. InRow(t)' = IF Is(k, {"appoint"}) THEN 1 ELSE 0
      BY <2>3, <3>1 DEF InRow
    <3> QED
      BY <1>2, <2>1, <2>2, <2>3, <3>2
  <2>4. CASE t.on = "role" /\ t.of \in User /\ t.of # Who(k)
    <3>1. admin'[t.of] = admin[t.of]
      BY <2>1, <2>4 DEF TypeInv, TypeOK
    <3>2. InRow(t)' = InRow(t)
      BY <2>4, <3>1 DEF InRow
    <3> QED
      BY <2>1, <2>4, <3>2 DEF At
  <2>5. CASE t.on # "role"
    <3>1. InRow(t)' = InRow(t)
      BY <2>1, <2>5 DEF InRow
    <3> QED
      BY <2>1, <2>5, <3>1 DEF At
  <2> QED
    BY <1>2, <2>3, <2>4, <2>5
<1>4. CASE WriteTitle(k)
  BY <1>2, <1>4, Subjects DEF WriteTitle, InRow, Telling, Is, At
<1>5. CASE WritePin(k)
  BY <1>2, <1>5, Subjects DEF WritePin, InRow, Telling, Is, At
<1>6. CASE WriteFlags(k)
  <2>1. /\ About(k) = At("flags", By(k)) /\ flags' = [flags EXCEPT ![By(k)] = NewBits(k, snap[k].bits)]
        /\ UNCHANGED <<title, pinned, admin, mute>> /\ Telling(k) = NewBits(k, snap[k].bits)
    BY <1>6, Subjects DEF WriteFlags, Telling, Is
  <2>2. \A u \in User : flags'[u] = IF u = By(k) THEN NewBits(k, snap[k].bits) ELSE flags[u]
    BY <1>1, <2>1 DEF TypeInv, TypeOK
  <2> QED
    BY <1>2, <2>1, <2>2 DEF InRow, At
<1>7. CASE WriteMute(k)
  <2>1. /\ About(k) = At("mute", By(k)) /\ mute' = [mute EXCEPT ![By(k)] = req[k].what]
        /\ UNCHANGED <<title, pinned, admin, flags>> /\ Telling(k) = req[k].what
    BY <1>7, Subjects DEF WriteMute, Telling, Is
  <2>2. \A u \in User : mute'[u] = IF u = By(k) THEN req[k].what ELSE mute[u]
    BY <1>1, <2>1 DEF TypeInv, TypeOK
  <2> QED
    BY <1>2, <2>1, <2>2 DEF InRow, At
<1>8. CASE WritePermissions(k)
  <2>1. About(k) = At("permissions", NoUser) /\ UNCHANGED <<title, pinned, admin, flags, mute>>
    BY <1>8, Subjects DEF WritePermissions
  <2> QED
    BY <1>2, <2>1, SameRow DEF At
<1> QED
  BY <1>3, <1>4, <1>5, <1>6, <1>7, <1>8 DEF Write

LEMMA AnnounceWrite ==
  ASSUME TypeInv, TypeInv', AnnounceInv, NEW k \in Call, Write(k), UNCHANGED faults
  PROVE  AnnounceInv'
<1>1. pc[k] = "write" /\ UNCHANGED <<req, snap, overlap, log, told>>
  BY DEF Write
<1>2. \A o \in Call : o # k => pc'[o] = pc[o]
  BY DEF Write, Goto, TypeInv, TypeOK
<1>3. pc'[k] = IF Is(k, {"permit"}) THEN "done" ELSE "tell"
  BY DEF Write, Goto, TypeInv, TypeOK
<1>4. \A o \in Call : pc[o] \in {"write", "tell"} => About(o)' = About(o) /\ Telling(o)' = Telling(o)
  BY <1>1, NewsStays
<1>5. \A o \in Call : pc'[o] \in {"write", "tell"} => pc[o] \in {"write", "tell"}
  BY <1>1, <1>2
<1>6. ASSUME NEW o \in Call, NEW q \in Call, o # q, pc'[o] \in {"write", "tell"}, pc'[q] \in {"write", "tell"},
             About(o)' = About(q)'
      PROVE  About(o)' \in overlap'
  BY <1>1, <1>4, <1>5, <1>6 DEF AnnounceInv
<1>7. ASSUME faults' = 0, NEW t \in Topics, t \notin overlap' PROVE Agreed(t)'
  <2>1. Agreed(t) /\ t \notin overlap
    BY <1>1, <1>7 DEF AnnounceInv
  <2>2. Told(t)' = Told(t)
    BY <1>1, SameNews
  <2>3. CASE About(k) = t
    <3>1. \A o \in Call : pc'[o] = "tell" /\ About(o)' = t => o = k
      BY <1>1, <1>2, <1>4, <2>1, <2>3 DEF AnnounceInv
    <3>2. ~ Is(k, {"permit"})
      BY <2>3, Subjects, TopicsTyped DEF At
    <3>3. pc'[k] = "tell" /\ About(k)' = t
      BY <1>1, <1>3, <1>4, <2>3, <3>2
    <3>4. InRow(t)' = Telling(k)'
      BY <1>1, <1>4, <2>3, RowWritten
    <3> QED
      BY <3>1, <3>3, <3>4 DEF Agreed
  <2>4. CASE About(k) # t
    <3>1. InRow(t)' = InRow(t)
      BY <2>4, RowWritten
    <3>2. About(k)' # t
      BY <1>1, <1>4, <2>4
    <3> QED
      BY <1>1, <1>2, <2>1, <2>2, <2>4, <3>1, <3>2, AgreedStays
  <2> QED
    BY <2>3, <2>4
<1> QED
  BY <1>6, <1>7 DEF AnnounceInv, Topics

\* A service message about a topic is what was told last about it, and about
\* no other.
LEMMA SaidAbout ==
  ASSUME TypeInv, NEW s, NEW v, log' = Append(log, [topic |-> s, value |-> v]), UNCHANGED told,
         NEW t \in Topics
  PROVE  /\ s = t /\ t.on \in {"title", "pin", "role"} => Told(t)' = v
         /\ s # t => Told(t)' = Told(t)
<1>1. PICK first : first = IF t.on = "role" /\ t.of \in Moderators THEN 1 ELSE 0
  OBVIOUS
<1>2. LastSaid(t.on, t.of, first)' = IF s = At(t.on, t.of) THEN v ELSE LastSaid(t.on, t.of, first)
  BY SaidNext
<1>3. t = At(t.on, t.of)
  BY TopicsTyped
<1>4. CASE t.on \in {"flags", "mute"}
  BY <1>4 DEF Told
<1>5. CASE t.on \notin {"flags", "mute"}
  <2>1. Told(t) = LastSaid(t.on, t.of, first)
    BY <1>1, <1>5 DEF Told
  <2>2. Told(t)' = LastSaid(t.on, t.of, first)'
    BY <1>1, <1>5 DEF Told
  <2> QED
    BY <1>2, <1>3, <2>1, <2>2
<1> QED
  BY <1>4, <1>5

LEMMA NewsTold ==
  ASSUME TypeInv, NEW k \in Call, Tell(k), NEW t \in Topics
  PROVE  /\ About(k) = t => Told(t)' = Telling(k)
         /\ About(k) # t => Told(t)' = Told(t)
<1>1. By(k) \in User
  BY RequestTyped DEF TypeInv
<1>2. /\ t = At(t.on, t.of)
      /\ \/ t.on \in {"title", "pin"} /\ t.of = NoUser
         \/ t.on = "role" /\ t.of \in User \ {Owner}
         \/ t.on \in {"flags", "mute"} /\ t.of \in User
  BY TopicsTyped
<1>3. ASSUME NEW v, Announce(k, v), About(k) = t => t.on \in {"title", "pin", "role"} /\ v = Telling(k)
      PROVE  /\ About(k) = t => Told(t)' = Telling(k)
             /\ About(k) # t => Told(t)' = Told(t)
  BY <1>3, SaidAbout DEF Announce, Say
<1>4. CASE AnnounceRole(k)
  <2>1. About(k) = At("role", Who(k)) /\ Telling(k) = IF Is(k, {"appoint"}) THEN 1 ELSE 0
    BY <1>4, Subjects DEF AnnounceRole, Telling, Is
  <2> QED
    BY <1>2, <1>3, <1>4, <2>1 DEF AnnounceRole, At
<1>5. CASE AnnounceTitle(k)
  <2>1. About(k) = At("title", NoUser) /\ Telling(k) = req[k].what
    BY <1>5, Subjects DEF AnnounceTitle, Telling, Is
  <2> QED
    BY <1>2, <1>3, <1>5, <2>1 DEF AnnounceTitle, At
<1>6. CASE AnnouncePhoto(k)
  <2>1. About(k) = At("photo", NoUser)
    BY <1>6, Subjects DEF AnnouncePhoto
  <2>2. About(k) # t
    BY <1>2, <2>1 DEF At
  <2> QED
    BY <1>3, <1>6, <2>2 DEF AnnouncePhoto
<1>7. CASE AnnouncePin(k) \/ AnnounceUnpin(k)
  <2>1. /\ About(k) = At("pin", NoUser)
        /\ Telling(k) = IF Is(k, {"pin"}) THEN snap[k].msg ELSE 0
    BY <1>7, Subjects DEF AnnouncePin, AnnounceUnpin, Telling, Is
  <2>2. Announce(k, Telling(k))
    BY <1>7, <2>1 DEF AnnouncePin, AnnounceUnpin, Is
  <2> QED
    BY <1>2, <1>3, <2>1, <2>2 DEF At
<1>8. CASE SendChatFlagsUpdate(k)
  <2>1. /\ About(k) = At("flags", By(k)) /\ Telling(k) = NewBits(k, snap[k].bits) /\ UNCHANGED log
        /\ told' = [told EXCEPT ![By(k)] = [told[By(k)] EXCEPT !.flags = NewBits(k, snap[k].bits)]]
    BY <1>8, Subjects DEF SendChatFlagsUpdate, Telling, Is
  <2>2. \A u \in User : /\ told'[u].flags = IF u = By(k) THEN NewBits(k, snap[k].bits) ELSE told[u].flags
                        /\ told'[u].mute = told[u].mute
    BY <1>1, <2>1 DEF TypeInv, TypeOK
  <2>3. \A first : LastSaid(t.on, t.of, first)' = LastSaid(t.on, t.of, first)
    BY <2>1 DEF LastSaid
  <2> QED
    BY <1>2, <2>1, <2>2, <2>3 DEF Told, At
<1>9. CASE SendNotificationSet(k)
  <2>1. /\ About(k) = At("mute", By(k)) /\ Telling(k) = req[k].what /\ UNCHANGED log
        /\ told' = [told EXCEPT ![By(k)] = [told[By(k)] EXCEPT !.mute = req[k].what]]
    BY <1>9, Subjects DEF SendNotificationSet, Telling, Is
  <2>2. \A u \in User : /\ told'[u].mute = IF u = By(k) THEN req[k].what ELSE told[u].mute
                        /\ told'[u].flags = told[u].flags
    BY <1>1, <2>1 DEF TypeInv, TypeOK
  <2>3. \A first : LastSaid(t.on, t.of, first)' = LastSaid(t.on, t.of, first)
    BY <2>1 DEF LastSaid
  <2> QED
    BY <1>2, <2>1, <2>2, <2>3 DEF Told, At
<1> QED
  BY <1>4, <1>5, <1>6, <1>7, <1>8, <1>9 DEF Tell

LEMMA AnnounceTell ==
  ASSUME TypeInv, TypeInv', AnnounceInv, NEW k \in Call, Tell(k), UNCHANGED faults
  PROVE  AnnounceInv'
<1>1. pc[k] = "tell" /\ UNCHANGED <<req, snap, overlap, title, pinned, admin, flags, mute>>
  BY DEF Tell, rows, past
<1>2. \A o \in Call : o # k => pc'[o] = pc[o]
  BY DEF Tell, Goto, TypeInv, TypeOK
<1>3. pc'[k] = "done"
  BY DEF Tell, Goto, TypeInv, TypeOK
<1>4. \A o \in Call : pc[o] \in {"write", "tell"} => About(o)' = About(o) /\ Telling(o)' = Telling(o)
  BY <1>1, NewsStays
<1>5. ASSUME NEW o \in Call, NEW q \in Call, o # q, pc'[o] \in {"write", "tell"}, pc'[q] \in {"write", "tell"},
             About(o)' = About(q)'
      PROVE  About(o)' \in overlap'
  BY <1>1, <1>2, <1>3, <1>4, <1>5 DEF AnnounceInv
<1>6. ASSUME faults' = 0, NEW t \in Topics, t \notin overlap' PROVE Agreed(t)'
  <2>1. Agreed(t) /\ t \notin overlap
    BY <1>1, <1>6 DEF AnnounceInv
  <2>2. InRow(t)' = InRow(t)
    BY <1>1, SameRow
  <2>3. CASE About(k) = t
    <3>1. \A o \in Call : ~ (pc'[o] = "tell" /\ About(o)' = t)
      BY <1>1, <1>2, <1>3, <1>4, <2>1, <2>3 DEF AnnounceInv
    <3>2. InRow(t) = Telling(k) /\ Told(t)' = Telling(k)
      BY <1>1, <2>1, <2>3, NewsTold DEF Agreed
    <3> QED
      BY <2>2, <3>1, <3>2 DEF Agreed
  <2>4. CASE About(k) # t
    <3>1. Told(t)' = Told(t)
      BY <2>4, NewsTold
    <3>2. About(k)' # t
      BY <1>1, <1>4, <2>4
    <3> QED
      BY <1>1, <1>2, <1>3, <2>1, <2>2, <2>4, <3>1, <3>2, AgreedStays
  <2> QED
    BY <2>3, <2>4
<1> QED
  BY <1>5, <1>6 DEF AnnounceInv, Topics

LEMMA AnnounceRemove ==
  ASSUME TypeInv, TypeInv', AnnounceInv, NEW k \in Call, Remove(k), UNCHANGED faults
  PROVE  AnnounceInv'
<1>1. /\ pc[k] = "start" /\ UNCHANGED <<req, snap, title, pinned, flags, mute, told>>
      /\ overlap \subseteq overlap' /\ About(k) = At("role", Who(k)) /\ Who(k) \in User
  BY Subjects, RequestTyped DEF Remove, Depart, Refuse, Begin, rows, past, TypeInv, Is
<1>2. \A o \in Call : o # k => pc'[o] = pc[o]
  BY DEF Remove, Depart, Refuse, Begin, Goto, TypeInv, TypeOK
<1>3. pc'[k] = "done"
  BY DEF Remove, Depart, Refuse, Begin, Goto, TypeInv, TypeOK
<1>4. \A o \in Call : pc[o] \in {"write", "tell"} => About(o)' = About(o) /\ Telling(o)' = Telling(o)
  BY <1>1, NewsStays
<1>5. ASSUME NEW o \in Call, NEW q \in Call, o # q, pc'[o] \in {"write", "tell"}, pc'[q] \in {"write", "tell"},
             About(o)' = About(q)'
      PROVE  About(o)' \in overlap'
  BY <1>1, <1>2, <1>3, <1>4, <1>5 DEF AnnounceInv
<1>6. ASSUME faults' = 0, NEW t \in Topics, t \notin overlap' PROVE Agreed(t)'
  <2>1. Agreed(t)
    BY <1>1, <1>6 DEF AnnounceInv
  <2>2. CASE UNCHANGED <<admin, log>>
    <3>1. InRow(t)' = InRow(t) /\ Told(t)' = Told(t)
      BY <1>1, <2>2, SameRow, SameNews
    <3> QED
      BY <1>1, <1>2, <1>3, <2>1, <3>1, AgreedStays
  <2>3. CASE Begin(k, "done", About(k)) /\ admin' = Dismissed(Who(k)) /\ Say(About(k), 0)
    <3>1. log' = Append(log, [topic |-> About(k), value |-> 0])
      BY <2>3 DEF Say
    <3>2. \A u \in User : admin'[u] = IF u = Who(k) THEN admin[u] /\ u = Owner ELSE admin[u]
      BY <1>1, <2>3 DEF Dismissed, TypeInv, TypeOK
    <3>3. CASE About(k) = t
      <4>1. t.on = "role" /\ t.of = Who(k) /\ Who(k) # Owner
        BY <1>1, <3>3, TopicsTyped DEF At
      <4>2. \A o \in Call : ~ (pc'[o] = "tell" /\ About(o)' = t)
        <5> SUFFICES ASSUME NEW o \in Call, pc'[o] = "tell", About(o)' = t PROVE FALSE
          OBVIOUS
        <5>1. o # k /\ Begun(o) /\ About(o) = t
          BY <1>2, <1>3, <1>4 DEF Begun
        <5> QED
          BY <1>6, <2>3, <3>3, <5>1 DEF Begin
      <4>3. Told(t)' = 0
        BY <1>1, <3>1, <3>3, <4>1, SaidAbout
      <4>4. InRow(t)' = 0
        BY <1>1, <3>2, <4>1 DEF InRow
      <4> QED
        BY <4>2, <4>3, <4>4 DEF Agreed
    <3>4. CASE About(k) # t
      <4>1. Told(t)' = Told(t)
        BY <1>1, <3>1, <3>4, SaidAbout
      <4>2. InRow(t)' = InRow(t)
        <5>1. CASE t.on = "role" /\ t.of \in User
          <6>1. t = At("role", t.of)
            BY <5>1, TopicsTyped
          <6>2. admin'[t.of] = admin[t.of]
            BY <1>1, <3>2, <3>4, <5>1, <6>1
          <6> QED
            BY <5>1, <6>2 DEF InRow
        <5>2. CASE t.on # "role"
          BY <1>1, <5>2 DEF InRow
        <5> QED
          BY <5>1, <5>2, TopicsTyped
      <4> QED
        BY <1>1, <1>2, <1>3, <2>1, <4>1, <4>2, AgreedStays
    <3> QED
      BY <3>3, <3>4
  <2> QED
    BY <2>2, <2>3 DEF Remove, Depart, Refuse, rows
<1> QED
  BY <1>5, <1>6 DEF AnnounceInv, Topics

\* After a failing query only calls of one topic at once matter.
LEMMA AnnounceMisread ==
  ASSUME TypeInv, AnnounceInv, NEW k \in Call, Misread(k)
  PROVE  AnnounceInv'
<1>1. faults' # 0
  BY DEF Misread, TypeInv, TypeOK
<1>2. UNCHANGED <<req, snap>> /\ overlap \subseteq overlap'
  BY DEF Misread, Depart, Begin
<1>3. \A o \in Call : pc'[o] \in {"write", "tell"} => pc[o] \in {"write", "tell"}
  BY DEF Misread, Depart, Begin, Goto, TypeInv, TypeOK
<1>4. \A o \in Call : pc'[o] \in {"write", "tell"} => About(o)' = About(o)
  BY <1>2, <1>3, NewsStays
<1> QED
  BY <1>1, <1>2, <1>3, <1>4 DEF AnnounceInv

\* The chat is what its service messages say once nothing runs
\* (RowsAsAnnounced), and a user's flags and silence what his last event says:
\* for every topic at which no two calls were at once, although each handler
\* writes its row and tells of it in two steps.
THEOREM AnnouncementsAreTrue == Spec => []RowsAsAnnounced
<1>1. Init => AnnounceInv
  BY AnnounceInit
<1>2. TypeInv /\ AnnounceInv /\ TypeInv' /\ [Next]_vars => AnnounceInv'
  <2> SUFFICES ASSUME TypeInv, AnnounceInv, TypeInv', [Next]_vars PROVE AnnounceInv'
    OBVIOUS
  <2>1. ASSUME NEW k \in Call, Step(k) PROVE AnnounceInv'
    BY <2>1, AnnounceCheck, AnnounceWrite, AnnounceTell, AnnounceRemove, AnnounceBeside DEF Step
  <2>2. ASSUME NEW k \in Call, Fail(k) \/ Misread(k) PROVE AnnounceInv'
    BY <2>2, AnnounceBeside, AnnounceMisread
  <2>3. CASE UNCHANGED vars
    <3>1. UNCHANGED <<req, snap, pc, overlap, faults, title, pinned, admin, flags, mute, log, told>>
      BY <2>3 DEF vars, rows, calls, past
    <3>2. \A k \in Call : About(k)' = About(k)
      BY <3>1 DEF About, Is, Who, By
    <3>3. \A t \in Topics : Agreed(t) => Agreed(t)'
      BY <3>1, <3>2, SameRow, SameNews, AgreedStays
    <3> QED
      BY <3>1, <3>2, <3>3 DEF AnnounceInv, Topics
  <2> QED
    BY <2>1, <2>2, <2>3 DEF Next
<1>3. TypeInv /\ RoleInv /\ AnnounceInv => RowsAsAnnounced
  <2> SUFFICES ASSUME TypeInv, RoleInv, AnnounceInv, AtRest PROVE RowsAsAnnounced
    BY DEF RowsAsAnnounced
  <2>1. ASSUME NEW on, NEW of, Calm(on, of), At(on, of) \in Topics
        PROVE  InRow(At(on, of)) = Told(At(on, of))
    <3>1. \A k \in Call : pc[k] # "tell"
      BY DEF AtRest, Begun
    <3> QED
      BY <2>1, <3>1 DEF Calm, At, AnnounceInv, Agreed
  <2>2. Calm("title", NoUser) => title = LastSaid("title", NoUser, 0)
    <3>1. At("title", NoUser) \in Topics
      BY DEF Topics
    <3> QED
      BY <2>1, <3>1 DEF InRow, Told, At
  <2>3. Calm("pin", NoUser) => pinned = LastSaid("pin", NoUser, 0)
    <3>1. At("pin", NoUser) \in Topics
      BY DEF Topics
    <3> QED
      BY <2>1, <3>1 DEF InRow, Told, At
  <2>4. ASSUME NEW u \in User \ {Owner}, Calm("role", u)
        PROVE  u \in GetChatModerators <=> LastSaid("role", u, IF u \in Moderators THEN 1 ELSE 0) = 1
    <3>1. At("role", u) \in Topics
      BY DEF Topics
    <3>2. InRow(At("role", u)) = IF admin[u] THEN 1 ELSE 0
      BY DEF InRow, At
    <3>3. Told(At("role", u)) = LastSaid("role", u, IF u \in Moderators THEN 1 ELSE 0)
      BY DEF Told, At
    <3>4. admin[u] => IsMember(u)
      BY <2>4 DEF RoleInv, DepartedHaveNoRole, Calm
    <3>5. u \in GetChatModerators <=> admin[u]
      BY <3>4 DEF GetChatModerators
    <3> QED
      BY <2>1, <2>4, <3>1, <3>2, <3>3, <3>5
  <2>5. ASSUME NEW u \in User, Calm("flags", u) PROVE told[u].flags = flags[u]
    <3>1. At("flags", u) \in Topics
      BY DEF Topics
    <3> QED
      BY <2>1, <2>5, <3>1 DEF InRow, Told, At
  <2>6. ASSUME NEW u \in User, Calm("mute", u) PROVE told[u].mute = mute[u]
    <3>1. At("mute", u) \in Topics
      BY DEF Topics
    <3> QED
      BY <2>1, <2>6, <3>1 DEF InRow, Told, At
  <2> QED
    BY <2>2, <2>3, <2>4, <2>5, <2>6 DEF RowsAsAnnounced, GetPinnedMessage
<1> QED
  BY <1>1, <1>2, <1>3, RoleInvariant, PTL DEF Spec
=============================================================================
