------------------------------ MODULE ChatStore ------------------------------
(***************************************************************************)
(* One group chat in the database: its messages and their local ids, the   *)
(* conversation's last_message_id, the members and their presence periods, *)
(* under concurrent endpoint calls.                                        *)
(*                                                                         *)
(* Transactions are isolated as InnoDB isolates them by default: a plain   *)
(* SELECT reads the snapshot taken by the transaction's first plain        *)
(* SELECT, while SELECT ... FOR UPDATE, UPDATE and DELETE read what is     *)
(* committed, and lock it to the end of the transaction.  What a           *)
(* transaction writes is invisible to others before it commits, so its     *)
(* writes are made in its last step.  Statements outside a transaction are *)
(* steps of their own.  Times, texts and the members' last_message_id,     *)
(* last_read_id and deleted_before_id are left out.                        *)
(***************************************************************************)
EXTENDS Integers, Sequences

CONSTANTS
  User,         \* users
  NoUser,       \* not one of them
  Founders,     \* the members named when the chat was created, its owner first
  Admins,       \* those who have is_admin, the owner among them
  Call,         \* endpoint calls on the chat
  NoCall,       \* not one of them
  Requests,     \* the requests each call may turn out to have
  MaxFaults     \* bound: calls that fail or die half way

Kind == {"send", "add", "remove", "delete", "hide", "restore"}
Request == [kind : Kind, by : User, who : User, see : BOOLEAN]

ASSUME ChatStoreAssumption ==
  /\ NoUser \notin User /\ NoCall \notin Call
  /\ Founders \in Seq(User) /\ Len(Founders) > 0
  /\ \A i, j \in 1 .. Len(Founders) : i # j => Founders[i] # Founders[j]
  /\ Admins \subseteq {Founders[i] : i \in 1 .. Len(Founders)} /\ Founders[1] \in Admins
  /\ \A k \in Call : Requests[k] \subseteq Request
  /\ MaxFaults \in Nat

Owner == Founders[1]
Open == -1     \* end_local_id IS NULL

VARIABLES
  rows,      \* messages in the order of their commits: local_id, from_id, the user
             \* that a chat_kick_user message is about, deleted_at (and the flag
             \* 128, written with it), and as history the members at the commit
  last,      \* conversations.last_message_id
  member,    \* conversation_members: no row, left_at IS NULL, left_at set
  admin,     \* conversation_members.is_admin
  periods,   \* conversation_member_periods
  hidden,    \* deleted_messages: <<user, local_id>>
  lock,      \* the call whose transaction holds the conversation's row
  req,       \* call -> its request
  pc,        \* call -> control point
  val,       \* call -> the local id it has read from its snapshot, or allocated
  row,       \* call -> the message it deletes or restores
  seen,      \* call -> what its snapshot says: the user to add has no row; the
             \* message to restore is deleted
  faults

tables == <<rows, last, member, admin, periods, hidden>>
vars == <<tables, lock, req, pc, val, row, seen, faults>>

Point == {"start", "tx", "snap", "locked", "leave", "close", "restoring", "refresh",
          "done", "failed"}

Row == [lid : Nat, from : User, kicked : User \cup {NoUser}, deleted : BOOLEAN, to : SUBSET User]
Period == [user : User, start : Nat, end : Nat \cup {Open}]

TypeOK ==
  /\ rows \in Seq(Row) /\ last \in Nat
  /\ member \in [User -> {"none", "active", "left"}] /\ admin \in [User -> BOOLEAN]
  /\ periods \in Seq(Period) /\ hidden \subseteq User \X Nat
  /\ lock \in Call \cup {NoCall}
  /\ req \in [Call -> Request]
  /\ pc \in [Call -> Point]
  /\ val \in [Call -> Nat] /\ row \in [Call -> Nat] /\ seen \in [Call -> BOOLEAN]
  /\ faults \in 0 .. MaxFaults

Founded == {Founders[i] : i \in 1 .. Len(Founders)}

\* CreateConversation and the chat_create message of createChat are behind us.
Init ==
  /\ rows = <<[lid |-> 1, from |-> Owner, kicked |-> NoUser, deleted |-> FALSE, to |-> Founded]>>
  /\ last = 1
  /\ member = [u \in User |-> IF u \in Founded THEN "active" ELSE "none"]
  /\ admin = [u \in User |-> u \in Admins]
  /\ periods = [i \in 1 .. Len(Founders) |-> [user |-> Founders[i], start |-> 1, end |-> Open]]
  /\ hidden = {} /\ lock = NoCall
  /\ req \in {q \in [Call -> UNION {Requests[k] : k \in Call}] :
                \A k \in Call : q[k] \in Requests[k]}
  /\ pc = [k \in Call |-> "start"]
  /\ val = [k \in Call |-> 0] /\ row = [k \in Call |-> 0] /\ seen = [k \in Call |-> FALSE]
  /\ faults = 0

-----------------------------------------------------------------------------
(* Shared vocabulary.                                                      *)

Active == {u \in User : member[u] = "active"}
Larger(a, b) == IF a > b THEN a ELSE b
Is(k, kind) == req[k].kind = kind
Goto(k, p) == pc' = [pc EXCEPT ![k] = p]

\* ORDER BY local_id DESC LIMIT 1, or MAX with COALESCE: m is the highest
\* local id of the messages in I, 0 when there is none.
Highest(m, I) ==
  /\ m \in {rows[i].lid : i \in I} \cup {0}
  /\ \A i \in I : rows[i].lid <= m

All == DOMAIN rows
Undeleted == {i \in All : ~rows[i].deleted}

\* The last chat_kick_user message about u is from somebody else.
Kicked(u) ==
  \E i \in All : /\ rows[i].kicked = u /\ rows[i].from # u
                 /\ \A j \in All : rows[j].kicked = u => rows[j].lid <= rows[i].lid

\* BuildVisibilityFilter; a user without any period sees every message.
InPeriod(u, l) ==
  \E j \in DOMAIN periods :
    /\ periods[j].user = u /\ periods[j].start <= l
    /\ periods[j].end = Open \/ l <= periods[j].end
Visible(u, i) ==
  /\ ~rows[i].deleted /\ <<u, rows[i].lid>> \notin hidden
  /\ InPeriod(u, rows[i].lid) \/ \A j \in DOMAIN periods : periods[j].user # u

\* Another transaction has changed the message and not committed yet.
RowLocked(i) == \E k \in Call : pc[k] = "refresh" /\ ~Is(k, "hide") /\ row[k] = i

\* Mutant of NextLocalID: it trusts last_message_id.
NextLocalIDLast(k, max) ==
  /\ lock = NoCall /\ lock' = k
  /\ val' = [val EXCEPT ![k] = last + 1]
  /\ Goto(k, "locked")

\* NextLocalID: the conversation FOR UPDATE, then MAX(local_id), which a plain
\* SELECT reads.  Its UPDATE of last_message_id is made at the commit.
NextLocalID(k, max) ==
  /\ lock = NoCall /\ lock' = k
  /\ val' = [val EXCEPT ![k] = Larger(max, last) + 1]
  /\ Goto(k, "locked")

\* Create(msg) and the commit.
Insert(k, kicked, to) ==
  /\ rows' = Append(rows, [lid |-> val[k], from |-> req[k].by, kicked |-> kicked,
                           deleted |-> FALSE, to |-> to])
  /\ last' = val[k]
Unlock == lock' = NoCall

-----------------------------------------------------------------------------
(* messages.send, and the other handlers that insert one message.          *)

\* IsUserInChat, before the transaction.
SendCheck(k) ==
  /\ pc[k] = "start" /\ Is(k, "send")
  /\ Goto(k, IF req[k].by \in Active THEN "tx" ELSE "done")
  /\ UNCHANGED <<tables, lock, val, row, seen>>

\* The transaction's first plain SELECT comes after the lock.
Lock(k) ==
  /\ pc[k] = "tx" /\ (Is(k, "send") \/ Is(k, "remove"))
  /\ \E m \in {rows[i].lid : i \in All} \cup {0} : Highest(m, All) /\ NextLocalID(k, m)
  /\ UNCHANGED <<tables, row, seen>>

SendCommit(k) ==
  /\ pc[k] = "locked" /\ Is(k, "send")
  /\ Insert(k, NoUser, Active) /\ Unlock
  /\ Goto(k, "done")
  /\ UNCHANGED <<member, admin, periods, hidden, val, row, seen>>

-----------------------------------------------------------------------------
(* messages.addChatUser and joinChatByInviteLink.                          *)

\* Who was kicked returns with an administrator only.
AddCheck(k) ==
  /\ pc[k] = "start" /\ Is(k, "add")
  /\ LET r == req[k]
         refused == member[r.who] = "left" /\ Kicked(r.who) /\ (r.by = r.who \/ ~admin[r.by])
     IN  Goto(k, IF refused THEN "done" ELSE "tx")
  /\ UNCHANGED <<tables, lock, val, row, seen>>

\* AddUserToConversation up to isNewMember: plain SELECTs of one snapshot, in
\* which NextLocalID will look for the highest local id as well.
AddSnapshot(k) ==
  /\ pc[k] = "tx" /\ Is(k, "add")
  /\ LET r == req[k]
         refused == /\ member[r.who] = "left" /\ Kicked(r.who)
                    /\ \/ r.by = r.who
                       \/ r.by # Owner /\ ~admin[r.by]
     IN  Goto(k, IF member[r.who] = "active" \/ refused THEN "done" ELSE "snap")
  /\ \E m \in {rows[i].lid : i \in All} \cup {0} :
       Highest(m, All) /\ val' = [val EXCEPT ![k] = m]
  /\ seen' = [seen EXCEPT ![k] = member[req[k].who] = "none"]
  /\ UNCHANGED <<tables, lock, row>>

\* The look for a kick that fails, here or there, finds none.
AddUnread(k) ==
  /\ Is(k, "add")
  /\ \/ /\ pc[k] = "start"
        /\ Goto(k, "tx") /\ UNCHANGED <<val, seen>>
     \/ /\ pc[k] = "tx" /\ member[req[k].who] = "left"
        /\ Goto(k, "snap")
        /\ \E m \in {rows[i].lid : i \in All} \cup {0} :
             Highest(m, All) /\ val' = [val EXCEPT ![k] = m]
        /\ seen' = [seen EXCEPT ![k] = FALSE]
  /\ UNCHANGED <<tables, lock, row>>

AddLock(k) ==
  /\ pc[k] = "snap"
  /\ NextLocalID(k, val[k])
  /\ UNCHANGED <<tables, row, seen>>

\* The row of a new member collides if somebody has added the user meanwhile;
\* that of a returning one is updated whatever it says by now.
AddCommit(k) ==
  /\ pc[k] = "locked" /\ Is(k, "add")
  /\ LET r == req[k]
     IN  IF seen[k] /\ member[r.who] # "none"
         THEN UNCHANGED <<rows, last, member, periods>>
         ELSE /\ Insert(k, NoUser, Active \cup {r.who})
              /\ member' = [member EXCEPT ![r.who] = "active"]
              /\ periods' = Append(periods, [user |-> r.who, end |-> Open,
                                             start |-> IF r.see THEN 1 ELSE val[k]])
  /\ Unlock /\ Goto(k, "done")
  /\ UNCHANGED <<admin, hidden, val, row, seen>>

-----------------------------------------------------------------------------
(* messages.removeChatUser: three writes, each on its own.                 *)

\* Administrators may remove, but not the owner, and not one another unless
\* they own the chat; and the user must be in.
RemoveCheck(k) ==
  /\ pc[k] = "start" /\ Is(k, "remove")
  /\ LET r == req[k]
         allowed == \/ r.by = r.who
                    \/ /\ admin[r.by] /\ member[r.by] # "none"
                       /\ r.who # Owner
                       /\ r.by = Owner \/ ~admin[r.who]
     IN  Goto(k, IF allowed /\ r.who \in Active THEN "leave" ELSE "done")
  /\ UNCHANGED <<tables, lock, val, row, seen>>

\* Mutant of Leave: left_at is not written.
LeaveForgotten(k) ==
  /\ pc[k] = "leave"
  /\ admin' = [admin EXCEPT ![req[k].who] = @ /\ req[k].who = Owner]
  /\ Goto(k, "tx")
  /\ UNCHANGED <<rows, last, member, periods, hidden, lock, val, row, seen>>

\* RemoveUserFromConversation
Leave(k) ==
  /\ pc[k] = "leave"
  /\ member' = [member EXCEPT ![req[k].who] = "left"]
  /\ admin' = [admin EXCEPT ![req[k].who] = @ /\ req[k].who = Owner]
  /\ Goto(k, "tx")
  /\ UNCHANGED <<rows, last, periods, hidden, lock, val, row, seen>>

\* IsChatOwner is false when the owner cannot be read.
LeaveUnread(k) ==
  /\ pc[k] = "leave"
  /\ member' = [member EXCEPT ![req[k].who] = "left"]
  /\ admin' = [admin EXCEPT ![req[k].who] = FALSE]
  /\ Goto(k, "tx")
  /\ UNCHANGED <<rows, last, periods, hidden, lock, val, row, seen>>

\* CreateServiceMessage
KickCommit(k) ==
  /\ pc[k] = "locked" /\ Is(k, "remove")
  /\ Insert(k, req[k].who, Active) /\ Unlock
  /\ Goto(k, "close")
  /\ UNCHANGED <<member, admin, periods, hidden, val, row, seen>>

\* Mutant of Close: it closes the periods of the caller.
CloseOwn(k) ==
  /\ pc[k] = "close"
  /\ periods' = [j \in DOMAIN periods |->
                   IF periods[j].user = req[k].by /\ periods[j].end = Open
                   THEN [periods[j] EXCEPT !.end = val[k]] ELSE periods[j]]
  /\ Goto(k, "done")
  /\ UNCHANGED <<rows, last, member, admin, hidden, lock, val, row, seen>>

\* CloseActiveMemberPeriod
Close(k) ==
  /\ pc[k] = "close"
  /\ periods' = [j \in DOMAIN periods |->
                   IF periods[j].user = req[k].who /\ periods[j].end = Open
                   THEN [periods[j] EXCEPT !.end = val[k]] ELSE periods[j]]
  /\ Goto(k, "done")
  /\ UNCHANGED <<rows, last, member, admin, hidden, lock, val, row, seen>>

-----------------------------------------------------------------------------
(* messages.delete, for all or for oneself, and messages.restore.          *)

\* The message is read before the transaction; for all, only by its author.
DeleteCheck(k) ==
  /\ pc[k] = "start" /\ (Is(k, "delete") \/ Is(k, "hide"))
  /\ \/ \E i \in All :
          /\ Visible(req[k].by, i)
          /\ Is(k, "delete") => rows[i].from = req[k].by
          /\ row' = [row EXCEPT ![k] = i]
          /\ Goto(k, "tx")
     \/ Goto(k, "done") /\ UNCHANGED row
  /\ UNCHANGED <<tables, lock, val, seen>>

\* Mutant of RefreshChatLastMessage: no 0 for a chat without messages.
RefreshNull(k, I) ==
  \E m \in {rows[i].lid : i \in I} \cup {Open} :
    /\ \A i \in I : rows[i].lid <= m
    /\ val' = [val EXCEPT ![k] = m]
    /\ Goto(k, "refresh")

\* RefreshChatLastMessage, its SELECT: the last message not deleted.
RefreshChatLastMessage(k, I) ==
  \E m \in {rows[i].lid : i \in I} \cup {0} :
    /\ Highest(m, I)
    /\ val' = [val EXCEPT ![k] = m]
    /\ Goto(k, "refresh")

\* The transaction writes the message, and only then takes its snapshot.
DeleteRow(k) ==
  /\ pc[k] = "tx"
  /\ \/ Is(k, "delete") /\ ~RowLocked(row[k]) /\ RefreshChatLastMessage(k, Undeleted \ {row[k]})
     \/ Is(k, "hide") /\ RefreshChatLastMessage(k, Undeleted)
  /\ UNCHANGED <<tables, lock, row, seen>>

\* A write that fails, for want of the message's lock say, is skipped; the
\* transaction goes on without a message (0).
DeleteRowFails(k) ==
  /\ pc[k] = "tx" /\ (Is(k, "delete") \/ Is(k, "hide"))
  /\ row' = [row EXCEPT ![k] = 0]
  /\ RefreshChatLastMessage(k, Undeleted)
  /\ UNCHANGED <<tables, lock, seen>>

\* The message is read in the transaction, and fixes its snapshot.
RestoreRead(k) ==
  /\ pc[k] = "start" /\ Is(k, "restore")
  /\ \E i \in All : \E m \in {rows[j].lid : j \in All} \cup {0} :
       /\ Highest(m, Undeleted \cup {i})
       /\ row' = [row EXCEPT ![k] = i]
       /\ seen' = [seen EXCEPT ![k] = rows[i].deleted]
       /\ val' = [val EXCEPT ![k] = m]
  /\ Goto(k, "restoring")
  /\ UNCHANGED <<tables, lock>>

\* One's own deletion is taken back, or the author's of the message, whose
\* Refresh still reads the snapshot and the restored message; or neither.
RestoreRow(k) ==
  /\ pc[k] = "restoring"
  /\ LET r == rows[row[k]]
         own == <<req[k].by, r.lid>>
         author == seen[k] /\ r.from = req[k].by
     IN  \/ own \in hidden /\ hidden' = hidden \ {own} /\ Goto(k, "done")
         \/ own \notin hidden /\ author /\ ~RowLocked(row[k])
              /\ Goto(k, "refresh") /\ UNCHANGED hidden
         \/ own \notin hidden /\ ~author /\ Goto(k, "done") /\ UNCHANGED hidden
  /\ UNCHANGED <<rows, last, member, admin, periods, lock, val, row, seen>>

\* One's own deletion cannot be taken back; the author's is tried instead.
RestoreOwnFails(k) ==
  /\ pc[k] = "restoring"
  /\ <<req[k].by, rows[row[k]].lid>> \in hidden
  /\ seen[k] /\ rows[row[k]].from = req[k].by /\ ~RowLocked(row[k])
  /\ Goto(k, "refresh")
  /\ UNCHANGED <<tables, lock, val, row, seen>>

\* Any error of RefreshChatLastMessage's SELECT stands for an empty chat.
RefreshUnread(k) ==
  /\ pc[k] = "refresh" /\ val[k] # 0
  /\ val' = [val EXCEPT ![k] = 0]
  /\ UNCHANGED <<tables, lock, pc, row, seen>>

\* What the transaction has written to the message or for its reader.
WriteRow(k) ==
  \/ row[k] = 0 /\ UNCHANGED <<rows, hidden>>
  \/ /\ row[k] # 0 /\ Is(k, "hide")
     /\ hidden' = hidden \cup {<<req[k].by, rows[row[k]].lid>>} /\ UNCHANGED rows
  \/ /\ row[k] # 0 /\ ~Is(k, "hide")
     /\ rows' = [rows EXCEPT ![row[k]].deleted = Is(k, "delete")] /\ UNCHANGED hidden

\* RefreshChatLastMessage, its UPDATE, which waits for the row; the commit.
RefreshCommit(k) ==
  /\ pc[k] = "refresh" /\ lock = NoCall
  /\ WriteRow(k) /\ last' = val[k]
  /\ Goto(k, "done")
  /\ UNCHANGED <<member, admin, periods, lock, val, row, seen>>

-----------------------------------------------------------------------------
Fault == faults < MaxFaults /\ faults' = faults + 1

\* Mutant of Fail: whoever gives up does not roll back.
FailKeeping(k) ==
  /\ pc[k] \notin {"start", "done", "failed"}
  /\ Goto(k, "failed")
  /\ UNCHANGED <<tables, lock, val, row, seen>>

\* A statement fails, or the process dies: the transaction is rolled back,
\* and what was written before it stays.
Fail(k) ==
  /\ pc[k] \notin {"start", "done", "failed"}
  /\ lock' = IF lock = k THEN NoCall ELSE lock
  /\ Goto(k, "failed")
  /\ UNCHANGED <<tables, val, row, seen>>

\* The error of RefreshChatLastMessage is dropped: a wait for the row that
\* takes too long leaves the rest to be committed.
RefreshTimesOut(k) ==
  /\ pc[k] = "refresh" /\ lock # NoCall
  /\ WriteRow(k)
  /\ Goto(k, "failed")
  /\ UNCHANGED <<last, member, admin, periods, lock, val, row, seen>>

Step(k) ==
  /\ \/ SendCheck(k) \/ Lock(k) \/ SendCommit(k)
     \/ AddCheck(k) \/ AddSnapshot(k) \/ AddLock(k) \/ AddCommit(k)
     \/ RemoveCheck(k) \/ Leave(k) \/ KickCommit(k) \/ Close(k)
     \/ DeleteCheck(k) \/ DeleteRow(k) \/ RestoreRead(k) \/ RestoreRow(k) \/ RefreshCommit(k)
  /\ UNCHANGED <<req, faults>>

Failure(k) ==
  /\ \/ Fail(k) \/ RefreshTimesOut(k) \/ RefreshUnread(k)
     \/ AddUnread(k) \/ LeaveUnread(k) \/ DeleteRowFails(k) \/ RestoreOwnFails(k)
  /\ Fault /\ UNCHANGED req

Next == \E k \in Call : Step(k) \/ Failure(k)

Spec == Init /\ [][Next]_vars

\* Every call's next statement is executed in the end.
FairSpec == Spec /\ \A k \in Call : WF_vars(Step(k))

-----------------------------------------------------------------------------
(* Properties.                                                             *)

Without(kinds) == \A k \in Call : req[k].kind \notin kinds
Deleting == {"delete", "hide", "restore"}

\* The local ids of a chat are its order: every message gets a higher one than
\* all the messages committed before it (NextLocalID), deleted ones included,
\* and two calls never get the same.  It takes the row lock and either of
\* the two maxima; the reservation is that adding a user, whose snapshot is
\* older than the lock, does not meet a deletion, which lowers last_message_id.
LocalIdsGrow ==
  Without({"add"}) \/ Without(Deleting)
    => \A i, j \in All : i < j => rows[i].lid < rows[j].lid

\* A local id belongs to one message of the chat.
LocalIdsUnique ==
  \A i, j \in All : rows[i].lid = rows[j].lid => i = j

\* Whoever has left has no open period, unless the removal is not over yet or
\* was cut short (RemoveChatUser writes the member, the message, the period).
DepartedAreClosed ==
  \A j \in DOMAIN periods :
    periods[j].end = Open /\ member[periods[j].user] = "left"
      => \E k \in Call : /\ Is(k, "remove") /\ req[k].who = periods[j].user
                         /\ pc[k] \in {"tx", "locked", "close", "failed"}

\* A member sees what is sent while they are in: a period of theirs covers
\* every message that was committed while they were a member.
MembersSeeTheirTime ==
  \A i \in All : \A u \in rows[i].to : InPeriod(u, rows[i].lid)

\* So it is as long as no user is added beside a removal or a deletion.
MembersSeeTheirCalmTime ==
  Without({"add"}) \/ Without({"remove"} \cup Deleting) => MembersSeeTheirTime

\* Every call ends: no lock is left behind, and nobody waits in a circle.
CallsEnd == <>(\A k \in Call : pc[k] \in {"done", "failed"})
=============================================================================
