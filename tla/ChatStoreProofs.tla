-------------------------- MODULE ChatStoreProofs --------------------------
(***************************************************************************)
(* Theorems about ChatStore for any users, calls and requests: the types,  *)
(* that local ids follow the order of the commits, that the periods of the *)
(* departed are closed, and that members see what they are sent.           *)
(***************************************************************************)
EXTENDS ChatStore, TLAPS

-----------------------------------------------------------------------------
(* Types.                                                                  *)

\* A call that has chosen a message works on one that exists.
RowChosen ==
  \A k \in Call :
    /\ (\/ pc[k] = "restoring"
        \/ pc[k] = "tx" /\ req[k].kind \in {"delete", "hide"})
         => row[k] \in DOMAIN rows
    /\ pc[k] = "refresh" => row[k] = 0 \/ row[k] \in DOMAIN rows

\* The points that only some kinds of request get to.
Stages ==
  \A k \in Call :
    /\ pc[k] \in {"leave", "close"} => Is(k, "remove")
    /\ pc[k] = "snap" => Is(k, "add")
    /\ pc[k] = "restoring" => Is(k, "restore")
    /\ pc[k] = "refresh" => req[k].kind \in Deleting

TypeInv == TypeOK /\ RowChosen /\ Stages

\* Stages is kept by every step.
LEMMA StagesInductive ==
  ASSUME TypeOK, Stages, NEW k \in Call, UNCHANGED req,
         Step(k) \/ Failure(k)
  PROVE  Stages'
<1>1. PICK p : pc' = [pc EXCEPT ![k] = p]
  <2>1. CASE RefreshUnread(k)
    <3>1. pc' = [pc EXCEPT ![k] = pc[k]]
      BY <2>1 DEF RefreshUnread, TypeInv, TypeOK
    <3> QED
      BY <3>1
  <2> QED
    BY <2>1 DEF Step, SendCheck, Lock, SendCommit, AddCheck, AddSnapshot, AddLock, AddCommit,
           RemoveCheck, Leave, KickCommit, Close, DeleteCheck, DeleteRow, RestoreRead,
           RestoreRow,
           RefreshCommit, Failure, Fail, RefreshTimesOut, AddUnread, LeaveUnread,
           DeleteRowFails, RestoreOwnFails, NextLocalID, RefreshChatLastMessage, Goto
<1>2. /\ pc'[k] \in {"leave", "close"} => Is(k, "remove")
      /\ pc'[k] = "snap" => Is(k, "add")
      /\ pc'[k] = "restoring" => Is(k, "restore")
      /\ pc'[k] = "refresh" => req[k].kind \in Deleting
  BY DEF Step, SendCheck, Lock, SendCommit, AddCheck, AddSnapshot, AddLock, AddCommit,
         RemoveCheck, Leave, KickCommit, Close, DeleteCheck, DeleteRow, RestoreRead,
         RestoreRow,
         RefreshCommit, Failure, Fail, RefreshTimesOut, RefreshUnread, AddUnread,
         LeaveUnread, DeleteRowFails, RestoreOwnFails, NextLocalID, RefreshChatLastMessage,
         Goto,
         Stages, Is, Deleting, TypeOK
<1> QED
  BY <1>1, <1>2 DEF Stages, Is, TypeOK

\* What the types say of the messages and of the requests.
LEMMA RowsTyped ==
  ASSUME TypeOK
  PROVE  /\ All = 1 .. Len(rows) /\ Len(rows) \in Nat
         /\ \A i \in All : rows[i] \in Row
         /\ \A k \in Call : req[k] \in Request
         /\ {rows[i].lid : i \in All} \subseteq Nat
<1>1. All = 1 .. Len(rows) /\ Len(rows) \in Nat /\ \A i \in All : rows[i] \in Row
  BY DEF TypeOK, All
<1>2. \A i \in All : rows[i].lid \in Nat
  BY <1>1 DEF Row
<1>3. \A k \in Call : req[k] \in Request
  BY DEF TypeOK
<1> QED
  BY <1>1, <1>2, <1>3

\* What NextLocalID and Insert do to the types.
LEMMA NextLocalIDType ==
  ASSUME TypeOK, NEW k \in Call, NEW m \in Nat, NextLocalID(k, m)
  PROVE  /\ lock' \in Call \cup {NoCall}
         /\ val' \in [Call -> Nat] /\ pc' = [pc EXCEPT ![k] = "locked"]
  BY DEF TypeOK, NextLocalID, Larger, Goto

LEMMA InsertType ==
  ASSUME TypeOK, NEW k \in Call, NEW u \in User \cup {NoUser}, NEW to \in SUBSET User,
         Insert(k, u, to)
  PROVE  /\ rows' \in Seq(Row) /\ last' \in Nat
         /\ Len(rows') = Len(rows) + 1
         /\ \A i \in All : rows'[i] = rows[i]
         /\ rows'[Len(rows) + 1].lid = val[k] /\ rows'[Len(rows) + 1].to = to
<1>1. [lid |-> val[k], from |-> req[k].by, kicked |-> u, deleted |-> FALSE, to |-> to] \in Row
  BY DEF TypeOK, Row, Request
<1> QED
  BY <1>1, RowsTyped DEF TypeOK, Insert

\* Writing the message leaves its place, its local id and its members alone.
LEMMA WriteRowType ==
  ASSUME TypeInv, NEW k \in Call, pc[k] = "refresh", WriteRow(k)
  PROVE  /\ rows' \in Seq(Row) /\ hidden' \subseteq User \X Nat
         /\ Len(rows') = Len(rows)
         /\ \A i \in All : rows'[i].lid = rows[i].lid /\ rows'[i].to = rows[i].to
<1>0. CASE row[k] = 0
  BY <1>0, RowsTyped DEF WriteRow, TypeInv, TypeOK
<1> SUFFICES ASSUME row[k] # 0 PROVE
             /\ rows' \in Seq(Row) /\ hidden' \subseteq User \X Nat
             /\ Len(rows') = Len(rows)
             /\ \A i \in All : rows'[i].lid = rows[i].lid /\ rows'[i].to = rows[i].to
  BY <1>0
<1>1. row[k] \in All
  BY DEF TypeInv, RowChosen, All
<1>2. CASE Is(k, "hide")
  <2>1. rows[row[k]].lid \in Nat /\ req[k].by \in User
    BY <1>1, RowsTyped DEF TypeInv, Row, Request
  <2> QED
    BY <1>2, <2>1 DEF WriteRow, TypeInv, TypeOK
<1>3. CASE ~Is(k, "hide")
  <2>1. rows' = [rows EXCEPT ![row[k]] = [@ EXCEPT !.deleted = Is(k, "delete")]]
        /\ hidden' = hidden
    BY <1>3 DEF WriteRow
  <2>2. \A i \in All : rows'[i] = IF i = row[k] THEN [rows[i] EXCEPT !.deleted = Is(k, "delete")]
                                  ELSE rows[i]
    BY <2>1, RowsTyped DEF All, TypeInv, TypeOK
  <2>3. \A i \in All : rows'[i] \in Row /\ rows'[i].lid = rows[i].lid /\ rows'[i].to = rows[i].to
    <3>1. Is(k, "delete") \in BOOLEAN
      BY DEF Is
    <3>2. ASSUME NEW r \in Row, NEW b \in BOOLEAN
          PROVE  /\ [r EXCEPT !.deleted = b] \in Row
                 /\ [r EXCEPT !.deleted = b].lid = r.lid /\ [r EXCEPT !.deleted = b].to = r.to
      BY DEF Row
    <3> SUFFICES ASSUME NEW i \in All
                 PROVE  rows'[i] \in Row /\ rows'[i].lid = rows[i].lid /\ rows'[i].to = rows[i].to
      OBVIOUS
    <3>3. rows[i] \in Row
      BY RowsTyped DEF TypeInv
    <3>4. CASE i = row[k]
      <4>1. rows'[i] = [rows[i] EXCEPT !.deleted = Is(k, "delete")]
        BY <2>2, <3>4
      <4> QED
        BY <3>1, <3>2, <3>3, <4>1
    <3>5. CASE i # row[k]
      BY <2>2, <3>3, <3>5
    <3> QED
      BY <3>4, <3>5
  <2>4. DOMAIN rows' = 1 .. Len(rows)
    BY <2>1, RowsTyped DEF All, TypeInv
  <2>5. rows' \in [1 .. Len(rows) -> Row]
    BY <2>1, <2>3, <2>4, RowsTyped DEF TypeInv
  <2> QED
    BY <2>1, <2>3, <2>5, RowsTyped DEF TypeInv, TypeOK
<1> QED
  BY <1>2, <1>3

\* A call moves on without choosing a message, or keeps the one it has.
LEMMA RowStays ==
  ASSUME TypeInv, NEW k \in Call, NEW p \in Point,
         pc' = [pc EXCEPT ![k] = p], UNCHANGED <<req, row>>,
         \A i \in DOMAIN rows : i \in DOMAIN rows',
         p \in {"restoring", "refresh"} => row[k] \in DOMAIN rows,
         p = "tx" => req[k].kind \notin {"delete", "hide"}
  PROVE  RowChosen' /\ pc' \in [Call -> Point]
  BY DEF TypeInv, TypeOK, RowChosen

\* The types are kept by the statements of messages.send, and by the
\* chat_kick_user message, which is inserted in the same way.
LEMMA SendType ==
  ASSUME TypeInv, NEW k \in Call, UNCHANGED <<req, faults>>,
         SendCheck(k) \/ Lock(k) \/ SendCommit(k) \/ KickCommit(k)
  PROVE  TypeOK' /\ RowChosen'
<1>1. CASE SendCheck(k)
  <2>1. PICK p \in {"tx", "done"} : pc' = [pc EXCEPT ![k] = p]
    BY <1>1 DEF SendCheck, Goto
  <2>2. RowChosen' /\ pc' \in [Call -> Point]
    BY <1>1, <2>1, RowStays DEF SendCheck, tables, Is, Point
  <2> QED
    BY <1>1, <2>2 DEF SendCheck, tables, TypeInv, TypeOK
<1>2. CASE Lock(k)
  <2>1. PICK m \in Nat : NextLocalID(k, m)
    BY <1>2, RowsTyped DEF Lock, TypeInv
  <2>2. pc' = [pc EXCEPT ![k] = "locked"]
    BY <2>1 DEF NextLocalID, Goto
  <2>3. RowChosen' /\ pc' \in [Call -> Point]
    BY <1>2, <2>2, RowStays DEF Lock, tables, Point
  <2> QED
    BY <1>2, <2>1, <2>3, NextLocalIDType DEF Lock, tables, TypeInv, TypeOK
<1>3. CASE SendCommit(k) \/ KickCommit(k)
  <2>1. PICK u \in User \cup {NoUser} : Insert(k, u, Active)
    BY <1>3, RowsTyped DEF SendCommit, KickCommit, TypeInv, Request
  <2>2. rows' \in Seq(Row) /\ last' \in Nat /\ Len(rows') = Len(rows) + 1
    BY <2>1, InsertType DEF TypeInv, Active
  <2>3. \A i \in DOMAIN rows : i \in DOMAIN rows'
    BY <2>2 DEF TypeInv, TypeOK
  <2>4. PICK p \in {"close", "done"} : pc' = [pc EXCEPT ![k] = p]
    BY <1>3 DEF SendCommit, KickCommit, Goto
  <2>5. RowChosen' /\ pc' \in [Call -> Point]
    BY <1>3, <2>3, <2>4, RowStays DEF SendCommit, KickCommit, Point
  <2> QED
    BY <1>3, <2>2, <2>5 DEF SendCommit, KickCommit, Unlock, TypeInv, TypeOK
<1> QED
  BY <1>1, <1>2, <1>3

\* The types are kept by the statements of messages.addChatUser.
LEMMA AddType ==
  ASSUME TypeInv, NEW k \in Call, UNCHANGED <<req, faults>>,
         AddCheck(k) \/ AddSnapshot(k) \/ AddLock(k) \/ AddCommit(k)
  PROVE  TypeOK' /\ RowChosen'
<1>1. CASE AddCheck(k)
  <2>1. PICK p \in {"tx", "done"} : pc' = [pc EXCEPT ![k] = p]
    BY <1>1 DEF AddCheck, Goto
  <2>2. RowChosen' /\ pc' \in [Call -> Point]
    BY <1>1, <2>1, RowStays DEF AddCheck, tables, Is, Point
  <2> QED
    BY <1>1, <2>2 DEF AddCheck, tables, TypeInv, TypeOK
<1>2. CASE AddSnapshot(k)
  <2>1. PICK p \in {"snap", "done"} : pc' = [pc EXCEPT ![k] = p]
    BY <1>2 DEF AddSnapshot, Goto
  <2>2. RowChosen' /\ pc' \in [Call -> Point]
    BY <1>2, <2>1, RowStays DEF AddSnapshot, tables, Point
  <2>3. val' \in [Call -> Nat]
    BY <1>2, RowsTyped DEF AddSnapshot, TypeInv, TypeOK
  <2>4. seen' \in [Call -> BOOLEAN]
    <3>1. (member[req[k].who] = "none") \in BOOLEAN
      OBVIOUS
    <3> QED
      BY <1>2, <3>1 DEF AddSnapshot, TypeInv, TypeOK
  <2> QED
    BY <1>2, <2>2, <2>3, <2>4 DEF AddSnapshot, tables, TypeInv, TypeOK
<1>3. CASE AddLock(k)
  <2>1. val[k] \in Nat /\ NextLocalID(k, val[k])
    BY <1>3 DEF AddLock, TypeInv, TypeOK
  <2>2. RowChosen' /\ pc' \in [Call -> Point]
    BY <1>3, <2>1, RowStays DEF AddLock, NextLocalID, Goto, tables, Point
  <2> QED
    BY <1>3, <2>1, <2>2, NextLocalIDType DEF AddLock, tables, TypeInv, TypeOK
<1>4. CASE AddCommit(k)
  <2> DEFINE r == req[k]
  <2>1. r \in Request /\ r.who \in User
    BY RowsTyped DEF TypeInv, Request
  <2>2. pc' = [pc EXCEPT ![k] = "done"] /\ UNCHANGED row
    BY <1>4 DEF AddCommit, Goto
  <2>3. CASE seen[k] /\ member[r.who] # "none"
    <3>1. UNCHANGED <<rows, last, member, periods>>
      BY <1>4, <2>3 DEF AddCommit
    <3>2. RowChosen' /\ pc' \in [Call -> Point]
      BY <2>2, <3>1, RowStays DEF Point
    <3> QED
      BY <1>4, <3>1, <3>2 DEF AddCommit, Unlock, TypeInv, TypeOK
  <2>4. CASE ~(seen[k] /\ member[r.who] # "none")
    <3>1. /\ Insert(k, NoUser, Active \cup {r.who})
          /\ member' = [member EXCEPT ![r.who] = "active"]
          /\ periods' = Append(periods, [user |-> r.who, end |-> Open,
                                         start |-> IF r.see THEN 1 ELSE val[k]])
      BY <1>4, <2>4 DEF AddCommit
    <3>2. rows' \in Seq(Row) /\ last' \in Nat /\ Len(rows') = Len(rows) + 1
      BY <2>1, <3>1, InsertType DEF TypeInv, Active
    <3>3. \A i \in DOMAIN rows : i \in DOMAIN rows'
      BY <3>2 DEF TypeInv, TypeOK
    <3>4. RowChosen' /\ pc' \in [Call -> Point]
      BY <2>2, <3>3, RowStays DEF Point
    <3>5. [user |-> r.who, end |-> Open, start |-> IF r.see THEN 1 ELSE val[k]] \in Period
      BY <2>1 DEF Period, TypeInv, TypeOK
    <3>6. periods' \in Seq(Period)
      BY <3>1, <3>5 DEF TypeInv, TypeOK
    <3> QED
      BY <1>4, <2>1, <3>1, <3>2, <3>4, <3>6 DEF AddCommit, Unlock, TypeInv, TypeOK
  <2> QED
    BY <2>3, <2>4
<1> QED
  BY <1>1, <1>2, <1>3, <1>4

\* The types are kept by the statements of messages.removeChatUser.
LEMMA RemoveType ==
  ASSUME TypeInv, NEW k \in Call, UNCHANGED <<req, faults>>,
         RemoveCheck(k) \/ Leave(k) \/ Close(k)
  PROVE  TypeOK' /\ RowChosen'
<1>0. req[k].who \in User
  BY RowsTyped DEF TypeInv, Request
<1>1. CASE RemoveCheck(k)
  <2>1. PICK p \in {"leave", "done"} : pc' = [pc EXCEPT ![k] = p]
    BY <1>1 DEF RemoveCheck, Goto
  <2>2. RowChosen' /\ pc' \in [Call -> Point]
    BY <1>1, <2>1, RowStays DEF RemoveCheck, tables, Point
  <2> QED
    BY <1>1, <2>2 DEF RemoveCheck, tables, TypeInv, TypeOK
<1>2. CASE Leave(k)
  <2>1. RowChosen' /\ pc' \in [Call -> Point]
    BY <1>2, RowStays DEF Leave, Goto, Is, Point, TypeInv, Stages
  <2>2. admin' \in [User -> BOOLEAN]
    <3>1. (admin[req[k].who] /\ req[k].who = Owner) \in BOOLEAN
      OBVIOUS
    <3> QED
      BY <1>2, <3>1 DEF Leave, TypeInv, TypeOK
  <2> QED
    BY <1>0, <1>2, <2>1, <2>2 DEF Leave, TypeInv, TypeOK
<1>3. CASE Close(k)
  <2>1. RowChosen' /\ pc' \in [Call -> Point]
    BY <1>3, RowStays DEF Close, Goto, Point
  <2>2. periods' \in Seq(Period)
    <3>1. \A p \in Period : [p EXCEPT !.end = val[k]] \in Period
      BY DEF Period, TypeInv, TypeOK
    <3>2. \A j \in DOMAIN periods : periods[j] \in Period
      BY DEF TypeInv, TypeOK
    <3>3. DOMAIN periods = 1 .. Len(periods) /\ Len(periods) \in Nat
      BY DEF TypeInv, TypeOK
    <3>4. periods' \in [1 .. Len(periods) -> Period]
      BY <1>3, <3>1, <3>2, <3>3 DEF Close
    <3> QED
      BY <3>3, <3>4
  <2> QED
    BY <1>3, <2>1, <2>2 DEF Close, TypeInv, TypeOK
<1> QED
  BY <1>1, <1>2, <1>3

\* The types are kept by the statements of messages.delete and restore.
LEMMA DeleteType ==
  ASSUME TypeInv, NEW k \in Call, UNCHANGED <<req, faults>>,
         \/ DeleteCheck(k) \/ DeleteRow(k)
         \/ RestoreRead(k) \/ RestoreRow(k) \/ RefreshCommit(k)
  PROVE  TypeOK' /\ RowChosen'
<1>1. CASE DeleteCheck(k)
  <2>1. row' \in [Call -> Nat] /\ pc' \in [Call -> Point] /\ RowChosen'
    <3>1. CASE \E i \in All : row' = [row EXCEPT ![k] = i] /\ Goto(k, "tx")
      BY <1>1, <3>1, RowsTyped DEF DeleteCheck, tables, Goto, Point, All, TypeInv, TypeOK,
                                   RowChosen
    <3>2. CASE Goto(k, "done") /\ UNCHANGED row
      BY <1>1, <3>2, RowStays DEF DeleteCheck, tables, Goto, Point, TypeInv, TypeOK
    <3> QED
      BY <1>1, <3>1, <3>2 DEF DeleteCheck
  <2> QED
    BY <1>1, <2>1 DEF DeleteCheck, tables, TypeInv, TypeOK
<1>2. CASE DeleteRow(k)
  <2>1. row[k] \in DOMAIN rows
    BY <1>2 DEF DeleteRow, Is, TypeInv, RowChosen
  <2>2. PICK I \in SUBSET All : RefreshChatLastMessage(k, I)
    BY <1>2 DEF DeleteRow, Undeleted
  <2>3. PICK m \in Nat : val' = [val EXCEPT ![k] = m]
    BY <2>2, RowsTyped DEF RefreshChatLastMessage, TypeInv
  <2>4. RowChosen' /\ pc' \in [Call -> Point]
    BY <1>2, <2>1, <2>2, RowStays DEF DeleteRow, RefreshChatLastMessage, tables, Goto, Point
  <2> QED
    BY <1>2, <2>3, <2>4 DEF DeleteRow, tables, TypeInv, TypeOK
<1>3. CASE RestoreRead(k)
  <2>1. PICK i \in All, m \in {rows[j].lid : j \in All} \cup {0} :
          /\ row' = [row EXCEPT ![k] = i]
          /\ seen' = [seen EXCEPT ![k] = rows[i].deleted]
          /\ val' = [val EXCEPT ![k] = m]
    BY <1>3 DEF RestoreRead
  <2>2. m \in Nat /\ i \in Nat /\ rows[i].deleted \in BOOLEAN
    BY <2>1, RowsTyped DEF TypeInv, Row
  <2>3. RowChosen' /\ pc' \in [Call -> Point]
    BY <1>3, <2>1 DEF RestoreRead, tables, Goto, Point, All, TypeInv, TypeOK, RowChosen
  <2> QED
    BY <1>3, <2>1, <2>2, <2>3 DEF RestoreRead, tables, TypeInv, TypeOK
<1>4. CASE RestoreRow(k)
  <2>1. PICK p \in {"done", "refresh"} : pc' = [pc EXCEPT ![k] = p]
    BY <1>4 DEF RestoreRow, Goto
  <2>2. RowChosen' /\ pc' \in [Call -> Point]
    BY <1>4, <2>1 DEF RestoreRow, Point, TypeInv, TypeOK, RowChosen
  <2>3. hidden' \subseteq hidden
    BY <1>4 DEF RestoreRow
  <2> QED
    BY <1>4, <2>2, <2>3 DEF RestoreRow, TypeInv, TypeOK
<1>5. CASE RefreshCommit(k)
  <2>1. rows' \in Seq(Row) /\ hidden' \subseteq User \X Nat /\ Len(rows') = Len(rows)
    BY <1>5, WriteRowType DEF RefreshCommit
  <2>2. DOMAIN rows' = DOMAIN rows
    BY <2>1 DEF TypeInv, TypeOK
  <2>3. RowChosen' /\ pc' \in [Call -> Point]
    BY <1>5, <2>2, RowStays DEF RefreshCommit, Goto, Point
  <2> QED
    BY <1>5, <2>1, <2>3 DEF RefreshCommit, TypeInv, TypeOK
<1> QED
  BY <1>1, <1>2, <1>3, <1>4, <1>5

\* The types are kept by a call that fails.
LEMMA FaultType ==
  ASSUME TypeInv, NEW k \in Call, Failure(k)
  PROVE  TypeOK' /\ RowChosen'
<1>0. faults' \in 0 .. MaxFaults /\ UNCHANGED req
  BY ChatStoreAssumption DEF Failure, Fault, TypeInv, TypeOK
<1>1. CASE Fail(k)
  <2>1. RowChosen' /\ pc' \in [Call -> Point]
    BY <1>0, <1>1, RowStays DEF Fail, Goto, tables, Point
  <2> QED
    BY <1>0, <1>1, <2>1 DEF Fail, tables, TypeInv, TypeOK
<1>2. CASE RefreshTimesOut(k)
  <2>1. rows' \in Seq(Row) /\ hidden' \subseteq User \X Nat /\ Len(rows') = Len(rows)
    BY <1>2, WriteRowType DEF RefreshTimesOut
  <2>2. DOMAIN rows' = DOMAIN rows
    BY <2>1 DEF TypeInv, TypeOK
  <2>3. RowChosen' /\ pc' \in [Call -> Point]
    BY <1>0, <1>2, <2>2, RowStays DEF RefreshTimesOut, Goto, Point
  <2> QED
    BY <1>0, <1>2, <2>1, <2>3 DEF RefreshTimesOut, TypeInv, TypeOK
<1>3. CASE RefreshUnread(k)
  BY <1>0, <1>3 DEF RefreshUnread, tables, TypeInv, TypeOK, RowChosen
<1>4. CASE AddUnread(k)
  <2>1. PICK p \in {"tx", "snap"} : pc' = [pc EXCEPT ![k] = p]
    BY <1>4 DEF AddUnread, Goto
  <2>2. RowChosen' /\ pc' \in [Call -> Point]
    BY <1>0, <1>4, <2>1 DEF AddUnread, tables, Point, Is, TypeInv, TypeOK, RowChosen
  <2>3. val' \in [Call -> Nat]
    BY <1>4, RowsTyped DEF AddUnread, TypeInv, TypeOK
  <2>4. seen' \in [Call -> BOOLEAN]
    BY <1>4 DEF AddUnread, TypeInv, TypeOK
  <2> QED
    BY <1>0, <1>4, <2>2, <2>3, <2>4 DEF AddUnread, tables, TypeInv, TypeOK
<1>5. CASE LeaveUnread(k)
  <2>1. RowChosen' /\ pc' \in [Call -> Point]
    BY <1>0, <1>5, RowStays DEF LeaveUnread, Goto, Is, Point, TypeInv, Stages
  <2> QED
    BY <1>0, <1>5, <2>1 DEF LeaveUnread, TypeInv, TypeOK
<1>6. CASE DeleteRowFails(k)
  <2>1. RefreshChatLastMessage(k, Undeleted) /\ Undeleted \subseteq All
    BY <1>6 DEF DeleteRowFails, Undeleted
  <2>2. PICK m \in Nat : val' = [val EXCEPT ![k] = m]
    BY <2>1, RowsTyped DEF RefreshChatLastMessage, TypeInv
  <2>3. RowChosen' /\ pc' \in [Call -> Point] /\ row' \in [Call -> Nat]
    BY <1>0, <1>6 DEF DeleteRowFails, RefreshChatLastMessage, tables, Goto, Point, TypeInv,
                      TypeOK,
                      RowChosen
  <2> QED
    BY <1>0, <1>6, <2>2, <2>3 DEF DeleteRowFails, tables, TypeInv, TypeOK
<1>7. CASE RestoreOwnFails(k)
  <2>1. RowChosen' /\ pc' \in [Call -> Point]
    <3>1. /\ pc' = [pc EXCEPT ![k] = "refresh"] /\ UNCHANGED <<rows, row>>
          /\ row[k] \in DOMAIN rows
      BY <1>7 DEF RestoreOwnFails, tables, Goto, TypeInv, RowChosen
    <3> QED
      BY <1>0, <3>1 DEF Point, TypeInv, TypeOK, RowChosen
  <2> QED
    BY <1>0, <1>7, <2>1 DEF RestoreOwnFails, tables, TypeInv, TypeOK
<1> QED
  BY <1>1, <1>2, <1>3, <1>4, <1>5, <1>6, <1>7 DEF Failure

\* The chat as createChat leaves it has the types.
LEMMA InitType == Init => TypeInv
<1> SUFFICES ASSUME Init PROVE TypeInv
  OBVIOUS
<1>1. /\ Len(Founders) \in Nat /\ Owner \in User
      /\ \A i \in 1 .. Len(Founders) : Founders[i] \in User
  BY ChatStoreAssumption DEF Owner
<1>2. rows \in Seq(Row)
  <2>1. [lid |-> 1, from |-> Owner, kicked |-> NoUser, deleted |-> FALSE, to |-> Founded] \in Row
    BY <1>1 DEF Row, Founded
  <2> QED
    BY <2>1 DEF Init
<1>3. periods \in Seq(Period)
  <2>1. periods \in [1 .. Len(Founders) -> Period]
    BY <1>1 DEF Init, Period
  <2> QED
    BY <1>1, <2>1
<1>4. req \in [Call -> Request]
  BY ChatStoreAssumption DEF Init
<1>5. admin \in [User -> BOOLEAN]
  BY DEF Init
<1>6. member \in [User -> {"none", "active", "left"}]
  BY DEF Init
<1> QED
  BY <1>2, <1>3, <1>4, <1>5, <1>6, ChatStoreAssumption
  DEF Init, TypeInv, TypeOK, RowChosen, Stages, Point

\* Every step keeps the types.
LEMMA TypeInductive ==
  ASSUME TypeInv, [Next]_vars
  PROVE  TypeInv'
<1>1. ASSUME NEW k \in Call, Step(k) PROVE TypeInv'
  <2>1. TypeOK' /\ RowChosen'
    BY <1>1, SendType, AddType, RemoveType, DeleteType DEF Step
  <2>2. Stages'
    BY <1>1, StagesInductive DEF Step, TypeInv
  <2> QED
    BY <2>1, <2>2 DEF TypeInv
<1>2. ASSUME NEW k \in Call, Failure(k) PROVE TypeInv'
  BY <1>2, FaultType, StagesInductive DEF TypeInv, Failure
<1>3. CASE UNCHANGED vars
  BY <1>3 DEF vars, tables, TypeInv, TypeOK, RowChosen, Stages, Is
<1> QED
  BY <1>1, <1>2, <1>3 DEF Next

\* Type correctness: whatever the calls and however they fail, the tables and
\* what the calls hold keep their types.
THEOREM TypeCorrect == Spec => []TypeOK
<1>1. TypeInv => TypeOK
  BY DEF TypeInv
<1> QED
  BY <1>1, InitType, TypeInductive, PTL DEF Spec

-----------------------------------------------------------------------------
(* Local ids.                                                              *)

Above(n) == \A i \in All : rows[i].lid < n
Growing == \A i, j \in All : i < j => rows[i].lid < rows[j].lid

\* Who has allocated a local id holds the lock, and the id is above all.
HolderAbove == \A k \in Call : pc[k] = "locked" => lock = k /\ Above(val[k])

\* Without deletions, last_message_id covers every message.
LastCovers == Without(Deleting) => \A i \in All : rows[i].lid <= last

GrowInv ==
  /\ \A k \in Call : pc[k] = "locked" => lock = k
  /\ Without({"add"}) \/ Without(Deleting) => Growing /\ HolderAbove /\ LastCovers

\* Which kinds of calls there are does not change.
LEMMA SameRequests ==
  ASSUME UNCHANGED req, NEW S
  PROVE  Without(S)' = Without(S)
  BY DEF Without

\* Whoever has allocated a local id still holds the lock after any step.
LEMMA LockHeld ==
  ASSUME TypeInv, \A k \in Call : pc[k] = "locked" => lock = k,
         NEW k \in Call, Step(k) \/ Failure(k)
  PROVE  \A d \in Call : pc'[d] = "locked" => lock' = d
<1>1. PICK p : pc' = [pc EXCEPT ![k] = p]
  <2>1. CASE RefreshUnread(k)
    <3>1. pc' = [pc EXCEPT ![k] = pc[k]]
      BY <2>1 DEF RefreshUnread, TypeInv, TypeOK
    <3> QED
      BY <3>1
  <2> QED
    BY <2>1 DEF Step, SendCheck, Lock, SendCommit, AddCheck, AddSnapshot, AddLock, AddCommit,
           RemoveCheck, Leave, KickCommit, Close, DeleteCheck, DeleteRow, RestoreRead,
           RestoreRow,
           RefreshCommit, Failure, Fail, RefreshTimesOut, AddUnread, LeaveUnread,
           DeleteRowFails, RestoreOwnFails, NextLocalID, RefreshChatLastMessage, Goto
<1>2. \/ lock' = lock /\ pc'[k] # "locked"
      \/ lock = NoCall /\ lock' = k
      \/ lock' = NoCall /\ pc[k] = "locked" /\ pc'[k] # "locked"
      \/ lock' = NoCall /\ lock = k /\ pc'[k] # "locked"
  BY DEF Step, SendCheck, Lock, SendCommit, AddCheck, AddSnapshot, AddLock, AddCommit,
         RemoveCheck, Leave, KickCommit, Close, DeleteCheck, DeleteRow, RestoreRead,
         RestoreRow,
         RefreshCommit, Failure, Fail, RefreshTimesOut, RefreshUnread, AddUnread,
         LeaveUnread, DeleteRowFails, RestoreOwnFails, NextLocalID, RefreshChatLastMessage,
         Goto, Unlock,
         tables, TypeInv, TypeOK
<1> QED
  BY <1>1, <1>2, ChatStoreAssumption DEF TypeInv, TypeOK

\* Nobody holds a local id while the lock is free, and k alone while k has it.
LEMMA FreshHolder ==
  ASSUME TypeInv, GrowInv, NEW k \in Call, NEW n \in Nat, lock = NoCall, Above(n),
         pc' = [pc EXCEPT ![k] = "locked"], val' = [val EXCEPT ![k] = n], lock' = k,
         rows' = rows
  PROVE  HolderAbove'
<1>1. \A d \in Call : pc[d] # "locked"
  BY ChatStoreAssumption DEF GrowInv
<1> QED
  BY <1>1 DEF HolderAbove, Above, All, TypeInv, TypeOK

\* The holder of the lock adds a message and lets go.
LEMMA InsertGrows ==
  ASSUME TypeInv, GrowInv, Growing, HolderAbove, LastCovers, UNCHANGED req,
         NEW k \in Call, pc[k] = "locked", NEW u \in User \cup {NoUser}, NEW to \in SUBSET User,
         Insert(k, u, to), NEW p, p # "locked", pc' = [pc EXCEPT ![k] = p]
  PROVE  Growing' /\ HolderAbove' /\ LastCovers'
<1>1. /\ Len(rows') = Len(rows) + 1 /\ rows' \in Seq(Row) /\ last' = val[k]
      /\ \A i \in All : rows'[i] = rows[i]
      /\ rows'[Len(rows) + 1].lid = val[k]
  BY InsertType DEF TypeInv, Insert
<1>2. All' = All \cup {Len(rows) + 1} /\ All = 1 .. Len(rows) /\ Len(rows) \in Nat
  BY <1>1, RowsTyped DEF All, TypeInv
<1>3. Above(val[k]) /\ val[k] \in Nat /\ \A i \in All : rows[i].lid \in Nat
  BY RowsTyped DEF HolderAbove, TypeInv, TypeOK, Row
<1>4. Growing'
  <2> SUFFICES ASSUME NEW i \in All', NEW j \in All', i < j
               PROVE  rows'[i].lid < rows'[j].lid
    BY DEF Growing
  <2>1. i \in All /\ (j \in All \/ j = Len(rows) + 1)
    BY <1>2
  <2> QED
    BY <1>1, <1>3, <2>1 DEF Growing, Above
<1>5. HolderAbove'
  <2>1. \A d \in Call : pc'[d] # "locked"
    BY ChatStoreAssumption DEF GrowInv, TypeInv, TypeOK
  <2> QED
    BY <2>1 DEF HolderAbove
<1>6. LastCovers'
  BY <1>1, <1>2, <1>3 DEF LastCovers, Above
<1> QED
  BY <1>4, <1>5, <1>6

\* Steps that change neither the local ids nor who has allocated one.
LEMMA StillGrows ==
  ASSUME TypeInv, Growing, HolderAbove, LastCovers, UNCHANGED req,
         All' = All, \A i \in All : rows'[i].lid = rows[i].lid,
         last' = last \/ ~Without(Deleting),
         \A d \in Call : pc'[d] = "locked" => pc[d] = "locked" /\ lock' = d /\ val'[d] = val[d]
  PROVE  Growing' /\ HolderAbove' /\ LastCovers'
<1>1. Growing'
  BY DEF Growing
<1>2. HolderAbove'
  BY DEF HolderAbove, Above
<1>3. LastCovers'
  BY SameRequests DEF LastCovers
<1> QED
  BY <1>1, <1>2, <1>3

\* NextLocalID allocates above all the messages: messages.send sees the
\* highest of them, messages.addChatUser is covered by last_message_id.
LEMMA AllocationGrows ==
  ASSUME TypeInv, GrowInv, Without({"add"}) \/ Without(Deleting), UNCHANGED req,
         NEW k \in Call, Lock(k) \/ AddLock(k)
  PROVE  Growing' /\ HolderAbove' /\ LastCovers'
<1>0. Growing /\ LastCovers
  BY DEF GrowInv
<1>1. UNCHANGED <<rows, last>>
  BY DEF Lock, AddLock, tables
<1>2. PICK m \in Nat : NextLocalID(k, m) /\ (AddLock(k) \/ Highest(m, All))
  BY RowsTyped DEF Lock, AddLock, TypeInv, TypeOK
<1>3. Above(Larger(m, last) + 1) /\ Larger(m, last) + 1 \in Nat
  <2>1. last \in Nat /\ \A i \in All : rows[i].lid \in Nat
    BY RowsTyped DEF TypeInv, TypeOK, Row
  <2>2. CASE Highest(m, All)
    BY <2>1, <2>2 DEF Highest, Above, Larger
  <2>3. CASE AddLock(k)
    <3>1. Without(Deleting)
      BY <2>3 DEF AddLock, TypeInv, Stages, Is, Without
    <3> QED
      BY <1>0, <2>1, <3>1 DEF LastCovers, Above, Larger
  <2> QED
    BY <1>2, <2>2, <2>3
<1>4. HolderAbove'
  BY <1>1, <1>2, <1>3, FreshHolder DEF NextLocalID, Goto
<1>5. Growing'
  BY <1>0, <1>1 DEF Growing, All
<1>6. LastCovers'
  BY <1>0, <1>1, SameRequests DEF LastCovers, All
<1> QED
  BY <1>4, <1>5, <1>6

\* Every commit that inserts a message keeps the order.
LEMMA CommitGrows ==
  ASSUME TypeInv, GrowInv, Without({"add"}) \/ Without(Deleting), UNCHANGED req,
         NEW k \in Call, SendCommit(k) \/ KickCommit(k) \/ AddCommit(k)
  PROVE  Growing' /\ HolderAbove' /\ LastCovers'
<1>0. Growing /\ HolderAbove /\ LastCovers /\ pc[k] = "locked" /\ req[k] \in Request
  BY RowsTyped DEF GrowInv, SendCommit, KickCommit, AddCommit, TypeInv
<1>1. PICK p \in {"close", "done"} : pc' = [pc EXCEPT ![k] = p]
  BY DEF SendCommit, KickCommit, AddCommit, Goto
<1>2. CASE \E u \in User \cup {NoUser}, to \in SUBSET User : Insert(k, u, to)
  BY <1>0, <1>1, <1>2, InsertGrows
<1>3. CASE UNCHANGED <<rows, last>> /\ AddCommit(k)
  <2>1. \A d \in Call : pc'[d] # "locked"
    BY <1>0, <1>1, <1>3 DEF GrowInv, TypeInv, TypeOK
  <2> QED
    BY <1>0, <1>3, <2>1, StillGrows DEF All
<1>4. CASE SendCommit(k)
  BY <1>2, <1>4 DEF SendCommit, Active
<1>5. CASE KickCommit(k)
  <2>1. Insert(k, req[k].who, Active) /\ req[k].who \in User
    BY <1>0, <1>5 DEF KickCommit, Request
  <2> QED
    BY <1>2, <2>1 DEF Active
<1>6. CASE AddCommit(k)
  <2>1. req[k].who \in User
    BY <1>0 DEF Request
  <2>2. \/ UNCHANGED <<rows, last>>
        \/ Insert(k, NoUser, Active \cup {req[k].who})
    BY <1>6 DEF AddCommit
  <2> QED
    BY <1>2, <1>3, <1>6, <2>1, <2>2 DEF Active
<1> QED
  BY <1>4, <1>5, <1>6

\* The statements that insert nothing keep it too.
LEMMA OthersGrow ==
  ASSUME TypeInv, GrowInv, Without({"add"}) \/ Without(Deleting), UNCHANGED req,
         NEW k \in Call,
         \/ SendCheck(k) \/ AddCheck(k) \/ AddSnapshot(k)
         \/ RemoveCheck(k) \/ Leave(k) \/ Close(k)
         \/ DeleteCheck(k) \/ DeleteRow(k) \/ RestoreRead(k) \/ RestoreRow(k) \/ RefreshCommit(k)
         \/ Failure(k)
  PROVE  Growing' /\ HolderAbove' /\ LastCovers'
<1>0. Growing /\ HolderAbove /\ LastCovers
  BY DEF GrowInv
<1>1. All' = All /\ \A i \in All : rows'[i].lid = rows[i].lid
  <2>1. CASE RefreshCommit(k) \/ RefreshTimesOut(k)
    <3>1. pc[k] = "refresh" /\ WriteRow(k)
      BY <2>1 DEF RefreshCommit, RefreshTimesOut
    <3>2. Len(rows') = Len(rows) /\ rows' \in Seq(Row) /\ \A i \in All : rows'[i].lid = rows[i].lid
      BY <3>1, WriteRowType
    <3> QED
      BY <3>2 DEF All, TypeInv, TypeOK
  <2>2. CASE rows' = rows
    BY <2>2 DEF All
  <2> QED
    BY <2>1, <2>2
    DEF SendCheck, AddCheck, AddSnapshot, RemoveCheck, Leave, Close, DeleteCheck, DeleteRow,
        RestoreRead, RestoreRow, Failure, Fail, RefreshUnread, AddUnread, LeaveUnread,
        DeleteRowFails, RestoreOwnFails, tables
<1>2. last' = last \/ ~Without(Deleting)
  <2>1. CASE RefreshCommit(k)
    BY <2>1 DEF RefreshCommit, TypeInv, Stages, Without
  <2> QED
    BY <2>1
    DEF SendCheck, AddCheck, AddSnapshot, RemoveCheck, Leave, Close, DeleteCheck, DeleteRow,
        RestoreRead, RestoreRow, Failure, Fail, RefreshTimesOut, RefreshUnread, AddUnread,
        LeaveUnread, DeleteRowFails, RestoreOwnFails, tables
<1>3. pc'[k] # "locked" /\ \A d \in Call : d # k => pc'[d] = pc[d]
  BY DEF SendCheck, AddCheck, AddSnapshot, RemoveCheck, Leave, Close, DeleteCheck, DeleteRow,
         RefreshChatLastMessage, RestoreRead, RestoreRow, RefreshCommit, Failure, Fail,
         RefreshTimesOut, RefreshUnread, AddUnread, LeaveUnread, DeleteRowFails,
         RestoreOwnFails,
         Goto, TypeInv, TypeOK
<1>4. \A d \in Call : d # k => val'[d] = val[d]
  BY DEF SendCheck, AddCheck, AddSnapshot, RemoveCheck, Leave, Close, DeleteCheck, DeleteRow,
         RefreshChatLastMessage, RestoreRead, RestoreRow, RefreshCommit, Failure, Fail,
         RefreshTimesOut, RefreshUnread, AddUnread, LeaveUnread, DeleteRowFails,
         RestoreOwnFails,
         TypeInv, TypeOK
<1>5. \A d \in Call : d # k /\ lock = d => lock' = d
  BY DEF SendCheck, AddCheck, AddSnapshot, RemoveCheck, Leave, Close, DeleteCheck, DeleteRow,
         RestoreRead, RestoreRow, RefreshCommit, Failure, Fail, RefreshTimesOut,
         RefreshUnread, AddUnread, LeaveUnread, DeleteRowFails, RestoreOwnFails
<1> QED
  BY <1>0, <1>1, <1>2, <1>3, <1>4, <1>5, StillGrows DEF HolderAbove

LEMMA GrowInit == Init => GrowInv
  BY DEF Init, GrowInv, Growing, HolderAbove, LastCovers, All

LEMMA GrowInductive == TypeInv /\ GrowInv /\ [Next]_vars => GrowInv'
<1> SUFFICES ASSUME TypeInv, GrowInv, [Next]_vars PROVE GrowInv'
  OBVIOUS
<1>1. CASE UNCHANGED vars
  BY <1>1, SameRequests
  DEF vars, tables, GrowInv, Growing, HolderAbove, Above, LastCovers, All
<1>2. ASSUME NEW k \in Call, Step(k) \/ Failure(k), UNCHANGED req
      PROVE  GrowInv'
  <2>1. \A d \in Call : pc'[d] = "locked" => lock' = d
    BY <1>2, LockHeld DEF GrowInv
  <2>2. Without({"add"}) \/ Without(Deleting) => Growing' /\ HolderAbove' /\ LastCovers'
    BY <1>2, AllocationGrows, CommitGrows, OthersGrow DEF Step
  <2> QED
    BY <1>2, <2>1, <2>2, SameRequests DEF GrowInv
<1> QED
  BY <1>1, <1>2 DEF Next, Step, Failure

\* Local ids grow in the order of the commits, deleted messages included, as
\* long as no addition runs beside a deletion: for any number of calls, of
\* whatever kinds, and any failures.
THEOREM LocalIdsFollowCommits == Spec => []LocalIdsGrow
<1>1. GrowInv => LocalIdsGrow
  BY DEF GrowInv, Growing, LocalIdsGrow
<1> QED
  BY <1>1, GrowInit, GrowInductive, InitType, TypeInductive, PTL DEF Spec

-----------------------------------------------------------------------------
(* Presence periods.                                                       *)

\* A removal of u whose member row is written and whose period is not closed.
Removing(k, u) ==
  /\ req[k].kind = "remove" /\ req[k].who = u
  /\ pc[k] \in {"tx", "locked", "close", "failed"}

\* DepartedAreClosed in terms of Removing.
LEMMA DepartedDef ==
  DepartedAreClosed <=>
    \A j \in DOMAIN periods :
      periods[j].end = Open /\ member[periods[j].user] = "left"
        => \E k \in Call : Removing(k, periods[j].user)
  BY DEF DepartedAreClosed, Removing, Is

\* A removal under way goes on until it closes the period, or is cut short.
LEMMA RemovalGoesOn ==
  ASSUME TypeInv, NEW k \in Call, Step(k) \/ Failure(k), UNCHANGED req,
         NEW d \in Call, NEW u, Removing(d, u), ~(d = k /\ Close(k))
  PROVE  Removing(d, u)'
<1>1. CASE d # k
  <2>1. pc'[d] = pc[d]
    BY <1>1
    DEF Step, SendCheck, Lock, SendCommit, AddCheck, AddSnapshot, AddLock, AddCommit,
        RemoveCheck, Leave, KickCommit, Close, DeleteCheck, DeleteRow, RestoreRead,
        RestoreRow,
        RefreshCommit, Failure, Fail, RefreshTimesOut, RefreshUnread, AddUnread, LeaveUnread,
        DeleteRowFails, RestoreOwnFails, NextLocalID, RefreshChatLastMessage, Goto,
        TypeInv, TypeOK
  <2> QED
    BY <2>1 DEF Removing, Is
<1>2. CASE d = k
  <2>1. pc'[k] \in {"tx", "locked", "close", "failed"}
    BY <1>2
    DEF Step, SendCheck, Lock, SendCommit, AddCheck, AddSnapshot, AddLock, AddCommit,
        RemoveCheck, Leave, KickCommit, DeleteCheck, DeleteRow, RestoreRead, RestoreRow,
        RefreshCommit, Failure, Fail, RefreshTimesOut, RefreshUnread, AddUnread, LeaveUnread,
        DeleteRowFails, RestoreOwnFails, NextLocalID, RefreshChatLastMessage, Goto,
        Removing, Is, TypeInv, TypeOK
  <2> QED
    BY <1>2, <2>1 DEF Removing, Is
<1> QED
  BY <1>1, <1>2

\* Every step leaves a departed user without an open period, or with a removal
\* that is still to close it.
LEMMA DepartureStep ==
  ASSUME TypeInv, DepartedAreClosed, UNCHANGED req,
         NEW k \in Call, Step(k) \/ Failure(k)
  PROVE  DepartedAreClosed'
<1> SUFFICES ASSUME NEW j \in DOMAIN periods', NEW u, u = periods'[j].user,
                    periods'[j].end = Open, member'[u] = "left"
             PROVE  \E d \in Call : Removing(d, u)'
  BY DepartedDef DEF DepartedAreClosed, Removing, Is
<1>0. /\ req[k].who \in User /\ val[k] \in Nat
      /\ \A i \in DOMAIN periods : periods[i] \in Period /\ periods[i].user \in User
  <2>1. req[k].who \in User /\ val[k] \in Nat
    BY RowsTyped DEF TypeInv, TypeOK, Request
  <2>2. \A i \in DOMAIN periods : periods[i] \in Period
    BY DEF TypeInv, TypeOK
  <2> QED
    BY <2>1, <2>2 DEF Period
\* A period that was already that of a departed user.
<1>1. ASSUME j \in DOMAIN periods, periods'[j] = periods[j], member[u] = "left",
             ~(Close(k) /\ req[k].who = u)
      PROVE  \E d \in Call : Removing(d, u)'
  <2>1. PICK d \in Call : Removing(d, u)
    BY <1>1, DepartedDef
  <2>2. ~(d = k /\ Close(k))
    BY <1>1, <2>1 DEF Removing
  <2> QED
    BY <2>1, <2>2, RemovalGoesOn
<1>2. CASE Leave(k) \/ LeaveUnread(k)
  <2>1. periods' = periods
    BY <1>2 DEF Leave, LeaveUnread
  <2>2. CASE u = req[k].who
    <3>1. pc'[k] = "tx" /\ req[k].kind = "remove"
      BY <1>2 DEF Leave, LeaveUnread, Goto, Is, TypeInv, TypeOK, Stages
    <3> QED
      BY <2>2, <3>1 DEF Removing
  <2>3. CASE u # req[k].who
    <3>1. member[u] = "left"
      BY <1>0, <1>2, <2>1, <2>3 DEF Leave, LeaveUnread, TypeInv, TypeOK
    <3> QED
      BY <1>1, <2>1, <2>3, <3>1
  <2> QED
    BY <2>2, <2>3
<1>3. CASE Close(k)
  <2>1. j \in DOMAIN periods /\ member' = member
    BY <1>3 DEF Close
  <2>2. periods[j].user = req[k].who /\ periods[j].end = Open => periods'[j].end = val[k]
    BY <1>0, <1>3, <2>1 DEF Close, Period
  <2>3. ~(periods[j].user = req[k].who /\ periods[j].end = Open)
    BY <1>0, <2>2 DEF Open
  <2>4. periods'[j] = periods[j]
    BY <1>3, <2>1, <2>3 DEF Close
  <2> QED
    BY <1>1, <2>1, <2>3, <2>4
<1>4. CASE AddCommit(k) /\ ~UNCHANGED <<member, periods>>
  <2>1. PICK s : /\ member' = [member EXCEPT ![req[k].who] = "active"]
                 /\ periods' = Append(periods, [user |-> req[k].who, end |-> Open, start |-> s])
    BY <1>4 DEF AddCommit
  <2>2. u # req[k].who /\ member[u] = "left"
    BY <1>0, <2>1 DEF TypeInv, TypeOK
  <2>3. periods \in Seq(Period)
    BY DEF TypeInv, TypeOK
  <2>4. j \in DOMAIN periods /\ periods'[j] = periods[j]
    <3>1. j = Len(periods) + 1 => periods'[j].user = req[k].who
      BY <2>1, <2>3
    <3>2. j # Len(periods) + 1
      BY <2>2, <3>1
    <3> QED
      BY <2>1, <2>3, <3>2
  <2>5. ~Close(k)
    BY <1>4 DEF AddCommit, Close
  <2> QED
    BY <1>1, <2>2, <2>4, <2>5
<1>5. CASE UNCHANGED <<member, periods>> /\ ~Close(k)
  BY <1>1, <1>5
<1>6. ~Leave(k) /\ ~LeaveUnread(k) /\ ~Close(k) /\ ~AddCommit(k) => UNCHANGED <<member, periods>>
  BY DEF Step, SendCheck, Lock, SendCommit, AddCheck, AddSnapshot, AddLock,
         RemoveCheck, KickCommit, DeleteCheck, DeleteRow, RestoreRead, RestoreRow,
         RefreshCommit, Failure, Fail, RefreshTimesOut, RefreshUnread, AddUnread,
         LeaveUnread, DeleteRowFails, RestoreOwnFails, tables
<1> QED
  BY <1>2, <1>3, <1>4, <1>5, <1>6

\* Whatever else runs, users who have left keep an open period only while a
\* removal of theirs is under way, or after one that was cut short.
THEOREM DepartureClosesPeriods == Spec => []DepartedAreClosed
<1>1. Init => DepartedAreClosed
  <2> SUFFICES ASSUME Init, NEW j \in DOMAIN periods PROVE member[periods[j].user] # "left"
    BY DEF DepartedAreClosed
  <2>1. periods[j].user = Founders[j] /\ Founders[j] \in User
    BY ChatStoreAssumption DEF Init
  <2> QED
    BY <2>1 DEF Init
<1>2. TypeInv /\ DepartedAreClosed /\ [Next]_vars => DepartedAreClosed'
  <2> SUFFICES ASSUME TypeInv, DepartedAreClosed, [Next]_vars PROVE DepartedAreClosed'
    OBVIOUS
  <2>1. CASE UNCHANGED vars
    BY <2>1 DEF vars, tables, DepartedAreClosed, Is
  <2>2. ASSUME NEW k \in Call, Step(k) \/ Failure(k) PROVE DepartedAreClosed'
    BY <2>2, DepartureStep DEF Step, Failure
  <2> QED
    BY <2>1, <2>2 DEF Next
<1> QED
  BY <1>1, <1>2, InitType, TypeInductive, PTL DEF Spec
-----------------------------------------------------------------------------
(* What members see.                                                       *)

Calm == Without({"add"}) \/ Without({"remove"} \cup Deleting)

\* An active user has an open period that some message lies in already, so that
\* it covers every message to come.
SeenToday ==
  \A u \in Active : \E j \in DOMAIN periods, i \in All :
    periods[j].user = u /\ periods[j].end = Open /\ periods[j].start <= rows[i].lid

\* Who is being removed is not active any more.
Leaving ==
  \A k \in Call : Is(k, "remove") /\ pc[k] \in {"tx", "locked", "close"}
                    => member[req[k].who] # "active"

\* The period is closed at a local id that nothing addressed to its user exceeds.
Closing ==
  \A k \in Call : pc[k] = "close" =>
    \A i \in All : req[k].who \in rows[i].to => rows[i].lid <= val[k]

PresenceInv ==
  /\ Len(rows) > 0
  /\ Calm => SeenToday /\ Leaving /\ Closing /\ MembersSeeTheirTime

LEMMA PresenceInit == Init => PresenceInv
<1> SUFFICES ASSUME Init PROVE PresenceInv
  OBVIOUS
<1>1. /\ Len(rows) = 1 /\ All = {1} /\ rows[1].lid = 1 /\ rows[1].to = Founded
      /\ DOMAIN periods = 1 .. Len(Founders)
  BY DEF Init, All
<1>2. \A i \in 1 .. Len(Founders) :
        periods[i].user = Founders[i] /\ periods[i].start = 1 /\ periods[i].end = Open
  BY DEF Init
<1>3. Active = Founded
  <2>1. Founded \subseteq User
    BY ChatStoreAssumption DEF Founded
  <2> QED
    BY <2>1 DEF Init, Active
<1>4. SeenToday
  <2> SUFFICES ASSUME NEW u \in Founded
               PROVE  \E j \in DOMAIN periods, i \in All :
                        periods[j].user = u /\ periods[j].end = Open /\ periods[j].start <= rows[i].lid
    BY <1>3 DEF SeenToday
  <2>1. PICK j \in 1 .. Len(Founders) : u = Founders[j]
    BY DEF Founded
  <2>2. periods[j].user = u /\ periods[j].end = Open /\ periods[j].start <= rows[1].lid
    BY <1>1, <1>2, <2>1
  <2> QED
    BY <1>1, <2>2
<1>5. MembersSeeTheirTime
  <2> SUFFICES ASSUME NEW u \in Founded PROVE InPeriod(u, 1)
    BY <1>1 DEF MembersSeeTheirTime
  <2>1. PICK j \in 1 .. Len(Founders) : u = Founders[j]
    BY DEF Founded
  <2>2. periods[j].user = u /\ periods[j].end = Open /\ periods[j].start <= 1
    BY <1>2, <2>1
  <2> QED
    BY <1>1, <2>2 DEF InPeriod
<1>6. Leaving /\ Closing
  BY DEF Init, Leaving, Closing
<1> QED
  BY <1>1, <1>4, <1>5, <1>6 DEF PresenceInv

\* A step of k leaves the other calls and the local ids they have allocated alone.
LEMMA OthersWait ==
  ASSUME TypeInv, NEW k \in Call, Step(k) \/ Failure(k)
  PROVE  \A d \in Call \ {k} : pc'[d] = pc[d] /\ val'[d] = val[d]
<1>1. \A d \in Call \ {k} : pc'[d] = pc[d]
  BY DEF Step, SendCheck, Lock, SendCommit, AddCheck, AddSnapshot, AddLock, AddCommit,
         RemoveCheck, Leave, KickCommit, Close, DeleteCheck, DeleteRow, RestoreRead,
         RestoreRow,
         RefreshCommit, Failure, Fail, RefreshTimesOut, RefreshUnread, AddUnread,
         LeaveUnread, DeleteRowFails, RestoreOwnFails, NextLocalID, RefreshChatLastMessage,
         Goto,
         TypeInv, TypeOK
<1>2. \A d \in Call \ {k} : val'[d] = val[d]
  BY DEF Step, SendCheck, Lock, SendCommit, AddCheck, AddSnapshot, AddLock, AddCommit,
         RemoveCheck, Leave, KickCommit, Close, DeleteCheck, DeleteRow, RestoreRead,
         RestoreRow,
         RefreshCommit, Failure, Fail, RefreshTimesOut, RefreshUnread, AddUnread,
         LeaveUnread, DeleteRowFails, RestoreOwnFails, NextLocalID, RefreshChatLastMessage,
         TypeInv, TypeOK
<1> QED
  BY <1>1, <1>2

\* Steps that change neither members, nor periods, nor what a message is.
LEMMA PresenceStays ==
  ASSUME TypeInv, PresenceInv, UNCHANGED <<req, member, periods>>,
         All' = All, Len(rows') = Len(rows),
         \A i \in All : rows'[i].lid = rows[i].lid /\ rows'[i].to = rows[i].to,
         \A d \in Call : /\ Is(d, "remove") /\ pc'[d] \in {"tx", "locked", "close"}
                              => pc[d] \in {"tx", "locked", "close"}
                         /\ pc'[d] = "close" => pc[d] = "close" /\ val'[d] = val[d]
  PROVE  PresenceInv'
<1>1. Calm' <=> Calm
  BY DEF Calm, Without
<1>2. ASSUME Calm PROVE SeenToday' /\ Leaving' /\ Closing' /\ MembersSeeTheirTime'
  <2>0. SeenToday /\ Leaving /\ Closing /\ MembersSeeTheirTime
    BY <1>2 DEF PresenceInv
  <2>1. SeenToday'
    BY <2>0 DEF SeenToday, Active
  <2>2. Leaving'
    BY <2>0 DEF Leaving, Is
  <2>3. Closing'
    BY <2>0 DEF Closing
  <2>4. MembersSeeTheirTime'
    BY <2>0 DEF MembersSeeTheirTime, InPeriod
  <2> QED
    BY <2>1, <2>2, <2>3, <2>4
<1> QED
  BY <1>1, <1>2 DEF PresenceInv

LEMMA PresenceBeside ==
  ASSUME TypeInv, PresenceInv, UNCHANGED req, NEW k \in Call,
         \/ SendCheck(k) \/ Lock(k) \/ AddCheck(k) \/ AddSnapshot(k) \/ AddLock(k) \/ RemoveCheck(k)
         \/ DeleteCheck(k) \/ DeleteRow(k) \/ RestoreRead(k) \/ RestoreRow(k) \/ RefreshCommit(k)
         \/ Failure(k) /\ ~LeaveUnread(k),
         Step(k) \/ Failure(k)
  PROVE  PresenceInv'
<1>1. UNCHANGED <<member, periods>>
  BY DEF SendCheck, Lock, AddCheck, AddSnapshot, AddLock, RemoveCheck, DeleteCheck, DeleteRow,
         RestoreRead, RestoreRow, RefreshCommit, Failure, Fail, RefreshTimesOut,
         RefreshUnread, AddUnread, LeaveUnread, DeleteRowFails, RestoreOwnFails, tables
<1>2. /\ All' = All /\ Len(rows') = Len(rows)
      /\ \A i \in All : rows'[i].lid = rows[i].lid /\ rows'[i].to = rows[i].to
  <2>1. CASE RefreshCommit(k) \/ RefreshTimesOut(k)
    <3>1. pc[k] = "refresh" /\ WriteRow(k)
      BY <2>1 DEF RefreshCommit, RefreshTimesOut
    <3>2. /\ Len(rows') = Len(rows) /\ rows' \in Seq(Row)
          /\ \A i \in All : rows'[i].lid = rows[i].lid /\ rows'[i].to = rows[i].to
      BY <3>1, WriteRowType
    <3> QED
      BY <3>2 DEF All, TypeInv, TypeOK
  <2>2. CASE rows' = rows
    BY <2>2 DEF All
  <2> QED
    BY <2>1, <2>2
    DEF SendCheck, Lock, AddCheck, AddSnapshot, AddLock, RemoveCheck, DeleteCheck, DeleteRow,
        RestoreRead, RestoreRow, Failure, Fail, RefreshUnread, AddUnread, DeleteRowFails,
        RestoreOwnFails, tables
<1>3. /\ pc'[k] # "close"
      /\ Is(k, "remove") /\ pc'[k] \in {"tx", "locked", "close"} => pc[k] = "tx"
  BY DEF SendCheck, Lock, AddCheck, AddSnapshot, AddLock, RemoveCheck, DeleteCheck, DeleteRow,
         RestoreRead, RestoreRow, RefreshCommit, Failure, Fail, RefreshTimesOut,
         RefreshUnread, AddUnread, LeaveUnread, DeleteRowFails, RestoreOwnFails, NextLocalID,
         RefreshChatLastMessage, Goto, Is, TypeInv, TypeOK, Stages, Deleting
<1>4. \A d \in Call \ {k} : pc'[d] = pc[d] /\ val'[d] = val[d]
  BY OthersWait
<1> QED
  BY <1>1, <1>2, <1>3, <1>4, PresenceStays

\* RemoveUserFromConversation: one active user less.
LEMMA PresenceLeave ==
  ASSUME TypeInv, PresenceInv, UNCHANGED req, NEW k \in Call, Leave(k) \/ LeaveUnread(k)
  PROVE  PresenceInv'
<1>1. /\ pc[k] = "leave" /\ UNCHANGED <<rows, periods, val>>
      /\ pc' = [pc EXCEPT ![k] = "tx"] /\ member' = [member EXCEPT ![req[k].who] = "left"]
  BY DEF Leave, LeaveUnread, Goto
<1>2. Calm' <=> Calm
  BY DEF Calm, Without
<1>3. ASSUME Calm PROVE SeenToday' /\ Leaving' /\ Closing' /\ MembersSeeTheirTime'
  <2>0. SeenToday /\ Leaving /\ Closing /\ MembersSeeTheirTime
    BY <1>3 DEF PresenceInv
  <2>1. SeenToday'
    <3>1. Active' \subseteq Active
      BY <1>1 DEF Active, TypeInv, TypeOK
    <3> QED
      BY <1>1, <2>0, <3>1 DEF SeenToday, All
  <2>2. Leaving'
    <3> SUFFICES ASSUME NEW d \in Call, Is(d, "remove"), pc'[d] \in {"tx", "locked", "close"}
                 PROVE  member'[req[d].who] # "active"
      BY DEF Leaving, Is
    <3>1. req[d].who \in User /\ req[k].who \in User
      BY RowsTyped DEF TypeInv, Request
    <3>2. CASE req[d].who = req[k].who
      BY <1>1, <3>1, <3>2 DEF TypeInv, TypeOK
    <3>3. CASE req[d].who # req[k].who
      <4>1. d # k /\ pc[d] \in {"tx", "locked", "close"}
        BY <1>1, <3>3 DEF TypeInv, TypeOK
      <4> QED
        BY <1>1, <2>0, <3>1, <3>3, <4>1 DEF Leaving, TypeInv, TypeOK
    <3> QED
      BY <3>2, <3>3
  <2>3. Closing'
    BY <1>1, <2>0 DEF Closing, All, TypeInv, TypeOK
  <2>4. MembersSeeTheirTime'
    BY <1>1, <2>0 DEF MembersSeeTheirTime, InPeriod, All
  <2> QED
    BY <2>1, <2>2, <2>3, <2>4
<1> QED
  BY <1>1, <1>2, <1>3 DEF PresenceInv

\* CloseActiveMemberPeriod: what was addressed to the user is in the period.
LEMMA PresenceClose ==
  ASSUME TypeInv, PresenceInv, UNCHANGED req, NEW k \in Call, Close(k)
  PROVE  PresenceInv'
<1> DEFINE w == req[k].who
           Shut(j) == periods[j].user = w /\ periods[j].end = Open
<1>1. /\ pc[k] = "close" /\ pc' = [pc EXCEPT ![k] = "done"] /\ UNCHANGED <<rows, member, val>>
      /\ DOMAIN periods' = DOMAIN periods
  BY DEF Close, Goto
<1>2. \A j \in DOMAIN periods : ~Shut(j) => periods'[j] = periods[j]
  BY DEF Close
<1>3. ASSUME NEW j \in DOMAIN periods, Shut(j)
      PROVE  periods'[j].user = w /\ periods'[j].start = periods[j].start /\ periods'[j].end = val[k]
  <2>1. periods[j] \in Period
    BY DEF TypeInv, TypeOK
  <2>2. periods'[j] = [periods[j] EXCEPT !.end = val[k]]
    BY <1>3 DEF Close
  <2> QED
    BY <1>3, <2>1, <2>2 DEF Period
<1>4. Calm' <=> Calm
  BY DEF Calm, Without
<1>5. ASSUME Calm PROVE SeenToday' /\ Leaving' /\ Closing' /\ MembersSeeTheirTime'
  <2>0. SeenToday /\ Leaving /\ Closing /\ MembersSeeTheirTime
    BY <1>5 DEF PresenceInv
  <2>1. w \in User /\ w \notin Active
    BY <1>1, <2>0, RowsTyped DEF Leaving, TypeInv, Stages, Active, Request
  <2>2. SeenToday'
    <3> SUFFICES ASSUME NEW u \in Active
                 PROVE  \E j \in DOMAIN periods', i \in All' :
                          periods'[j].user = u /\ periods'[j].end = Open /\ periods'[j].start <= rows'[i].lid
      BY <1>1 DEF SeenToday, Active
    <3>1. PICK j \in DOMAIN periods, i \in All :
            periods[j].user = u /\ periods[j].end = Open /\ periods[j].start <= rows[i].lid
      BY <2>0 DEF SeenToday
    <3>2. periods'[j] = periods[j]
      BY <1>2, <2>1, <3>1
    <3> QED
      BY <1>1, <3>1, <3>2 DEF All
  <2>3. Leaving'
    BY <1>1, <2>0 DEF Leaving, Is, TypeInv, TypeOK
  <2>4. Closing'
    BY <1>1, <2>0 DEF Closing, All, TypeInv, TypeOK
  <2>5. MembersSeeTheirTime'
    <3> SUFFICES ASSUME NEW i \in All, NEW u \in rows[i].to PROVE InPeriod(u, rows[i].lid)'
      BY <1>1 DEF MembersSeeTheirTime, All, InPeriod
    <3>1. PICK j \in DOMAIN periods : /\ periods[j].user = u /\ periods[j].start <= rows[i].lid
                                      /\ periods[j].end = Open \/ rows[i].lid <= periods[j].end
      BY <2>0 DEF MembersSeeTheirTime, InPeriod
    <3>2. CASE Shut(j)
      <4>1. rows[i].lid <= val[k]
        BY <1>1, <2>0, <3>1, <3>2 DEF Closing
      <4>2. periods'[j].user = u /\ periods'[j].start <= rows[i].lid /\ rows[i].lid <= periods'[j].end
        BY <1>3, <3>1, <3>2, <4>1
      <4> QED
        BY <1>1, <4>2 DEF InPeriod
    <3>3. CASE ~Shut(j)
      <4>1. periods'[j] = periods[j]
        BY <1>2, <3>3
      <4> QED
        BY <1>1, <3>1, <4>1 DEF InPeriod
    <3> QED
      BY <3>2, <3>3
  <2> QED
    BY <2>2, <2>3, <2>4, <2>5
<1> QED
  BY <1>1, <1>4, <1>5 DEF PresenceInv

\* What a commit that inserts a message finds and leaves.
LEMMA CommitAbove ==
  ASSUME TypeInv, GrowInv, PresenceInv, Calm, NEW k \in Call, pc[k] = "locked",
         NEW u \in User \cup {NoUser}, NEW to \in SUBSET User, Insert(k, u, to)
  PROVE  /\ Len(rows') = Len(rows) + 1 /\ Len(rows) \in Nat /\ All = 1 .. Len(rows)
         /\ All' = All \cup {Len(rows) + 1}
         /\ \A i \in All : rows'[i] = rows[i] /\ rows[i].lid \in Nat /\ rows[i].lid < val[k]
         /\ rows'[Len(rows) + 1].lid = val[k] /\ rows'[Len(rows) + 1].to = to
         /\ val[k] \in Nat /\ 1 <= val[k]
<1>1. /\ rows' \in Seq(Row) /\ Len(rows') = Len(rows) + 1
      /\ \A i \in All : rows'[i] = rows[i]
      /\ rows'[Len(rows) + 1].lid = val[k] /\ rows'[Len(rows) + 1].to = to
  BY InsertType DEF TypeInv
<1>2. All = 1 .. Len(rows) /\ Len(rows) \in Nat /\ \A i \in All : rows[i].lid \in Nat
  BY RowsTyped DEF TypeInv, Row
<1>3. Above(val[k]) /\ val[k] \in Nat
  <2>1. Without({"add"}) \/ Without(Deleting)
    BY DEF Calm, Without
  <2> QED
    BY <2>1 DEF GrowInv, HolderAbove, TypeInv, TypeOK
<1>4. 1 \in All
  BY <1>2 DEF PresenceInv
<1>5. All' = All \cup {Len(rows) + 1}
  BY <1>1, <1>2 DEF All
<1> QED
  BY <1>1, <1>2, <1>3, <1>4, <1>5 DEF Above

\* A message that is sent to the members: each has an open period from before it.
LEMMA PresenceSend ==
  ASSUME TypeInv, GrowInv, PresenceInv, UNCHANGED req, NEW k \in Call, SendCommit(k) \/ KickCommit(k)
  PROVE  PresenceInv'
<1>1. /\ pc[k] = "locked" /\ UNCHANGED <<member, periods, val>>
      /\ pc' = [pc EXCEPT ![k] = IF Is(k, "remove") THEN "close" ELSE "done"]
  BY DEF SendCommit, KickCommit, Goto, Is
<1>2. PICK u \in User \cup {NoUser} : Insert(k, u, Active)
  BY RowsTyped DEF SendCommit, KickCommit, TypeInv, Request
<1>3. Active \in SUBSET User /\ Active' = Active
  BY <1>1 DEF Active
<1>4. Calm' <=> Calm
  BY DEF Calm, Without
<1>5. Len(rows') > 0
  <2>1. Len(rows') = Len(rows) + 1 /\ Len(rows) \in Nat
    BY <1>2, <1>3, InsertType, RowsTyped DEF TypeInv
  <2> QED
    BY <2>1
<1>6. ASSUME Calm PROVE SeenToday' /\ Leaving' /\ Closing' /\ MembersSeeTheirTime'
  <2>0. SeenToday /\ Leaving /\ Closing /\ MembersSeeTheirTime
    BY <1>6 DEF PresenceInv
  <2> DEFINE n == Len(rows) + 1
  <2>1. /\ All' = All \cup {n} /\ n \notin All
        /\ \A i \in All : rows'[i] = rows[i] /\ rows[i].lid \in Nat /\ rows[i].lid < val[k]
        /\ rows'[n].lid = val[k] /\ rows'[n].to = Active
        /\ val[k] \in Nat
    BY <1>1, <1>2, <1>3, <1>6, CommitAbove
  <2> HIDE DEF n
  <2>2. SeenToday'
    BY <1>1, <1>3, <2>0, <2>1 DEF SeenToday
  <2>3. Leaving'
    BY <1>1, <2>0 DEF Leaving, Is, TypeInv, TypeOK
  <2>4. Closing'
    <3> SUFFICES ASSUME NEW d \in Call, pc'[d] = "close", NEW i \in All', req[d].who \in rows'[i].to
                 PROVE  rows'[i].lid <= val[d]
      BY <1>1 DEF Closing
    <3>1. CASE d = k
      BY <2>1, <3>1
    <3>2. CASE d # k
      <4>1. pc[d] = "close" /\ Is(d, "remove")
        BY <1>1, <3>2 DEF TypeInv, TypeOK, Stages
      <4>2. req[d].who \notin Active
        BY <2>0, <4>1 DEF Leaving, Active
      <4> QED
        BY <2>0, <2>1, <4>1, <4>2 DEF Closing
    <3> QED
      BY <3>1, <3>2
  <2>5. MembersSeeTheirTime'
    <3> SUFFICES ASSUME NEW i \in All', NEW v \in rows'[i].to
                 PROVE  \E j \in DOMAIN periods' :
                          /\ periods'[j].user = v /\ periods'[j].start <= rows'[i].lid
                          /\ periods'[j].end = Open \/ rows'[i].lid <= periods'[j].end
      BY DEF MembersSeeTheirTime, InPeriod
    <3>1. CASE i \in All
      BY <1>1, <2>0, <2>1, <3>1 DEF MembersSeeTheirTime, InPeriod
    <3>2. CASE i = n
      <4>1. PICK j \in DOMAIN periods, o \in All :
              periods[j].user = v /\ periods[j].end = Open /\ periods[j].start <= rows[o].lid
        BY <2>0, <2>1, <3>2 DEF SeenToday
      <4>2. periods[j] \in Period
        BY DEF TypeInv, TypeOK
      <4>3. periods[j].start <= val[k]
        BY <2>1, <4>1, <4>2 DEF Period
      <4> QED
        BY <1>1, <2>1, <3>2, <4>1, <4>3
    <3> QED
      BY <2>1, <3>1, <3>2
  <2> QED
    BY <2>2, <2>3, <2>4, <2>5
<1> QED
  BY <1>4, <1>5, <1>6 DEF PresenceInv

\* A user who is added gets a period from the message about it, or from the
\* first, that no removal will close.
LEMMA PresenceAdd ==
  ASSUME TypeInv, GrowInv, PresenceInv, UNCHANGED req, NEW k \in Call, AddCommit(k)
  PROVE  PresenceInv'
<1> DEFINE w == req[k].who
           s == IF req[k].see THEN 1 ELSE val[k]
<1>1. pc[k] = "locked" /\ Is(k, "add") /\ val' = val /\ pc' = [pc EXCEPT ![k] = "done"]
  BY DEF AddCommit, Goto
<1>2. CASE UNCHANGED <<rows, member, periods>>
  BY <1>1, <1>2, PresenceStays DEF All, TypeInv, TypeOK
<1>3. CASE /\ Insert(k, NoUser, Active \cup {w}) /\ member' = [member EXCEPT ![w] = "active"]
           /\ periods' = Append(periods, [user |-> w, end |-> Open, start |-> s])
  <2>1. w \in User /\ Active \cup {w} \in SUBSET User
    BY RowsTyped DEF TypeInv, Request, Active
  <2>2. Active' = Active \cup {w}
    BY <1>3, <2>1 DEF Active, TypeInv, TypeOK
  <2>3. Calm' <=> Calm
    BY DEF Calm, Without
  <2>4. Len(rows') > 0
    <3>1. Len(rows') = Len(rows) + 1 /\ Len(rows) \in Nat
      BY <1>3, <2>1, InsertType, RowsTyped DEF TypeInv
    <3> QED
      BY <3>1
  <2>5. ASSUME Calm PROVE SeenToday' /\ Leaving' /\ Closing' /\ MembersSeeTheirTime'
    <3>0. SeenToday /\ Leaving /\ Closing /\ MembersSeeTheirTime
      BY <2>5 DEF PresenceInv
    <3> DEFINE n == Len(rows) + 1
               m == Len(periods) + 1
    <3>1. /\ All' = All \cup {n}
          /\ \A i \in All : rows'[i] = rows[i] /\ rows[i].lid \in Nat /\ rows[i].lid < val[k]
          /\ rows'[n].lid = val[k] /\ rows'[n].to = Active \cup {w}
          /\ val[k] \in Nat /\ 1 <= val[k]
      BY <1>1, <1>3, <2>1, <2>5, CommitAbove
    <3>2. /\ DOMAIN periods' = DOMAIN periods \cup {m}
          /\ \A j \in DOMAIN periods : periods'[j] = periods[j]
          /\ periods'[m] = [user |-> w, end |-> Open, start |-> s]
      BY <1>3 DEF TypeInv, TypeOK
    <3>3. periods'[m].user = w /\ periods'[m].end = Open /\ periods'[m].start <= val[k]
      BY <3>1, <3>2
    <3> HIDE DEF n, m, s
    <3>4. SeenToday'
      BY <2>2, <3>0, <3>1, <3>2, <3>3 DEF SeenToday
    <3>5. Without({"remove"})
      BY <1>1, <2>5 DEF Calm, Without, Is
    <3>6. Leaving'
      BY <3>5 DEF Leaving, Is, Without
    <3>7. Closing'
      <4>1. \A d \in Call : pc'[d] # "close"
        BY <1>1, <3>5 DEF Without, Is, TypeInv, TypeOK, Stages
      <4> QED
        BY <4>1 DEF Closing
    <3>8. MembersSeeTheirTime'
      <4> SUFFICES ASSUME NEW i \in All', NEW v \in rows'[i].to
                   PROVE  \E j \in DOMAIN periods' :
                            /\ periods'[j].user = v /\ periods'[j].start <= rows'[i].lid
                            /\ periods'[j].end = Open \/ rows'[i].lid <= periods'[j].end
        BY DEF MembersSeeTheirTime, InPeriod
      <4>1. CASE i \in All
        BY <3>0, <3>1, <3>2, <4>1 DEF MembersSeeTheirTime, InPeriod
      <4>2. CASE i = n /\ v = w
        BY <3>1, <3>2, <3>3, <4>2
      <4>3. CASE i = n /\ v # w
        <5>1. PICK j \in DOMAIN periods, o \in All :
                periods[j].user = v /\ periods[j].end = Open /\ periods[j].start <= rows[o].lid
          BY <3>0, <3>1, <4>3 DEF SeenToday
        <5>2. periods[j] \in Period
          BY DEF TypeInv, TypeOK
        <5>3. periods[j].start <= val[k]
          BY <3>1, <5>1, <5>2 DEF Period
        <5> QED
          BY <3>1, <3>2, <4>3, <5>1, <5>3
      <4> QED
        BY <3>1, <4>1, <4>2, <4>3
    <3> QED
      BY <3>4, <3>6, <3>7, <3>8
  <2> QED
    BY <2>3, <2>4, <2>5 DEF PresenceInv
<1> QED
  BY <1>2, <1>3 DEF AddCommit

\* A period of theirs covers every message that was committed while they were a
\* member, as long as no user is added beside a removal or a deletion: whatever
\* the calls, and wherever a removal is cut short.
THEOREM MembersSeeWhatTheyAreSent == Spec => []MembersSeeTheirCalmTime
<1>1. Init => GrowInv /\ PresenceInv
  BY GrowInit, PresenceInit
<1>2. TypeInv /\ GrowInv /\ PresenceInv /\ [Next]_vars => PresenceInv'
  <2> SUFFICES ASSUME TypeInv, GrowInv, PresenceInv, [Next]_vars PROVE PresenceInv'
    OBVIOUS
  <2>1. CASE UNCHANGED vars
    BY <2>1, PresenceStays DEF vars, tables, All
  <2>2. ASSUME NEW k \in Call, Step(k) \/ Failure(k), UNCHANGED req
        PROVE  PresenceInv'
    BY <2>2, PresenceBeside, PresenceLeave, PresenceClose, PresenceSend, PresenceAdd DEF Step
  <2> QED
    BY <2>1, <2>2 DEF Next, Step, Failure
<1>3. PresenceInv => MembersSeeTheirCalmTime
  BY DEF PresenceInv, Calm, MembersSeeTheirCalmTime
<1> QED
  BY <1>1, <1>2, <1>3, GrowInductive, InitType, TypeInductive, PTL DEF Spec
=============================================================================
