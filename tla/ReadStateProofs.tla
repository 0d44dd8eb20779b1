-------------------------- MODULE ReadStateProofs --------------------------
(***************************************************************************)
(* Theorems about ReadState for any users, conversations, messages, calls  *)
(* and requests: the types, that no message is born read, that what has    *)
(* been read stays read, that receipts are true, and that the counter      *)
(* comes to rest at the number of unread conversations.                    *)
(***************************************************************************)
EXTENDS ReadState, FiniteSetTheorems, WellFoundedInduction, TLAPS

\* The highest local id of a conversation
Top(c) == MaxLid(In(c))

-----------------------------------------------------------------------------
(* The invariants.                                                         *)

\* A call that marks goes through the tasks it has resolved, and only a
\* request to forget forgets.
Writing ==
  \A k \in Call : /\ todo[k] \subseteq tasks[k]
                  /\ pc[k] = "capped" => at[k] \in tasks[k] \ todo[k]
                  /\ pc[k] = "forgetting" => req[k].kind = "forget"

\* No mark, and nothing that may become one, lies beyond the messages.
Bounded ==
  /\ \A c \in Chat : last[c] <= Top(c)
  /\ \A c \in Chat, u \in User : read[c][u] <= Top(c) /\ before[c][u] <= Top(c)
  /\ \A k \in Call : /\ \A t \in tasks[k] : t.lid <= Top(t.chat)
                     /\ pc[k] = "forgetting" => snap[k] <= Top(req[k].chat)

MarksInv == Writing /\ Bounded

\* The reader's mark covers message e, or a reason why it need not.
Covered(c, u, e) ==
  \/ read[c][u] >= e
  \/ Forgotten(c, u)
  \/ \E r \in In(c) : r.lid = e /\ r.withdrawn

\* A task that is written covers every message up to its own.
Done(t, u) == \A r \in In(t.chat) : r.lid <= t.lid => Covered(t.chat, u, r.lid)

\* last_message_id says which messages are the newest that are left.
Lasts ==
  /\ \A r \in Rows : r.deleted => r.withdrawn
  /\ \A c \in Chat : \A r \in In(c) : r.lid > last[c] => r.withdrawn

\* Receipts, tasks of goroutines and tasks that a call has written
ReceiptsCovered == \A d \in receipts \cup due : Covered(d.chat, d.reader, d.lid)
JobsDone ==
  \A j \in jobs : \A t \in j.marks : t.lid <= Top(t.chat) /\ Done(t, req[j.by].by)
CallsDone ==
  \A k \in Call : pc[k] \in {"marking", "capped"} =>
    \A t \in tasks[k] \ todo[k] : (pc[k] = "capped" /\ t = at[k]) \/ Done(t, req[k].by)

\* What a cap leaves out was deleted.
CapsTrue ==
  \A k \in Call : pc[k] = "capped" =>
    \A r \in In(at[k].chat) :
      snap[k] > 0 /\ r.lid > snap[k] /\ r.lid <= at[k].lid => r.withdrawn

ReceiptsInv ==
  faults = 0 => ReceiptsCovered /\ JobsDone /\ CallsDone /\ CapsTrue /\ Lasts

\* A goroutine that holds a count for the user
Holds(j, u) == j.todo # << >> /\ j.count # None /\ Head(j.todo) = u

\* The user will be counted, for a goroutine has yet to come to him or a call
\* of his is marking.
Awaits(j, u) ==
  \/ \E i \in DOMAIN j.todo : j.todo[i] = u /\ (i = 1 => j.count = None)
  \/ j.marks # {} /\ req[j.by].by = u
Pending(u) ==
  \/ \E j \in jobs : Awaits(j, u)
  \/ \E k \in Call : pc[k] \in {"marking", "capped"} /\ tasks[k] # {} /\ req[k].by = u

\* The last event is right, or a right one is in hand.
Fresh(u) ==
  IF \E j \in jobs : Holds(j, u)
  THEN \E j \in jobs : Holds(j, u) /\ j.count = CountUnreadConversations(u)
  ELSE counter[u] = CountUnreadConversations(u)

\* A goroutine between two users holds nothing; no two hold a count of one
\* user, unless he is crossed.
HoldersApart ==
  /\ \A j \in jobs : j.todo = << >> => j.count = None
  /\ \A u \in User \ crossed : \A i, j \in jobs : Holds(i, u) /\ Holds(j, u) => i = j

Counted == \A u \in User \ (crossed \cup unaware) : Pending(u) \/ Fresh(u)

CounterInv == faults = 0 => HoldersApart /\ Counted

-----------------------------------------------------------------------------
(* Lemmas: the highest local id of some messages, and what the queries     *)
(* find.                                                                   *)

\* A set of naturals has a least element.
LEMMA Least ==
  ASSUME NEW S \in SUBSET Nat, S # {}
  PROVE  \E m \in S : \A n \in S : m <= n
<1> DEFINE Less == OpToRel(<, Nat)
<1>1. IsWellFoundedOn(Less, Nat)
  BY NatLessThanWellFounded
<1>2. \A n, m \in Nat : n < m => <<n, m>> \in Less
  BY DEF OpToRel
<1> HIDE DEF Less
<1>3. PICK m \in S : \A n \in S : ~ (<<n, m>> \in Less)
  BY <1>1, WFMin
<1>4. \A n \in S : m <= n
  <2> SUFFICES ASSUME NEW n \in S PROVE m <= n
    OBVIOUS
  <2>1. ~ (n < m)
    BY <1>2, <1>3, Zenon
  <2> QED
    BY <2>1
<1> QED
  BY <1>4

\* The local ids of a sequence of messages are bounded.
LEMMA LidsBounded ==
  ASSUME NEW s \in Seq(Row)
  PROVE  \E b \in Nat : \A i \in DOMAIN s : s[i].lid <= b
<1> DEFINE Upto(n) == \E b \in Nat : \A i \in 1 .. n : s[i].lid <= b
           Bad == {n \in 0 .. Len(s) : ~ Upto(n)}
<1>1. Len(s) \in Nat /\ DOMAIN s = 1 .. Len(s) /\ \A i \in 1 .. Len(s) : s[i] \in Row
  OBVIOUS
<1>2. \A i \in 1 .. Len(s) : s[i].lid \in Nat
  BY <1>1 DEF Row
<1>3. Upto(0)
  OBVIOUS
<1>4. ASSUME NEW n \in 1 .. Len(s), Upto(n - 1) PROVE Upto(n)
  <2>1. PICK b \in Nat : \A i \in 1 .. (n - 1) : s[i].lid <= b
    BY <1>4
  <2>2. n \in Nat /\ s[n].lid \in Nat
    BY <1>1, <1>2
  <2>3. \E d \in Nat : b <= d /\ s[n].lid <= d
    <3>1. CASE b <= s[n].lid
      BY <2>2, <3>1
    <3>2. CASE s[n].lid <= b
      BY <2>2, <3>2
    <3> QED BY <2>2, <3>1, <3>2
  <2>4. PICK d \in Nat : b <= d /\ s[n].lid <= d
    BY <2>3
  <2>5. ASSUME NEW i \in 1 .. n PROVE s[i].lid <= d
    <3>1. CASE i = n
      BY <3>1, <2>4
    <3>2. CASE i # n
      <4>1. i \in 1 .. (n - 1) /\ i \in 1 .. Len(s)
        BY <3>2, <2>2, <1>1
      <4>2. s[i].lid <= b /\ s[i].lid \in Nat
        BY <4>1, <2>1, <1>2
      <4> QED
        BY <4>2, <2>4
    <3> QED BY <3>1, <3>2
  <2> QED
    BY <2>5
<1> HIDE DEF Upto
<1>5. Bad = {}
  <2> SUFFICES ASSUME Bad # {} PROVE FALSE
    OBVIOUS
  <2>1. Bad \in SUBSET Nat
    BY <1>1
  <2>2. PICK n \in Bad : \A m \in Bad : n <= m
    BY <2>1, Least
  <2>3. n \in 1 .. Len(s) /\ ~ Upto(n)
    BY <1>1, <1>3
  <2>4. n - 1 \in 0 .. Len(s) /\ ~ (n <= n - 1)
    BY <1>1, <2>3
  <2>5. Upto(n - 1)
    BY <2>2, <2>4
  <2> QED
    BY <1>4, <2>3, <2>5
<1>6. Upto(Len(s))
  BY <1>1, <1>5
<1> QED
  BY <1>1, <1>6 DEF Upto

\* MaxLid is the highest local id, and 0 if there is no message.
LEMMA MaxLidFacts ==
  ASSUME NEW s \in Seq(Row), NEW R \in SUBSET {s[i] : i \in DOMAIN s}
  PROVE  /\ MaxLid(R) \in Nat
         /\ R = {} => MaxLid(R) = 0
         /\ R # {} => \E r \in R : r.lid = MaxLid(R)
         /\ \A r \in R : r.lid <= MaxLid(R)
<1>1. \A r \in R : r \in Row
  OBVIOUS
<1>2. \A r \in R : r.lid \in Nat
  BY <1>1 DEF Row
<1>3. CASE R = {}
  BY <1>3 DEF MaxLid
<1>4. CASE R # {}
  <2>1. PICK b \in Nat : \A r \in R : r.lid <= b
    BY LidsBounded
  <2> DEFINE Gaps == {b - r.lid : r \in R}
  <2>2. Gaps \in SUBSET Nat /\ Gaps # {}
    BY <1>2, <1>4, <2>1
  <2>3. PICK g \in Gaps : \A h \in Gaps : g <= h
    BY <2>2, Least
  <2>4. PICK top \in R : g = b - top.lid
    OBVIOUS
  <2>5. \A r \in R : r.lid <= top.lid
    <3> SUFFICES ASSUME NEW r \in R PROVE r.lid <= top.lid
      OBVIOUS
    <3>1. b - top.lid <= b - r.lid
      BY <2>3, <2>4
    <3> QED
      BY <1>2, <3>1
  <2> DEFINE P(m) == \A r \in R : r.lid <= m
  <2>6. \E m \in {r.lid : r \in R} : P(m)
    BY <2>5
  <2>7. MaxLid(R) = CHOOSE m \in {r.lid : r \in R} : P(m)
    BY <1>4 DEF MaxLid
  <2>8. MaxLid(R) \in {r.lid : r \in R} /\ P(MaxLid(R))
    BY <2>6, <2>7
  <2> QED
    BY <1>2, <1>4, <2>8
<1> QED
  BY <1>3, <1>4

\* What the types say of the messages.
LEMMA RowsTyped ==
  ASSUME TypeOK
  PROVE  /\ Len(rows) \in Nat /\ DOMAIN rows = 1 .. Len(rows)
         /\ \A i \in DOMAIN rows : rows[i] \in Row
         /\ \A r \in Rows : r \in Row
<1>1. Len(rows) \in Nat /\ DOMAIN rows = 1 .. Len(rows) /\ \A i \in DOMAIN rows : rows[i] \in Row
  BY DEF TypeOK
<1> QED
  BY <1>1 DEF Rows

LEMMA RowFields ==
  ASSUME NEW r \in Row
  PROVE  /\ r.chat \in Chat /\ r.lid \in Nat /\ r.lid > 0 /\ r.from \in User
         /\ r.deleted \in BOOLEAN /\ r.withdrawn \in BOOLEAN
  BY DEF Row

\* MaxLid of messages that there are.
LEMMA MaxLidOfRows ==
  ASSUME TypeOK, NEW R \in SUBSET Rows
  PROVE  /\ MaxLid(R) \in Nat
         /\ R = {} => MaxLid(R) = 0
         /\ R # {} => \E r \in R : r.lid = MaxLid(R)
         /\ \A r \in R : r.lid <= MaxLid(R)
<1>1. rows \in Seq(Row) /\ R \in SUBSET {rows[i] : i \in DOMAIN rows}
  BY DEF TypeOK, Rows
<1> QED
  BY <1>1, MaxLidFacts

\* The highest local id of a conversation, in any sequence of messages.
Of(s, c) == {r \in {s[i] : i \in DOMAIN s} : r.chat = c}

LEMMA HighestOf ==
  ASSUME NEW s \in Seq(Row), NEW c
  PROVE  LET M == Of(s, c) IN
         /\ MaxLid(M) \in Nat
         /\ \A i \in DOMAIN s : s[i].chat = c => s[i].lid <= MaxLid(M)
         /\ \A r \in M : r.lid <= MaxLid(M)
         /\ \A R \in SUBSET M : MaxLid(R) \in Nat /\ MaxLid(R) <= MaxLid(M)
         /\ MaxLid(M) > 0 => \E i \in DOMAIN s : s[i].chat = c /\ s[i].lid = MaxLid(M)
<1> DEFINE S == {s[i] : i \in DOMAIN s}
           M == Of(s, c)
<1>1. M \in SUBSET S
  BY DEF Of
<1>2. /\ MaxLid(M) \in Nat /\ \A r \in M : r.lid <= MaxLid(M)
      /\ M = {} => MaxLid(M) = 0
      /\ M # {} => \E r \in M : r.lid = MaxLid(M)
  BY <1>1, MaxLidFacts
<1>3. ASSUME NEW R \in SUBSET M PROVE MaxLid(R) \in Nat /\ MaxLid(R) <= MaxLid(M)
  <2>1. R \in SUBSET S
    BY <1>1
  <2>2. /\ MaxLid(R) \in Nat
        /\ R = {} => MaxLid(R) = 0
        /\ R # {} => \E r \in R : r.lid = MaxLid(R)
    BY <2>1, MaxLidFacts
  <2> QED
    BY <1>2, <2>2
<1>4. \A i \in DOMAIN s : s[i].chat = c => s[i] \in M
  BY DEF Of
<1>5. \A r \in M : \E i \in DOMAIN s : r = s[i] /\ s[i].chat = c
  BY DEF Of
<1> HIDE DEF M
<1>6. \A i \in DOMAIN s : s[i].chat = c => s[i].lid <= MaxLid(M)
  BY <1>2, <1>4
<1>7. MaxLid(M) > 0 => \E i \in DOMAIN s : s[i].chat = c /\ s[i].lid = MaxLid(M)
  BY <1>2, <1>5
<1> QED
  BY <1>2, <1>3, <1>6, <1>7 DEF M

LEMMA TopFacts ==
  ASSUME TypeOK, NEW c
  PROVE  /\ Top(c) \in Nat
         /\ \A i \in DOMAIN rows : rows[i].chat = c => rows[i].lid <= Top(c)
         /\ \A r \in In(c) : r.lid <= Top(c)
         /\ \A R \in SUBSET In(c) : MaxLid(R) \in Nat /\ MaxLid(R) <= Top(c)
         /\ Top(c) > 0 => \E i \in DOMAIN rows : rows[i].chat = c /\ rows[i].lid = Top(c)
<1>1. rows \in Seq(Row) /\ In(c) = Of(rows, c)
  BY DEF TypeOK, In, Rows, Of
<1> QED
  BY <1>1, HighestOf DEF Top

LEMMA TopFactsNext ==
  ASSUME TypeOK', NEW c
  PROVE  /\ Top(c)' \in Nat
         /\ \A i \in DOMAIN rows' : rows'[i].chat = c => rows'[i].lid <= Top(c)'
         /\ \A r \in In(c)' : r.lid <= Top(c)'
         /\ \A R \in SUBSET In(c)' : MaxLid(R) \in Nat /\ MaxLid(R) <= Top(c)'
         /\ Top(c)' > 0 => \E i \in DOMAIN rows' : rows'[i].chat = c /\ rows'[i].lid = Top(c)'
<1>1. rows' \in Seq(Row) /\ In(c)' = Of(rows', c)
  BY DEF TypeOK, In, Rows, Of
<1> QED
  BY <1>1, HighestOf DEF Top

\* What a call may mark is a task, and lies not beyond the messages.
LEMMA RequestedFacts ==
  ASSUME TypeOK, NEW k \in Call, NEW t \in Requested(k) \cup Mistaken(k)
  PROVE  /\ t \in Task
         /\ (\A c \in Chat : last[c] <= Top(c)) => t.lid <= Top(t.chat)
<1> DEFINE Good(x) == x \in Task /\ ((\A c \in Chat : last[c] <= Top(c)) => x.lid <= Top(x.chat))
<1>1. req[k] \in Request
  BY DEF TypeOK
<1>2. req[k].chat \in Chat /\ req[k].start \in Nat
  BY <1>1 DEF Request
<1>3. ASSUME NEW i \in DOMAIN rows PROVE Good([chat |-> rows[i].chat, lid |-> rows[i].lid])
  BY <1>3, RowsTyped, RowFields, TopFacts DEF Task
<1>4. ASSUME NEW c \in Chat, NEW n \in Nat, n <= Top(c) PROVE Good([chat |-> c, lid |-> n])
  BY <1>4 DEF Task
<1>5. ASSUME NEW c \in Chat, NEW R \in SUBSET In(c) PROVE Good([chat |-> c, lid |-> MaxLid(R)])
  <2>1. MaxLid(R) \in Nat /\ MaxLid(R) <= Top(c)
    BY TopFacts, MaxLidOfRows DEF In
  <2> QED
    BY <2>1, <1>4
<1>6. ASSUME NEW c \in Chat PROVE Good([chat |-> c, lid |-> last[c]])
  <2>1. last[c] \in Nat /\ Top(c) \in Nat
    BY TopFacts DEF TypeOK
  <2> QED
    BY <2>1 DEF Task
<1>11. ASSUME NEW c \in Chat, NEW n \in Nat, NEW x \in Guess(c, n) PROVE Good(x)
  <2> DEFINE older == {rows[i] : i \in {j \in DOMAIN rows : rows[j].chat = c /\ j <= n}}
  <2>1. older \in SUBSET In(c)
    BY DEF In, Rows
  <2>2. last[c] \in Nat /\ Top(c) \in Nat
    BY TopFacts DEF TypeOK
  <2> HIDE DEF Good
  <2>3. \/ n <= last[c] /\ x = [chat |-> c, lid |-> n]
        \/ x = [chat |-> c, lid |-> MaxLid(older)]
        \/ x = [chat |-> c, lid |-> last[c]]
    BY <1>11, Zenon DEF Guess
  <2>4. CASE n <= last[c] /\ x = [chat |-> c, lid |-> n]
    BY <2>4, <2>2 DEF Good, Task
  <2> QED
    BY <2>1, <2>3, <2>4, <1>5, <1>6
<1>12. ASSUME NEW c \in Chat, NEW n \in Nat, NEW x \in StartTask(c, n) PROVE Good(x)
  <2> DEFINE found == {rows[i] : i \in {j \in DOMAIN rows : rows[j].chat = c /\ (rows[j].lid = n \/ j = n)}}
  <2>1. found \in SUBSET In(c)
    BY DEF In, Rows
  <2> HIDE DEF Good
  <2>2. x = [chat |-> c, lid |-> MaxLid(found)] \/ x \in Guess(c, n)
    BY <1>12, Zenon DEF StartTask
  <2> QED
    BY <2>1, <2>2, <1>5, <1>11
<1> HIDE DEF Good
<1>7. ASSUME NEW x \in IdTasks(k) PROVE Good(x)
  BY <1>3, <1>7 DEF IdTasks
<1>8. ASSUME NEW x \in AllTasks(k) PROVE Good(x)
  BY <1>2, <1>5, <1>8 DEF AllTasks
<1>9. \/ t \in StartTask(req[k].chat, req[k].start)
      \/ \E i \in DOMAIN rows : t = [chat |-> rows[i].chat, lid |-> rows[i].lid]
      \/ t \in IdTasks(k)
      \/ t \in AllTasks(k)
      \/ t \in Guess(req[k].chat, req[k].start)
      \/ t = [chat |-> req[k].chat, lid |-> last[req[k].chat]]
  BY Zenon DEF Requested, Mistaken
<1>10. Good(t)
  BY <1>2, <1>3, <1>6, <1>7, <1>8, <1>9, <1>11, <1>12
<1> QED
  BY <1>10 DEF Good

\* A user's unread conversations can be counted: there are not more of them
\* than messages.
LEMMA CountTyped ==
  ASSUME rows \in Seq(Row), NEW u \in User
  PROVE  CountUnreadConversations(u) \in Nat
<1> DEFINE I == DOMAIN rows
           Chats == {rows[i].chat : i \in I}
           chatOf == [i \in I |-> rows[i].chat]
           unread == {c \in Chat : u \in Members[c] /\ Unread(u, c)}
<1>1. chatOf \in Surjection(I, Chats)
  BY DEF Surjection
<1>2. IsFiniteSet(I)
  <2>1. Len(rows) \in Nat /\ I = 1 .. Len(rows)
    OBVIOUS
  <2> QED
    BY <2>1, FS_Interval
<1>3. IsFiniteSet(Chats)
  BY <1>1, <1>2, FS_Surjection
<1>4. unread \subseteq Chats
  BY DEF Unread, In, Rows
<1>5. Cardinality(unread) \in Nat
  BY <1>3, <1>4, FS_Subset, FS_CardinalityType
<1> QED
  BY <1>5 DEF CountUnreadConversations

\* The other members come in some order, each of them at some place.
LEMMA OthersTyped ==
  ASSUME NEW c \in Chat, NEW u \in User, NEW s \in Others(c, u)
  PROVE  /\ s \in Seq(User) /\ Len(s) \in Nat /\ DOMAIN s = 1 .. Len(s)
         /\ \A m \in Members[c] \ {u} : \E i \in DOMAIN s : s[i] = m
<1> DEFINE them == Members[c] \ {u}
<1>1. Members[c] \in SUBSET User /\ IsFiniteSet(Members[c])
  BY ReadStateAssumption
<1>2. Cardinality(them) \in Nat
  BY <1>1, FS_RemoveElement, FS_CardinalityType
<1>3. s \in [1 .. Cardinality(them) -> them] /\ \A m \in them : \E i \in DOMAIN s : s[i] = m
  BY DEF Others
<1> HIDE DEF them
<1>4. s \in Seq(them)
  BY <1>2, <1>3
<1>5. them \subseteq User
  BY <1>1 DEF them
<1>6. s \in Seq(User) /\ Len(s) \in Nat /\ DOMAIN s = 1 .. Len(s)
  BY <1>4, <1>5
<1> QED
  BY <1>3, <1>6 DEF them

LEMMA RequestTyped ==
  ASSUME TypeOK, NEW k \in Call
  PROVE  req[k].by \in User /\ req[k].chat \in Chat
<1>1. req[k] \in Request
  BY DEF TypeOK
<1> QED
  BY <1>1 DEF Request

LEMMA JobFields ==
  ASSUME TypeOK, NEW j \in jobs
  PROVE  /\ j \in Job
         /\ j.by \in Call /\ j.todo \in Seq(User) /\ j.count \in Nat \cup {None}
         /\ j.marks \in SUBSET Task
         /\ Len(j.todo) \in Nat /\ DOMAIN j.todo = 1 .. Len(j.todo)
         /\ j.todo # << >> => Head(j.todo) \in User /\ Head(j.todo) = j.todo[1]
                              /\ Tail(j.todo) \in Seq(User) /\ Len(j.todo) > 0
<1>1. j \in Job
  BY DEF TypeOK
<1>2. /\ j.by \in Call /\ j.todo \in Seq(User) /\ j.count \in Nat \cup {None}
      /\ j.marks \in SUBSET Task
  BY <1>1 DEF Job
<1> HIDE DEF Job
<1> QED
  BY <1>1, <1>2

LEMMA CountsTyped ==
  ASSUME NEW k \in Call, NEW us \in Seq(User)
  PROVE  Counts(k, us) \subseteq Job
  BY DEF Counts, Job

-----------------------------------------------------------------------------
(* Types.                                                                  *)

StoreTyped ==
  /\ rows \in Seq(Row) /\ last \in [Chat -> Nat]
  /\ read \in [Chat -> [User -> Nat]] /\ before \in [Chat -> [User -> Nat]]

LEMMA SetDeletedType ==
  ASSUME TypeOK, NEW k \in Call, NEW i \in DOMAIN rows, NEW d \in BOOLEAN, SetDeleted(k, i, d),
         NEW c \in Chat, c = req[k].chat
  PROVE  /\ StoreTyped'
         /\ DOMAIN rows' = DOMAIN rows
         /\ \A j \in DOMAIN rows :
              rows'[j] = IF j = i THEN [rows[j] EXCEPT !.deleted = d, !.withdrawn = TRUE] ELSE rows[j]
         /\ last' = [last EXCEPT ![c] = MaxLid(NotDeleted(c)')]
         /\ UNCHANGED <<read, before>>
<1> DEFINE now == [rows EXCEPT ![i].deleted = d, ![i].withdrawn = TRUE]
           left == {now[j] : j \in {x \in DOMAIN now : now[x].chat = c /\ ~now[x].deleted}}
<1>1. rows' = now /\ last' = [last EXCEPT ![c] = MaxLid(left)] /\ UNCHANGED <<read, before>>
  BY DEF SetDeleted
<1>2. DOMAIN now = DOMAIN rows
  OBVIOUS
<1>3. \A j \in DOMAIN rows :
        now[j] = IF j = i THEN [rows[j] EXCEPT !.deleted = d, !.withdrawn = TRUE] ELSE rows[j]
  OBVIOUS
<1>4. \A r \in Row : [r EXCEPT !.deleted = d, !.withdrawn = TRUE] \in Row
  BY DEF Row
<1>5. \A j \in DOMAIN rows : now[j] \in Row
  BY <1>3, <1>4, RowsTyped
<1> HIDE DEF now
<1>6. now \in [1 .. Len(rows) -> Row]
  <2>1. now = [j \in DOMAIN now |-> now[j]]
    BY DEF now
  <2> QED
    BY <1>2, <1>5, <2>1, RowsTyped
<1>7. now \in Seq(Row)
  BY <1>6, RowsTyped
<1>8. left \in SUBSET {now[j] : j \in DOMAIN now}
  OBVIOUS
<1>9. MaxLid(left) \in Nat
  BY <1>7, <1>8, MaxLidFacts
<1>10. left = NotDeleted(c)'
  BY <1>1 DEF NotDeleted, In, Rows
<1>11. last' \in [Chat -> Nat]
  BY <1>1, <1>9 DEF TypeOK
<1> QED
  BY <1>1, <1>2, <1>3, <1>7, <1>10, <1>11 DEF StoreTyped, TypeOK

\* The types are kept by sending, deleting and restoring.
LEMMA MessageType ==
  ASSUME TypeOK, NEW k \in Call, Send(k) \/ Delete(k) \/ Restore(k)
  PROVE  TypeOK'
<1> DEFINE u == req[k].by
           c == req[k].chat
<1>1. u \in User /\ c \in Chat
  BY RequestTyped
<1>2. \A s \in Others(c, u) : Counts(k, Append(s, u)) \subseteq Job /\ Counts(k, <<u>> \o s) \subseteq Job
  <2> SUFFICES ASSUME NEW s \in Others(c, u)
               PROVE  Counts(k, Append(s, u)) \subseteq Job /\ Counts(k, <<u>> \o s) \subseteq Job
    OBVIOUS
  <2>1. s \in Seq(User)
    BY <1>1, OthersTyped
  <2>2. Append(s, u) \in Seq(User) /\ <<u>> \o s \in Seq(User)
    BY <1>1, <2>1
  <2> QED
    BY <2>2, CountsTyped
<1>3. Counts(k, <<u>>) \subseteq Job
  <2>1. <<u>> \in Seq(User)
    BY <1>1
  <2> QED
    BY <2>1, CountsTyped
<1>4. CASE Send(k)
  <2> DEFINE new == [chat |-> c, lid |-> Top(c) + 1, from |-> u, deleted |-> FALSE, withdrawn |-> FALSE]
  <2>1. new \in Row /\ Top(c) + 1 \in Nat
    BY <1>1, TopFacts DEF Row
  <2>2. /\ rows' = Append(rows, new) /\ last' = [last EXCEPT ![c] = Top(c) + 1]
        /\ read' = [read EXCEPT ![c][u] = Top(c) + 1] /\ pc' = [pc EXCEPT ![k] = "done"]
    BY <1>4 DEF Send, Goto, Top
  <2>3. jobs' \subseteq Job
    BY <1>2, <1>4 DEF Send, TypeOK
  <2> HIDE DEF new
  <2> QED
    BY <1>1, <1>4, <2>1, <2>2, <2>3 DEF Send, Calm, TypeOK
<1>5. CASE Delete(k)
  <2>1. jobs' \subseteq Job
    BY <1>2, <1>5 DEF Delete, TypeOK
  <2>2. StoreTyped'
    <3>1. CASE \E i \in Named(k) : SetDeleted(k, i, TRUE)
      BY <1>1, <3>1, SetDeletedType DEF Named
    <3>2. CASE UNCHANGED store
      BY <3>2 DEF store, StoreTyped, TypeOK
    <3> QED
      BY <1>5, <3>1, <3>2 DEF Delete
  <2>3. pc' = [pc EXCEPT ![k] = "done"]
    BY <1>5 DEF Delete, Goto
  <2> QED
    BY <1>5, <2>1, <2>2, <2>3 DEF Delete, Calm, TypeOK, StoreTyped
<1>6. CASE Restore(k)
  <2>1. jobs' \subseteq Job
    BY <1>3, <1>6 DEF Restore, TypeOK
  <2>2. StoreTyped'
    <3>1. CASE \E i \in Named(k) : SetDeleted(k, i, FALSE)
      BY <1>1, <3>1, SetDeletedType DEF Named
    <3>2. CASE UNCHANGED store
      BY <3>2 DEF store, StoreTyped, TypeOK
    <3> QED
      BY <1>6, <3>1, <3>2 DEF Restore
  <2>3. pc' = [pc EXCEPT ![k] = "done"]
    BY <1>6 DEF Restore, Goto
  <2>4. unaware' \subseteq User
    BY <1>1, <1>6, ReadStateAssumption DEF Restore, TypeOK
  <2> QED
    BY <1>6, <2>1, <2>2, <2>3, <2>4 DEF Restore, Calm, TypeOK, StoreTyped
<1> QED
  BY <1>4, <1>5, <1>6

LEMMA SetMarkType ==
  ASSUME NEW f \in [Chat -> [User -> Nat]], NEW c \in Chat, NEW u \in User, NEW n \in Nat
  PROVE  /\ [f EXCEPT ![c][u] = n] \in [Chat -> [User -> Nat]]
         /\ \A d \in Chat, w \in User :
              [f EXCEPT ![c][u] = n][d][w] = IF d = c /\ w = u THEN n ELSE f[d][w]
<1>1. [f[c] EXCEPT ![u] = n] \in [User -> Nat]
  OBVIOUS
<1>2. [f EXCEPT ![c][u] = n] = [f EXCEPT ![c] = [f[c] EXCEPT ![u] = n]]
  OBVIOUS
<1> QED
  BY <1>1, <1>2

\* They are kept by marking and by deleting a conversation.
LEMMA MarkType ==
  ASSUME TypeOK, NEW k \in Call,
         Resolve(k) \/ ReadLast(k) \/ MarkAsRead(k) \/ ForgetRead(k) \/ Forget(k) \/ Crash(k)
  PROVE  TypeOK'
<1> DEFINE u == req[k].by
           c == req[k].chat
<1>1. u \in User /\ c \in Chat
  BY RequestTyped
<1>2. CASE Resolve(k)
  <2>1. PICK T \in SUBSET (Requested(k) \cup Mistaken(k)) :
          /\ UNCHANGED faults \/ Fault
          /\ Goto(k, IF T = {} THEN "done" ELSE "marking")
          /\ tasks' = [tasks EXCEPT ![k] = Largest(T)] /\ todo' = [todo EXCEPT ![k] = Largest(T)]
    BY <1>2 DEF Resolve, Calm
  <2>2. Largest(T) \in SUBSET Task
    BY RequestedFacts DEF Largest
  <2>3. \E p \in {"done", "marking"} : pc' = [pc EXCEPT ![k] = p]
    BY <2>1 DEF Goto
  <2>4. faults' \in 0 .. MaxFaults
    BY <2>1, ReadStateAssumption DEF Fault, TypeOK
  <2> HIDE DEF Task
  <2> QED
    BY <1>2, <2>1, <2>2, <2>3, <2>4 DEF Resolve, store, events, TypeOK
<1>3. CASE ReadLast(k)
  <2>1. PICK t \in todo[k] :
          /\ todo' = [todo EXCEPT ![k] = @ \ {t}] /\ at' = [at EXCEPT ![k] = t]
          /\ \/ snap' = [snap EXCEPT ![k] = last[t.chat]] /\ Calm
             \/ snap' = [snap EXCEPT ![k] = 0] /\ Fault
    BY <1>3 DEF ReadLast
  <2>2. t \in Task
    BY DEF TypeOK
  <2>3. \E n \in Nat : snap' = [snap EXCEPT ![k] = n]
    BY <2>1, <2>2 DEF Task, TypeOK
  <2>5. faults' \in 0 .. MaxFaults
    BY <2>1, ReadStateAssumption DEF Calm, Fault, TypeOK
  <2>4. pc' = [pc EXCEPT ![k] = "capped"]
    BY <1>3 DEF ReadLast, Goto
  <2> HIDE DEF Task
  <2> QED
    BY <1>3, <2>1, <2>2, <2>3, <2>4, <2>5 DEF ReadLast, store, events, TypeOK
<1>4. CASE MarkAsRead(k)
  <2>1. Capped(k) \in Nat
    <3>1. at[k] \in Task \cup {NoTask} /\ snap[k] \in Nat
      BY DEF TypeOK
    <3>2. at[k].lid \in Nat
      BY <3>1 DEF Task, NoTask
    <3> QED
      BY <3>1, <3>2 DEF Capped
  <2>2. \E p \in {"done", "marking"} : pc' = [pc EXCEPT ![k] = p]
    BY <1>4 DEF MarkAsRead, Marked, Goto
  <2>3. jobs' \subseteq Job
    <3>1. [by |-> k, todo |-> << >>, count |-> None, marks |-> tasks[k]] \in Job
      BY DEF Job, TypeOK
    <3> QED
      BY <1>4, <3>1 DEF MarkAsRead, Marked, TypeOK
  <2>4. read' \in [Chat -> [User -> Nat]]
    <3> DEFINE d == at[k].chat
    <3>1. CASE UNCHANGED read
      BY <3>1 DEF TypeOK
    <3>2. CASE d \in Chat /\ ~UNCHANGED read
      <4>1. read[d][u] \in Nat
        BY <1>1, <3>2 DEF TypeOK
      <4>2. \E n \in Nat : read' = [read EXCEPT ![d][u] = n]
        BY <1>4, <2>1, <3>2, <4>1 DEF MarkAsRead
      <4>3. PICK n \in Nat : read' = [read EXCEPT ![d][u] = n]
        BY <4>2
      <4>4. read \in [Chat -> [User -> Nat]]
        BY DEF TypeOK
      <4>5. [read EXCEPT ![d][u] = n] \in [Chat -> [User -> Nat]]
        BY <1>1, <3>2, <4>4, SetMarkType
      <4> QED
        BY <4>3, <4>5
    <3>3. CASE d \notin Chat /\ ~UNCHANGED read
      BY <1>4, <3>3 DEF MarkAsRead, TypeOK
    <3> QED
      BY <3>1, <3>2, <3>3
  <2>5. faults' \in 0 .. MaxFaults
    BY <1>4, ReadStateAssumption DEF MarkAsRead, Calm, Fault, TypeOK
  <2> QED
    BY <1>4, <2>2, <2>3, <2>4, <2>5 DEF MarkAsRead, TypeOK
<1>5. CASE ForgetRead(k)
  <2>1. MaxLid(In(c)) \in Nat
    BY TopFacts DEF Top
  <2>2. pc' = [pc EXCEPT ![k] = "forgetting"]
    BY <1>5 DEF ForgetRead, Goto
  <2>3. \E n \in Nat : snap' = [snap EXCEPT ![k] = n]
    BY <1>5, <2>1 DEF ForgetRead
  <2>4. faults' \in 0 .. MaxFaults
    BY <1>5, ReadStateAssumption DEF ForgetRead, Calm, Fault, TypeOK
  <2> QED
    BY <1>5, <2>2, <2>3, <2>4 DEF ForgetRead, store, events, TypeOK
<1>6. CASE Forget(k)
  <2>1. snap[k] \in Nat
    BY DEF TypeOK
  <2>2. read' \in [Chat -> [User -> Nat]] /\ before' \in [Chat -> [User -> Nat]]
    <3>1. \/ /\ read' = [read EXCEPT ![c][u] = snap[k]]
             /\ before' = [before EXCEPT ![c][u] = snap[k]]
          \/ UNCHANGED <<read, before>>
      BY <1>6 DEF Forget
    <3>2. read \in [Chat -> [User -> Nat]] /\ before \in [Chat -> [User -> Nat]]
      BY DEF TypeOK
    <3>3. /\ [read EXCEPT ![c][u] = snap[k]] \in [Chat -> [User -> Nat]]
          /\ [before EXCEPT ![c][u] = snap[k]] \in [Chat -> [User -> Nat]]
      BY <1>1, <2>1, <3>2, SetMarkType
    <3> QED
      BY <3>1, <3>2, <3>3
  <2>3. jobs' \subseteq Job
    <3>1. <<u>> \in Seq(User)
      BY <1>1
    <3>2. Counts(k, <<u>>) \subseteq Job
      BY <3>1, CountsTyped
    <3> QED
      BY <1>6, <3>2 DEF Forget, TypeOK
  <2>4. faults' \in 0 .. MaxFaults
    BY <1>6, ReadStateAssumption DEF Forget, Calm, Fault, TypeOK
  <2>5. pc' = [pc EXCEPT ![k] = "done"]
    BY <1>6 DEF Forget, Goto
  <2> QED
    BY <1>6, <2>2, <2>3, <2>4, <2>5 DEF Forget, TypeOK
<1>7. CASE Crash(k)
  BY <1>7, ReadStateAssumption DEF Crash, Goto, Fault, store, TypeOK
<1> QED
  BY <1>2, <1>3, <1>4, <1>5, <1>6, <1>7

\* They are kept by the goroutines.
LEMMA JobType ==
  ASSUME TypeOK, NEW j \in jobs, Count(j) \/ Push(j) \/ BroadcastMarkAsRead(j)
  PROVE  TypeOK'
<1>1. CASE Count(j)
  <2>1. Head(j.todo) \in User
    BY <1>1, JobFields DEF Count
  <2>2. CountUnreadConversations(Head(j.todo)) \in Nat
    BY <2>1, CountTyped DEF TypeOK
  <2>3. [j EXCEPT !.count = CountUnreadConversations(Head(j.todo))] \in Job
    <3>1. ASSUME NEW n \in Nat PROVE [j EXCEPT !.count = n] \in Job
      BY JobFields DEF Job
    <3> QED
      BY <2>2, <3>1
  <2>4. jobs' \subseteq Job
    BY <1>1, <2>3 DEF Count, Instead, Without, TypeOK
  <2>5. crossed' \subseteq User /\ unaware' \subseteq User
    BY <1>1, <2>1 DEF Count, TypeOK
  <2> QED
    BY <1>1, <2>4, <2>5 DEF Count, Calm, store, calls, TypeOK
<1>2. CASE Push(j)
  <2>1. Head(j.todo) \in User /\ j.count \in Nat /\ Tail(j.todo) \in Seq(User)
    BY <1>2, JobFields DEF Push, None
  <2>2. [j EXCEPT !.todo = Tail(@), !.count = None] \in Job
    BY <2>1, JobFields DEF Job
  <2>3. jobs' \subseteq Job
    BY <1>2, <2>2 DEF Push, Without, TypeOK
  <2>4. counter' \in [User -> Nat] /\ faults' \in 0 .. MaxFaults
    BY <1>2, <2>1, ReadStateAssumption DEF Push, Calm, Fault, TypeOK
  <2> QED
    BY <1>2, <2>3, <2>4 DEF Push, store, calls, TypeOK
<1>3. CASE BroadcastMarkAsRead(j)
  <2> DEFINE u == req[j.by].by
             Upto(t) == {r \in In(t.chat) : r.from # u /\ r.lid <= t.lid}
             new(t) == {[chat |-> t.chat, reader |-> u, lid |-> MaxLid(Upto(t)), to |-> m] :
                          m \in IF MaxLid(Upto(t)) = 0 THEN {} ELSE Told(t.chat, u)}
  <2>1. PICK t \in j.marks : /\ jobs' = Instead(j, [j EXCEPT !.todo = <<u>>, !.marks = @ \ {t}])
                             /\ due' = due \/ due' = due \cup new(t)
                             /\ UNCHANGED faults \/ Fault
    <3>1. PICK t \in j.marks : \E effective \in {MaxLid(Upto(t)), 0} :
            /\ jobs' = Instead(j, [j EXCEPT !.todo = <<u>>, !.marks = @ \ {t}])
            /\ due' = due \cup {[chat |-> t.chat, reader |-> u, lid |-> effective, to |-> m] :
                                   m \in IF effective = 0 THEN {} ELSE Told(t.chat, u)}
            /\ UNCHANGED faults \/ Fault
      BY <1>3 DEF BroadcastMarkAsRead, Calm
    <3>2. due' = due \/ due' = due \cup new(t)
      BY <3>1
    <3> QED
      BY <3>1, <3>2
  <2>2. u \in User
    BY JobFields, RequestTyped
  <2>3. [j EXCEPT !.todo = <<u>>, !.marks = @ \ {t}] \in Job
    <3>1. <<u>> \in Seq(User)
      BY <2>2
    <3>2. j.marks \ {t} \in SUBSET Task
      BY JobFields
    <3> QED
      BY <3>1, <3>2, JobFields DEF Job
  <2>4. new(t) \subseteq Receipt
    <3>1. t.chat \in Chat
      BY JobFields DEF Task
    <3>2. Told(t.chat, u) \subseteq User
      BY <3>1, ReadStateAssumption DEF Told
    <3>3. Upto(t) \in SUBSET Rows
      BY DEF In
    <3>4. MaxLid(Upto(t)) \in Nat
      BY <3>3, MaxLidOfRows
    <3> HIDE DEF Upto
    <3> QED
      BY <2>2, <3>1, <3>2, <3>4 DEF Receipt
  <2> HIDE DEF new
  <2>5. jobs' \subseteq Job /\ due' \subseteq Receipt
    BY <2>1, <2>3, <2>4 DEF Instead, Without, TypeOK
  <2>6. faults' \in 0 .. MaxFaults
    BY <2>1, ReadStateAssumption DEF Fault, TypeOK
  <2> QED
    BY <1>3, <2>5, <2>6 DEF BroadcastMarkAsRead, store, calls, TypeOK
<1> QED
  BY <1>1, <1>2, <1>3

\* Every variable keeps its type, for any users, conversations, messages,
\* calls, requests and faults.
THEOREM TypeCorrect == Spec => []TypeOK
<1>1. Init => TypeOK
  <2> SUFFICES ASSUME Init PROVE TypeOK
    OBVIOUS
  <2>1. rows \in Seq(Row)
    BY ReadStateAssumption DEF Init
  <2>2. \A c \in Chat : MaxLid(NotDeleted(c)) \in Nat
    BY <2>1, MaxLidFacts DEF NotDeleted, In, Rows
  <2>3. req \in [Call -> Request]
    BY ReadStateAssumption DEF Init
  <2>4. last \in [Chat -> Nat]
    BY <2>2 DEF Init
  <2>5. \A u \in User : CountUnreadConversations(u) \in Nat
    BY <2>1, CountTyped
  <2> QED
    BY <2>1, <2>3, <2>4, <2>5, ReadStateAssumption DEF Init, TypeOK
<1>2. TypeOK /\ [Next]_vars => TypeOK'
  <2> SUFFICES ASSUME TypeOK, [Next]_vars PROVE TypeOK'
    OBVIOUS
  <2>1. CASE UNCHANGED vars
    BY <2>1 DEF vars, store, calls, events, TypeOK
  <2>2. ASSUME NEW d \in due, PushReceipt(d) PROVE TypeOK'
    BY <2>2, ReadStateAssumption DEF PushReceipt, Calm, Fault, store, calls, TypeOK
  <2> QED
    BY <2>1, <2>2, MessageType, MarkType, JobType DEF Next
<1> QED
  BY <1>1, <1>2, PTL DEF Spec

-----------------------------------------------------------------------------
(* Marks.                                                                  *)

\* Messages keep their place, their conversation and their local id.
Kept ==
  \A i \in DOMAIN rows :
    /\ i \in DOMAIN rows'
    /\ rows'[i].chat = rows[i].chat /\ rows'[i].lid = rows[i].lid /\ rows'[i].from = rows[i].from
    /\ rows[i].withdrawn => rows'[i].withdrawn

LEMMA SendRows ==
  ASSUME TypeOK, NEW k \in Call, Send(k), NEW c, c = req[k].chat
  PROVE  /\ DOMAIN rows' = 1 .. (Len(rows) + 1)
         /\ \A i \in DOMAIN rows : rows'[i] = rows[i]
         /\ rows'[Len(rows) + 1] = [chat |-> c, lid |-> Top(c) + 1, from |-> req[k].by,
                                    deleted |-> FALSE, withdrawn |-> FALSE]
         /\ last' = [last EXCEPT ![c] = Top(c) + 1]
         /\ read' = [read EXCEPT ![c][req[k].by] = Top(c) + 1]
<1> DEFINE new == [chat |-> c, lid |-> Top(c) + 1, from |-> req[k].by,
                   deleted |-> FALSE, withdrawn |-> FALSE]
<1>1. /\ rows' = Append(rows, new) /\ last' = [last EXCEPT ![c] = Top(c) + 1]
      /\ read' = [read EXCEPT ![c][req[k].by] = Top(c) + 1]
  BY DEF Send, Top
<1> HIDE DEF new
<1>2. rows \in Seq(Row)
  BY DEF TypeOK
<1>3. /\ DOMAIN rows' = 1 .. (Len(rows) + 1)
      /\ \A i \in DOMAIN rows : rows'[i] = rows[i]
      /\ rows'[Len(rows) + 1] = new
  BY <1>1, <1>2
<1> QED
  BY <1>1, <1>3 DEF new

LEMMA RowsKept ==
  ASSUME TypeOK, [Next]_vars
  PROVE  /\ Kept
         /\ \/ rows' = rows
            \/ \E k \in Call : Send(k)
            \/ \E k \in Call : \E i \in DOMAIN rows : SetDeleted(k, i, TRUE) \/ SetDeleted(k, i, FALSE)
<1>1. \/ rows' = rows
      \/ \E k \in Call : Send(k)
      \/ \E k \in Call : \E i \in DOMAIN rows : SetDeleted(k, i, TRUE) \/ SetDeleted(k, i, FALSE)
  BY DEF Next, vars, store, calls, events, Delete, Restore, Named, Resolve, ReadLast, MarkAsRead,
         ForgetRead, Forget, Crash, Count, Push, BroadcastMarkAsRead, PushReceipt
<1>2. CASE rows' = rows
  BY <1>2 DEF Kept
<1>3. ASSUME NEW k \in Call, Send(k) PROVE Kept
  <2>1. DOMAIN rows' = 1 .. (Len(rows) + 1) /\ \A i \in DOMAIN rows : rows'[i] = rows[i]
    BY <1>3, SendRows
  <2> QED
    BY <2>1, RowsTyped DEF Kept
<1>4. ASSUME NEW k \in Call, NEW i \in DOMAIN rows,
             SetDeleted(k, i, TRUE) \/ SetDeleted(k, i, FALSE)
      PROVE  Kept
  <2> DEFINE c == req[k].chat
  <2>1. c \in Chat /\ c = req[k].chat
    BY RequestTyped
  <2> HIDE DEF c
  <2> DEFINE Same(n, q) == n.chat = q.chat /\ n.lid = q.lid /\ n.from = q.from /\ n.withdrawn
  <2>2. ASSUME NEW q \in Row
        PROVE  /\ Same([q EXCEPT !.deleted = TRUE, !.withdrawn = TRUE], q)
               /\ Same([q EXCEPT !.deleted = FALSE, !.withdrawn = TRUE], q)
    BY DEF Row
  <2>3. \A j \in DOMAIN rows :
          /\ j \in DOMAIN rows'
          /\ \/ rows'[j] = rows[j]
             \/ rows'[j] = [rows[j] EXCEPT !.deleted = TRUE, !.withdrawn = TRUE]
             \/ rows'[j] = [rows[j] EXCEPT !.deleted = FALSE, !.withdrawn = TRUE]
    <3>1. CASE SetDeleted(k, i, TRUE)
      BY <2>1, <3>1, SetDeletedType
    <3>2. CASE SetDeleted(k, i, FALSE)
      BY <2>1, <3>2, SetDeletedType
    <3> QED BY <1>4, <3>1, <3>2
  <2> HIDE DEF Same
  <2>4. \A j \in DOMAIN rows : j \in DOMAIN rows' /\ (rows'[j] = rows[j] \/ Same(rows'[j], rows[j]))
    BY <2>2, <2>3, RowsTyped
  <2> QED
    BY <2>4 DEF Kept, Same
<1> QED
  BY <1>1, <1>2, <1>3, <1>4

LEMMA TopGrows ==
  ASSUME TypeOK, TypeOK', Kept, NEW c
  PROVE  Top(c) \in Nat /\ Top(c)' \in Nat /\ Top(c) <= Top(c)'
<1>1. Top(c) \in Nat /\ Top(c)' \in Nat
  BY TopFacts, TopFactsNext
<1>2. CASE Top(c) > 0
  <2>1. PICK i \in DOMAIN rows : rows[i].chat = c /\ rows[i].lid = Top(c)
    BY <1>2, TopFacts
  <2>2. i \in DOMAIN rows' /\ rows'[i].chat = c /\ rows'[i].lid = Top(c)
    BY <2>1 DEF Kept
  <2> QED
    BY <1>1, <2>2, TopFactsNext
<1> QED
  BY <1>1, <1>2

\* Which steps move the marks
LEMMA MarksMoved ==
  ASSUME [Next]_vars
  PROVE  /\ req' = req
         /\ \/ UNCHANGED <<read, before>>
            \/ \E k \in Call : Send(k) \/ MarkAsRead(k) \/ Forget(k)
         /\ \/ UNCHANGED last
            \/ \E k \in Call : Send(k)
            \/ \E k \in Call : \E i \in DOMAIN rows : SetDeleted(k, i, TRUE) \/ SetDeleted(k, i, FALSE)
         /\ \/ UNCHANGED <<pc, tasks, todo, at, snap>>
            \/ \E k \in Call : \/ Resolve(k) \/ ReadLast(k) \/ MarkAsRead(k) \/ ForgetRead(k)
                               \/ UNCHANGED <<tasks, todo, at, snap>> /\ Goto(k, "done")
<1> USE DEF vars, store, calls, events
<1>1. CASE UNCHANGED vars
  BY <1>1
<1>2. ASSUME NEW k \in Call, Send(k)
      PROVE  req' = req /\ UNCHANGED <<tasks, todo, at, snap>> /\ Goto(k, "done")
  BY <1>2 DEF Send
<1>3. ASSUME NEW k \in Call, Delete(k) \/ Restore(k)
      PROVE  /\ req' = req /\ UNCHANGED <<tasks, todo, at, snap>> /\ Goto(k, "done")
             /\ UNCHANGED <<read, before>>
             /\ \/ UNCHANGED last
                \/ \E i \in DOMAIN rows : SetDeleted(k, i, TRUE) \/ SetDeleted(k, i, FALSE)
  BY <1>3 DEF Delete, Restore, Named, SetDeleted
<1>4. ASSUME NEW k \in Call, Resolve(k) \/ ReadLast(k) \/ ForgetRead(k)
      PROVE  req' = req /\ UNCHANGED <<read, before>> /\ UNCHANGED last
  BY <1>4 DEF Resolve, ReadLast, ForgetRead
<1>5. ASSUME NEW k \in Call, MarkAsRead(k)
      PROVE  req' = req /\ UNCHANGED last
  BY <1>5 DEF MarkAsRead
<1>6. ASSUME NEW k \in Call, Forget(k)
      PROVE  req' = req /\ UNCHANGED last /\ UNCHANGED <<tasks, todo, at, snap>> /\ Goto(k, "done")
  BY <1>6 DEF Forget
<1>7. ASSUME NEW k \in Call, Crash(k)
      PROVE  /\ req' = req /\ UNCHANGED <<read, before, last>>
             /\ UNCHANGED <<tasks, todo, at, snap>> /\ Goto(k, "done")
  BY <1>7 DEF Crash
<1>8. ASSUME NEW j \in jobs, Count(j) \/ Push(j) \/ BroadcastMarkAsRead(j)
      PROVE  req' = req /\ UNCHANGED <<read, before, last, pc, tasks, todo, at, snap>>
  BY <1>8 DEF Count, Push, BroadcastMarkAsRead
<1>9. ASSUME NEW d \in due, PushReceipt(d)
      PROVE  req' = req /\ UNCHANGED <<read, before, last, pc, tasks, todo, at, snap>>
  BY <1>9 DEF PushReceipt
<1> QED
  <2>1. CASE \E k \in Call : \/ Send(k) \/ Delete(k) \/ Restore(k)
                           \/ Resolve(k) \/ ReadLast(k) \/ MarkAsRead(k)
                           \/ ForgetRead(k) \/ Forget(k) \/ Crash(k)
    <3>1. PICK k \in Call : \/ Send(k) \/ Delete(k) \/ Restore(k)
                           \/ Resolve(k) \/ ReadLast(k) \/ MarkAsRead(k)
                           \/ ForgetRead(k) \/ Forget(k) \/ Crash(k)
      BY <2>1
    <3>2. CASE Send(k)
      BY <1>2, <3>2
    <3>3. CASE Delete(k) \/ Restore(k)
      BY <1>3, <3>3
    <3>4. CASE Resolve(k) \/ ReadLast(k) \/ ForgetRead(k)
      <4>1. req' = req /\ UNCHANGED <<read, before>> /\ UNCHANGED last
        BY <1>4, <3>4
      <4>2. \E l \in Call : \/ Resolve(l) \/ ReadLast(l) \/ MarkAsRead(l) \/ ForgetRead(l)
                            \/ UNCHANGED <<tasks, todo, at, snap>> /\ Goto(l, "done")
        BY <3>4, Zenon
      <4> QED
        BY <4>1, <4>2, Zenon
    <3>5. CASE MarkAsRead(k)
      <4>1. req' = req /\ UNCHANGED last
        BY <1>5, <3>5
      <4>2. \E l \in Call : Send(l) \/ MarkAsRead(l) \/ Forget(l)
        BY <3>5
      <4>3. \E l \in Call : \/ Resolve(l) \/ ReadLast(l) \/ MarkAsRead(l) \/ ForgetRead(l)
                            \/ UNCHANGED <<tasks, todo, at, snap>> /\ Goto(l, "done")
        BY <3>5
      <4> QED
        BY <4>1, <4>2, <4>3, Zenon
    <3>6. CASE Forget(k)
      BY <1>6, <3>6
    <3>7. CASE Crash(k)
      BY <1>7, <3>7
    <3> QED
      BY <3>1, <3>2, <3>3, <3>4, <3>5, <3>6, <3>7
  <2>2. CASE \E j \in jobs : Count(j) \/ Push(j) \/ BroadcastMarkAsRead(j)
    BY <1>8, <2>2
  <2>3. CASE \E d \in due : PushReceipt(d)
    BY <1>9, <2>3
  <2> QED
    BY <1>1, <2>1, <2>2, <2>3, Zenon DEF Next

\* A task's UPDATE writes what is not beyond the messages, and only forward.
LEMMA MarkFacts ==
  ASSUME TypeOK, MarksInv, NEW k \in Call, pc[k] = "capped"
  PROVE  /\ at[k] \in Task /\ at[k] \in tasks[k] /\ at[k].chat \in Chat /\ at[k].lid \in Nat
         /\ Capped(k) \in Nat /\ Capped(k) <= at[k].lid /\ Capped(k) <= Top(at[k].chat)
<1>1. at[k] \in tasks[k] /\ tasks[k] \in SUBSET Task
  BY DEF MarksInv, Writing, TypeOK
<1>2. at[k] \in Task /\ at[k].lid <= Top(at[k].chat)
  BY <1>1 DEF MarksInv, Bounded
<1>3. at[k].chat \in Chat /\ at[k].lid \in Nat /\ snap[k] \in Nat
  BY <1>2 DEF Task, TypeOK
<1>4. Top(at[k].chat) \in Nat
  BY TopFacts
<1> QED
  BY <1>1, <1>2, <1>3, <1>4 DEF Capped

LEMMA MarkAsReadFacts ==
  ASSUME TypeOK, MarksInv, NEW k \in Call, MarkAsRead(k), NEW c \in Chat, NEW u \in User
  PROVE  /\ UNCHANGED <<rows, before>>
         /\ read[c][u] \in Nat
         /\ \/ read'[c][u] = read[c][u]
            \/ /\ c = at[k].chat /\ u = req[k].by /\ read'[c][u] = Capped(k)
               /\ read[c][u] < Capped(k)
         /\ \/ faults' # faults
            \/ c = at[k].chat /\ u = req[k].by => read'[c][u] >= Capped(k)
<1> DEFINE d == at[k].chat
           w == req[k].by
           n == IF read[d][w] < Capped(k) THEN Capped(k) ELSE read[d][w]
<1>1. d \in Chat /\ w \in User /\ Capped(k) \in Nat
  BY MarkFacts, RequestTyped DEF MarkAsRead
<1>2. read \in [Chat -> [User -> Nat]] /\ read[d][w] \in Nat /\ read[c][u] \in Nat
  BY <1>1 DEF TypeOK
<1>3. n \in Nat
  BY <1>1, <1>2
<1>4. \/ read' = [read EXCEPT ![d][w] = n]
      \/ read' = read /\ faults' = faults + 1
  BY DEF MarkAsRead, Fault
<1>5. \A e \in Chat, v \in User :
        [read EXCEPT ![d][w] = n][e][v] = IF e = d /\ v = w THEN n ELSE read[e][v]
  BY <1>1, <1>2, <1>3, SetMarkType
<1>6. faults + 1 # faults
  BY ReadStateAssumption DEF TypeOK
<1>7. UNCHANGED <<rows, before>>
  BY DEF MarkAsRead
<1> QED
  BY <1>1, <1>2, <1>4, <1>5, <1>6, <1>7

LEMMA ForgetFacts ==
  ASSUME TypeOK, NEW k \in Call, Forget(k), NEW c \in Chat, NEW u \in User
  PROVE  /\ rows' = rows /\ pc[k] = "forgetting" /\ pc'[k] = "done"
         /\ \/ read'[c][u] = read[c][u] /\ before'[c][u] = before[c][u]
            \/ /\ c = req[k].chat /\ u = req[k].by /\ faults' = faults
               /\ read'[c][u] = snap[k] /\ before'[c][u] = snap[k]
<1> DEFINE d == req[k].chat
           w == req[k].by
<1>1. d \in Chat /\ w \in User /\ snap[k] \in Nat
  BY RequestTyped DEF TypeOK
<1>2. read \in [Chat -> [User -> Nat]] /\ before \in [Chat -> [User -> Nat]]
  BY DEF TypeOK
<1>3. \A e \in Chat, v \in User :
        /\ [read EXCEPT ![d][w] = snap[k]][e][v] = IF e = d /\ v = w THEN snap[k] ELSE read[e][v]
        /\ [before EXCEPT ![d][w] = snap[k]][e][v] = IF e = d /\ v = w THEN snap[k] ELSE before[e][v]
  BY <1>1, <1>2, SetMarkType
<1>4. \/ /\ read' = [read EXCEPT ![d][w] = snap[k]] /\ before' = [before EXCEPT ![d][w] = snap[k]]
         /\ faults' = faults
      \/ UNCHANGED <<read, before>>
  BY DEF Forget, Calm
<1>5. rows' = rows /\ pc[k] = "forgetting" /\ pc'[k] = "done"
  BY DEF Forget, Goto, TypeOK
<1>6. CASE UNCHANGED <<read, before>>
  BY <1>5, <1>6
<1>7. CASE /\ read' = [read EXCEPT ![d][w] = snap[k]] /\ before' = [before EXCEPT ![d][w] = snap[k]]
           /\ faults' = faults
  <2>1. /\ read'[c][u] = IF c = d /\ u = w THEN snap[k] ELSE read[c][u]
        /\ before'[c][u] = IF c = d /\ u = w THEN snap[k] ELSE before[c][u]
    BY <1>3, <1>7
  <2> QED
    BY <1>5, <1>7, <2>1
<1> QED
  BY <1>4, <1>6, <1>7

LEMMA SendFacts ==
  ASSUME TypeOK, TypeOK', NEW k \in Call, Send(k), NEW d \in Chat, d = req[k].chat,
         NEW c \in Chat, NEW u \in User
  PROVE  /\ before' = before
         /\ Top(d) + 1 \in Nat /\ Top(d) + 1 <= Top(d)'
         /\ last'[c] = IF c = d THEN Top(d) + 1 ELSE last[c]
         /\ read'[c][u] = IF c = d /\ u = req[k].by THEN Top(d) + 1 ELSE read[c][u]
<1> DEFINE w == req[k].by
           n == Top(d) + 1
<1>1. w \in User
  BY RequestTyped
<1>2. n \in Nat /\ Top(d)' \in Nat
  BY TopFacts, TopFactsNext
<1>3. /\ DOMAIN rows' = 1 .. (Len(rows) + 1)
      /\ rows'[Len(rows) + 1] = [chat |-> d, lid |-> n, from |-> w,
                                 deleted |-> FALSE, withdrawn |-> FALSE]
      /\ last' = [last EXCEPT ![d] = n]
      /\ read' = [read EXCEPT ![d][w] = n]
  BY SendRows
<1>4. n <= Top(d)'
  <2>1. Len(rows) + 1 \in DOMAIN rows'
    BY <1>3, RowsTyped
  <2>2. rows'[Len(rows) + 1].chat = d /\ rows'[Len(rows) + 1].lid = n
    BY <1>3
  <2> QED
    BY <2>1, <2>2, TopFactsNext
<1>5. \A e \in Chat, v \in User :
        [read EXCEPT ![d][w] = n][e][v] = IF e = d /\ v = w THEN n ELSE read[e][v]
  <2>1. read \in [Chat -> [User -> Nat]]
    BY DEF TypeOK
  <2> QED
    BY <1>1, <1>2, <2>1, SetMarkType
<1>6. before' = before /\ last \in [Chat -> Nat]
  BY DEF Send, TypeOK
<1>7. last'[c] = IF c = d THEN n ELSE last[c]
  BY <1>3, <1>6
<1>8. read'[c][u] = IF c = d /\ u = w THEN n ELSE read[c][u]
  BY <1>3, <1>5
<1> QED
  BY <1>2, <1>4, <1>6, <1>7, <1>8

LEMMA WritingStep ==
  ASSUME TypeOK, Writing, [Next]_vars
  PROVE  Writing'
<1>0. req' = req
  BY MarksMoved
<1>1. CASE UNCHANGED <<pc, tasks, todo, at, snap>>
  BY <1>0, <1>1 DEF Writing
<1>2. ASSUME NEW k \in Call, Resolve(k) PROVE Writing'
  BY <1>0, <1>2 DEF Resolve, Goto, Writing, TypeOK
<1>3. ASSUME NEW k \in Call, ReadLast(k) PROVE Writing'
  BY <1>0, <1>3 DEF ReadLast, Goto, Writing, TypeOK
<1>4. ASSUME NEW k \in Call, MarkAsRead(k) PROVE Writing'
  BY <1>0, <1>4 DEF MarkAsRead, Marked, Goto, Writing, TypeOK
<1>5. ASSUME NEW k \in Call, ForgetRead(k) PROVE Writing'
  BY <1>0, <1>5 DEF ForgetRead, Is, Goto, Writing, TypeOK
<1>6. ASSUME NEW k \in Call, UNCHANGED <<tasks, todo, at, snap>>, Goto(k, "done") PROVE Writing'
  BY <1>0, <1>6 DEF Goto, Writing, TypeOK
<1> QED
  BY <1>1, <1>2, <1>3, <1>4, <1>5, <1>6, MarksMoved

\* Nothing that is or may become a mark gets beyond the messages.
LEMMA BoundedStep ==
  ASSUME TypeOK, TypeOK', MarksInv, [Next]_vars
  PROVE  Bounded'
<1>1. req' = req /\ Kept
  BY MarksMoved, RowsKept
<1>2. \A c \in Chat : Top(c) \in Nat /\ Top(c)' \in Nat /\ Top(c) <= Top(c)'
  BY <1>1, TopGrows
<1>3. ASSUME NEW c \in Chat PROVE last'[c] <= Top(c)'
  <2>1. last[c] \in Nat /\ last[c] <= Top(c)
    BY DEF TypeOK, MarksInv, Bounded
  <2>2. CASE UNCHANGED last
    BY <1>2, <2>1, <2>2
  <2>3. ASSUME NEW k \in Call, Send(k) PROVE last'[c] <= Top(c)'
    <3>1. PICK u \in User, d \in Chat : d = req[k].chat
      BY RequestTyped
    <3>2. Top(d) + 1 <= Top(d)' /\ last'[c] = IF c = d THEN Top(d) + 1 ELSE last[c]
      BY <2>3, <3>1, SendFacts
    <3> QED
      BY <1>2, <2>1, <3>2
  <2>4. ASSUME NEW k \in Call, NEW i \in DOMAIN rows,
               SetDeleted(k, i, TRUE) \/ SetDeleted(k, i, FALSE)
        PROVE  last'[c] <= Top(c)'
    <3>1. PICK d \in Chat : d = req[k].chat
      BY RequestTyped
    <3>2. last' = [last EXCEPT ![d] = MaxLid(NotDeleted(d)')]
      <4>1. CASE SetDeleted(k, i, TRUE)
        BY <3>1, <4>1, SetDeletedType
      <4>2. CASE SetDeleted(k, i, FALSE)
        BY <3>1, <4>2, SetDeletedType
      <4> QED BY <2>4, <4>1, <4>2
    <3>3. NotDeleted(c)' \in SUBSET In(c)'
      BY DEF NotDeleted
    <3>4. MaxLid(NotDeleted(c)') <= Top(c)'
      BY <3>3, TopFactsNext
    <3>5. last'[c] = IF c = d THEN MaxLid(NotDeleted(d)') ELSE last[c]
      BY <3>2 DEF TypeOK
    <3>6. c = d => MaxLid(NotDeleted(d)') <= Top(c)'
      BY <3>4
    <3> QED
      BY <1>2, <2>1, <3>5, <3>6
  <2> QED
    BY <2>2, <2>3, <2>4, MarksMoved
<1>4. ASSUME NEW c \in Chat, NEW u \in User PROVE read'[c][u] <= Top(c)' /\ before'[c][u] <= Top(c)'
  <2>1. read[c][u] \in Nat /\ before[c][u] \in Nat /\ read[c][u] <= Top(c) /\ before[c][u] <= Top(c)
    BY DEF TypeOK, MarksInv, Bounded
  <2>2. CASE UNCHANGED <<read, before>>
    BY <1>2, <2>1, <2>2
  <2>3. ASSUME NEW k \in Call, Send(k) PROVE read'[c][u] <= Top(c)' /\ before'[c][u] <= Top(c)'
    <3>1. PICK d \in Chat : d = req[k].chat
      BY RequestTyped
    <3>2. /\ before' = before /\ Top(d) + 1 <= Top(d)'
          /\ read'[c][u] = IF c = d /\ u = req[k].by THEN Top(d) + 1 ELSE read[c][u]
      BY <2>3, <3>1, SendFacts
    <3> QED
      BY <1>2, <2>1, <3>2
  <2>4. ASSUME NEW k \in Call, MarkAsRead(k) PROVE read'[c][u] <= Top(c)' /\ before'[c][u] <= Top(c)'
    <3>1. Capped(k) \in Nat /\ Capped(k) <= Top(at[k].chat)
      BY <2>4, MarkFacts DEF MarkAsRead
    <3>2. before' = before /\ (read'[c][u] = read[c][u] \/ (c = at[k].chat /\ read'[c][u] = Capped(k)))
      BY <2>4, MarkAsReadFacts
    <3> QED
      BY <1>2, <2>1, <3>1, <3>2
  <2>5. ASSUME NEW k \in Call, Forget(k) PROVE read'[c][u] <= Top(c)' /\ before'[c][u] <= Top(c)'
    <3>1. pc[k] = "forgetting"
      BY <2>5 DEF Forget
    <3>2. snap[k] \in Nat /\ snap[k] <= Top(req[k].chat)
      BY <3>1 DEF TypeOK, MarksInv, Bounded
    <3>3. \/ read'[c][u] = read[c][u] /\ before'[c][u] = before[c][u]
          \/ c = req[k].chat /\ read'[c][u] = snap[k] /\ before'[c][u] = snap[k]
      BY <2>5, ForgetFacts
    <3> QED
      BY <1>2, <2>1, <3>2, <3>3
  <2> QED
    BY <2>2, <2>3, <2>4, <2>5, MarksMoved
<1>5. ASSUME NEW k \in Call
      PROVE  \A t \in tasks'[k] : t.lid <= Top(t.chat)'
  <2>1. tasks'[k] = tasks[k] \/ tasks'[k] \subseteq Requested(k) \cup Mistaken(k)
    <3>1. CASE UNCHANGED <<pc, tasks, todo, at, snap>>
      BY <3>1
    <3>2. ASSUME NEW l \in Call, Resolve(l)
          PROVE  tasks'[k] = tasks[k] \/ tasks'[k] \subseteq Requested(k) \cup Mistaken(k)
      BY <3>2 DEF Resolve, Largest, TypeOK
    <3>3. ASSUME NEW l \in Call, ReadLast(l) \/ MarkAsRead(l) \/ ForgetRead(l)
          PROVE  tasks'[k] = tasks[k]
      BY <3>3 DEF ReadLast, MarkAsRead, ForgetRead
    <3> QED
      BY <3>1, <3>2, <3>3, MarksMoved
  <2>2. ASSUME NEW t \in tasks'[k] PROVE t \in Task /\ t.lid <= Top(t.chat)
    BY <2>1, RequestedFacts DEF TypeOK, MarksInv, Bounded
  <2>3. ASSUME NEW t \in tasks'[k] PROVE t.lid <= Top(t.chat)'
    <3>1. t.chat \in Chat /\ t.lid \in Nat /\ t.lid <= Top(t.chat)
      BY <2>2 DEF Task
    <3> DEFINE d == t.chat
    <3>2. Top(d) \in Nat /\ Top(d)' \in Nat /\ Top(d) <= Top(d)'
      BY <1>2, <3>1
    <3> QED
      BY <3>1, <3>2
  <2> QED
    BY <2>3
<1>6. ASSUME NEW k \in Call, pc'[k] = "forgetting"
      PROVE  (snap[k] <= Top(req[k].chat))'
  <2>1. PICK c \in Chat : c = req[k].chat
    BY RequestTyped
  <2>2. \/ pc[k] = "forgetting" /\ snap'[k] = snap[k]
        \/ snap'[k] = Top(c)
        \/ snap'[k] = 0
    <3>1. CASE UNCHANGED <<pc, tasks, todo, at, snap>>
      BY <1>6, <3>1
    <3>2. ASSUME NEW l \in Call, Resolve(l) \/ ReadLast(l) \/ MarkAsRead(l)
          PROVE  pc[k] = "forgetting" /\ snap'[k] = snap[k]
      BY <1>6, <3>2 DEF Resolve, ReadLast, MarkAsRead, Marked, Goto, TypeOK
    <3>3. ASSUME NEW l \in Call, ForgetRead(l)
          PROVE  IF k = l THEN snap'[k] = Top(c) \/ snap'[k] = 0
                 ELSE pc[k] = "forgetting" /\ snap'[k] = snap[k]
      BY <1>6, <2>1, <3>3 DEF ForgetRead, Goto, TypeOK, Top
    <3>4. ASSUME NEW l \in Call, UNCHANGED <<tasks, todo, at, snap>>, Goto(l, "done")
          PROVE  pc[k] = "forgetting" /\ snap'[k] = snap[k]
      BY <1>6, <3>4 DEF Goto, TypeOK
    <3> QED
      BY <3>1, <3>2, <3>3, <3>4, MarksMoved
  <2>3. snap[k] \in Nat /\ (pc[k] = "forgetting" => snap[k] <= Top(c))
    BY <2>1 DEF TypeOK, MarksInv, Bounded
  <2>4. snap'[k] <= Top(c)'
    BY <1>2, <2>2, <2>3
  <2> QED
    BY <1>1, <2>1, <2>4
<1> QED
  BY <1>3, <1>4, <1>5, <1>6 DEF Bounded

LEMMA MarksInitial ==
  ASSUME Init, TypeOK PROVE MarksInv
<1>1. Writing
  BY DEF Init, Writing
<1>2. ASSUME NEW c \in Chat PROVE last[c] <= Top(c) /\ Top(c) \in Nat
  <2>1. NotDeleted(c) \in SUBSET In(c)
    BY DEF NotDeleted
  <2>2. MaxLid(NotDeleted(c)) <= Top(c) /\ Top(c) \in Nat
    BY <2>1, TopFacts
  <2> QED
    BY <2>2 DEF Init
<1>3. Bounded
  BY <1>2 DEF Init, Bounded
<1> QED
  BY <1>1, <1>3 DEF MarksInv

\* Marks stay within the messages, whatever is deleted, forgotten or marked.
THEOREM MarksInvariant == Spec => []MarksInv
<1>1. Init /\ TypeOK => MarksInv
  BY MarksInitial
<1>2. TypeOK /\ TypeOK' /\ MarksInv /\ [Next]_vars => MarksInv'
  BY WritingStep, BoundedStep DEF MarksInv
<1> QED
  BY <1>1, <1>2, TypeCorrect, PTL DEF Spec

\* No message is born read, whoever marks, deletes or forgets around it: the
\* local id it gets is beyond every mark and beyond every mark in hand.
THEOREM NoMessageIsBornRead == Spec => BornUnread
<1> DEFINE Born == \A i \in DOMAIN rows' \ DOMAIN rows :
                     \A u \in Members[rows'[i].chat] \ {rows'[i].from} :
                       /\ read'[rows'[i].chat][u] < rows'[i].lid
                       /\ before'[rows'[i].chat][u] < rows'[i].lid
<1>1. TypeOK /\ TypeOK' /\ MarksInv /\ [Next]_vars => [Born]_vars
  <2> SUFFICES ASSUME TypeOK, TypeOK', MarksInv, [Next]_vars,
                      NEW i \in DOMAIN rows', i \notin DOMAIN rows,
                      NEW u \in Members[rows'[i].chat], u # rows'[i].from
               PROVE  /\ read'[rows'[i].chat][u] < rows'[i].lid
                      /\ before'[rows'[i].chat][u] < rows'[i].lid
    OBVIOUS
  <2>1. PICK k \in Call : Send(k)
    <3>1. CASE rows' = rows
      BY <3>1
    <3>2. ASSUME NEW k \in Call, NEW j \in DOMAIN rows, SetDeleted(k, j, TRUE) \/ SetDeleted(k, j, FALSE)
          PROVE  DOMAIN rows' = DOMAIN rows
      BY <3>2 DEF SetDeleted
    <3> QED
      BY <3>1, <3>2, RowsKept
  <2>2. PICK d \in Chat : d = req[k].chat
    BY RequestTyped
  <2>3. /\ DOMAIN rows' = 1 .. (Len(rows) + 1)
        /\ rows'[Len(rows) + 1] = [chat |-> d, lid |-> Top(d) + 1, from |-> req[k].by,
                                   deleted |-> FALSE, withdrawn |-> FALSE]
    BY <2>1, <2>2, SendRows
  <2>4. i = Len(rows) + 1
    BY <2>3, RowsTyped
  <2>5. rows'[i].chat = d /\ rows'[i].lid = Top(d) + 1 /\ rows'[i].from = req[k].by
    BY <2>3, <2>4
  <2>6. u \in User
    BY <2>5, ReadStateAssumption
  <2>7. read'[d][u] = read[d][u] /\ before'[d][u] = before[d][u]
    BY <2>1, <2>2, <2>5, <2>6, SendFacts
  <2>8. /\ read[d][u] \in Nat /\ before[d][u] \in Nat /\ Top(d) \in Nat
        /\ read[d][u] <= Top(d) /\ before[d][u] <= Top(d)
    <3>1. Top(d) \in Nat
      BY TopFacts
    <3>2. read[d][u] \in Nat /\ before[d][u] \in Nat
      BY <2>6 DEF TypeOK
    <3>3. read[d][u] <= Top(d) /\ before[d][u] <= Top(d)
      BY <2>6 DEF MarksInv, Bounded
    <3> QED
      BY <3>1, <3>2, <3>3
  <2>9. read'[d][u] < Top(d) + 1 /\ before'[d][u] < Top(d) + 1
    BY <2>7, <2>8
  <2> QED
    BY <2>5, <2>9
<1>2. Spec => [][Born]_vars
  BY <1>1, TypeCorrect, MarksInvariant, PTL DEF Spec
<1> QED
  BY <1>2 DEF BornUnread

\* What has been read stays read, but for a deletion of the conversation that
\* had looked for the highest local id before a newer message was read: every
\* other writer of the mark only moves it forward, the message sent included.
THEOREM MarksOnlyFallByDeletion == Spec => ReadStaysRead
<1> DEFINE Stays ==
      \A c \in Chat, u \in User :
        read'[c][u] < read[c][u]
          => \E k \in Call : /\ pc[k] = "forgetting" /\ pc'[k] = "done"
                             /\ req[k].by = u /\ req[k].chat = c
                             /\ snap[k] < MaxLid(In(c))
<1>1. TypeOK /\ TypeOK' /\ MarksInv /\ [Next]_vars => [Stays]_vars
  <2> SUFFICES ASSUME TypeOK, TypeOK', MarksInv, [Next]_vars,
                      NEW c \in Chat, NEW u \in User, read'[c][u] < read[c][u]
               PROVE  \E k \in Call : /\ pc[k] = "forgetting" /\ pc'[k] = "done"
                                      /\ req[k].by = u /\ req[k].chat = c
                                      /\ snap[k] < MaxLid(In(c))
    OBVIOUS
  <2>1. read[c][u] \in Nat /\ Top(c) \in Nat /\ read[c][u] <= Top(c) /\ Top(c) = MaxLid(In(c))
    BY TopFacts DEF TypeOK, MarksInv, Bounded, Top
  <2>2. PICK k \in Call : Send(k) \/ MarkAsRead(k) \/ Forget(k)
    <3>1. UNCHANGED <<read, before>> \/ \E k \in Call : Send(k) \/ MarkAsRead(k) \/ Forget(k)
      BY MarksMoved
    <3>2. ~ UNCHANGED <<read, before>>
      BY <2>1
    <3> QED
      BY <3>1, <3>2
  <2>3. ~ Send(k)
    <3> SUFFICES ASSUME Send(k) PROVE FALSE
      OBVIOUS
    <3>1. PICK d \in Chat : d = req[k].chat
      BY RequestTyped
    <3>2. read'[c][u] = IF c = d /\ u = req[k].by THEN Top(d) + 1 ELSE read[c][u]
      BY <3>1, SendFacts
    <3> QED
      BY <2>1, <3>2
  <2>4. ~ MarkAsRead(k)
    <3> SUFFICES ASSUME MarkAsRead(k) PROVE FALSE
      OBVIOUS
    <3>1. Capped(k) \in Nat
      BY MarkFacts DEF MarkAsRead
    <3>2. read'[c][u] = read[c][u] \/ (read'[c][u] = Capped(k) /\ read[c][u] < Capped(k))
      BY MarkAsReadFacts
    <3> QED
      BY <2>1, <3>1, <3>2
  <2>5. /\ pc[k] = "forgetting" /\ pc'[k] = "done"
        /\ req[k].chat = c /\ req[k].by = u /\ read'[c][u] = snap[k]
    BY <2>1, <2>2, <2>3, <2>4, ForgetFacts
  <2>6. snap[k] \in Nat
    BY DEF TypeOK
  <2> QED
    BY <2>1, <2>5, <2>6
<1>2. Spec => [][Stays]_vars
  BY <1>1, TypeCorrect, MarksInvariant, PTL DEF Spec
<1> QED
  BY <1>2 DEF ReadStaysRead

-----------------------------------------------------------------------------
(* Receipts.                                                               *)

\* A new message lies beyond all the others of its conversation.
LEMMA NewRows ==
  ASSUME TypeOK, [Next]_vars, NEW i \in DOMAIN rows', i \notin DOMAIN rows
  PROVE  \E k \in Call, d \in Chat :
           /\ Send(k) /\ d = req[k].chat
           /\ rows'[i].chat = d /\ rows'[i].lid = Top(d) + 1 /\ rows'[i].from = req[k].by
           /\ rows'[i].deleted = FALSE
<1>1. PICK k \in Call : Send(k)
  <2>1. CASE rows' = rows
    BY <2>1
  <2>2. ASSUME NEW k \in Call, NEW j \in DOMAIN rows, SetDeleted(k, j, TRUE) \/ SetDeleted(k, j, FALSE)
        PROVE  DOMAIN rows' = DOMAIN rows
    BY <2>2 DEF SetDeleted
  <2> QED
    BY <2>1, <2>2, RowsKept
<1>2. PICK d \in Chat : d = req[k].chat
  BY RequestTyped
<1>3. /\ DOMAIN rows' = 1 .. (Len(rows) + 1)
      /\ rows'[Len(rows) + 1] = [chat |-> d, lid |-> Top(d) + 1, from |-> req[k].by,
                                 deleted |-> FALSE, withdrawn |-> FALSE]
  BY <1>1, <1>2, SendRows
<1>4. i = Len(rows) + 1
  BY <1>3, RowsTyped
<1> QED
  BY <1>1, <1>2, <1>3, <1>4

\* A message that is there after a step and lies within was there before.
LEMMA OldRows ==
  ASSUME TypeOK, [Next]_vars, NEW c \in Chat, NEW q \in In(c)', q.lid <= Top(c)
  PROVE  \E r \in In(c) : r.lid = q.lid /\ (r.withdrawn => q.withdrawn)
<1>1. PICK i \in DOMAIN rows' : q = rows'[i] /\ rows'[i].chat = c
  BY DEF In, Rows
<1>2. i \in DOMAIN rows
  <2> SUFFICES ASSUME i \notin DOMAIN rows PROVE FALSE
    OBVIOUS
  <2>1. q.lid = Top(c) + 1 /\ Top(c) \in Nat
    BY <1>1, NewRows, TopFacts
  <2> QED
    BY <2>1
<1>3. /\ rows[i].chat = c /\ rows[i].lid = q.lid
      /\ rows[i].withdrawn => q.withdrawn
  BY <1>1, <1>2, RowsKept DEF Kept
<1> QED
  BY <1>2, <1>3 DEF In, Rows

\* A call that is done stays done.
LEMMA DoneStaysDone ==
  ASSUME TypeOK, [Next]_vars, NEW k \in Call, pc[k] = "done"
  PROVE  pc'[k] = "done"
<1>1. ASSUME NEW l \in Call, Resolve(l) \/ ReadLast(l) \/ MarkAsRead(l) \/ ForgetRead(l)
      PROVE  pc'[k] = "done"
  <2>1. l # k /\ \E p : Goto(l, p)
    BY <1>1 DEF Resolve, ReadLast, MarkAsRead, Marked, ForgetRead, Is
  <2> QED
    BY <2>1 DEF Goto, TypeOK
<1>2. ASSUME NEW l \in Call, Goto(l, "done")
      PROVE  pc'[k] = "done"
  BY <1>2 DEF Goto, TypeOK
<1> QED
  BY <1>1, <1>2, MarksMoved

\* What is covered stays covered.
LEMMA CoveredStays ==
  ASSUME TypeOK, TypeOK', MarksInv, [Next]_vars,
         NEW c \in Chat, NEW u \in User, NEW e \in Nat, Covered(c, u, e)
  PROVE  Covered(c, u, e)'
<1>1. CASE \E r \in In(c) : r.lid = e /\ r.withdrawn
  <2>1. PICK i \in DOMAIN rows : rows[i].chat = c /\ rows[i].lid = e /\ rows[i].withdrawn
    BY <1>1 DEF In, Rows
  <2>2. i \in DOMAIN rows' /\ rows'[i].chat = c /\ rows'[i].lid = e /\ rows'[i].withdrawn
    BY <2>1, RowsKept DEF Kept
  <2>3. rows'[i] \in In(c)'
    BY <2>2 DEF In, Rows
  <2> QED
    BY <2>2, <2>3 DEF Covered
<1>2. CASE Forgotten(c, u)
  BY <1>2, DoneStaysDone, MarksMoved DEF Forgotten, Covered
<1>3. CASE read[c][u] >= e
  <2>1. read[c][u] \in Nat /\ Top(c) \in Nat /\ read[c][u] <= Top(c)
    BY TopFacts DEF TypeOK, MarksInv, Bounded
  <2>2. CASE UNCHANGED <<read, before>>
    BY <1>3, <2>2 DEF Covered
  <2>3. ASSUME NEW k \in Call, Send(k) PROVE Covered(c, u, e)'
    <3>1. PICK d \in Chat : d = req[k].chat
      BY RequestTyped
    <3>2. read'[c][u] = IF c = d /\ u = req[k].by THEN Top(d) + 1 ELSE read[c][u]
      BY <2>3, <3>1, SendFacts
    <3>3. read'[c][u] >= e
      BY <1>3, <2>1, <3>2
    <3> QED
      BY <3>3 DEF Covered
  <2>4. ASSUME NEW k \in Call, MarkAsRead(k) PROVE Covered(c, u, e)'
    <3>1. Capped(k) \in Nat
      BY <2>4, MarkFacts DEF MarkAsRead
    <3>2. read'[c][u] = read[c][u] \/ (read'[c][u] = Capped(k) /\ read[c][u] < Capped(k))
      BY <2>4, MarkAsReadFacts
    <3>3. read'[c][u] >= e
      BY <1>3, <2>1, <3>1, <3>2
    <3> QED
      BY <3>3 DEF Covered
  <2>5. ASSUME NEW k \in Call, Forget(k) PROVE Covered(c, u, e)'
    <3>1. /\ pc'[k] = "done" /\ req' = req
          /\ read'[c][u] = read[c][u] \/ (c = req[k].chat /\ u = req[k].by)
      BY <2>5, ForgetFacts, MarksMoved
    <3>2. req[k].kind = "forget"
      BY <2>5 DEF Forget, MarksInv, Writing
    <3> QED
      BY <1>3, <3>1, <3>2 DEF Covered, Forgotten
  <2>6. UNCHANGED <<read, before>> \/ \E k \in Call : Send(k) \/ MarkAsRead(k) \/ Forget(k)
    BY MarksMoved
  <2> QED
    BY <2>2, <2>3, <2>4, <2>5, <2>6
<1> QED
  BY <1>1, <1>2, <1>3 DEF Covered

LEMMA TaskStays ==
  ASSUME TypeOK, TypeOK', MarksInv, [Next]_vars,
         NEW t \in Task, NEW u \in User, t.lid <= Top(t.chat), Done(t, u)
  PROVE  t.lid <= Top(t.chat)' /\ Done(t, u)'
<1>1. PICK c \in Chat, n \in Nat : c = t.chat /\ n = t.lid
  BY DEF Task
<1>2. n <= Top(c)'
  <2>1. Top(c) \in Nat /\ Top(c)' \in Nat /\ Top(c) <= Top(c)' /\ n <= Top(c)
    BY <1>1, RowsKept, TopGrows
  <2> QED
    BY <2>1
<1>3. ASSUME NEW q \in In(c)', q.lid <= n PROVE Covered(c, u, q.lid)'
  <2>1. q \in Row
    BY DEF In, Rows, TypeOK
  <2>2. q.lid \in Nat /\ Top(c) \in Nat /\ n <= Top(c)
    BY <1>1, <2>1, RowFields, TopFacts
  <2>3. PICK r \in In(c) : r.lid = q.lid
    BY <1>3, <2>2, OldRows
  <2>4. Covered(c, u, r.lid)
    BY <1>1, <1>3, <2>3 DEF Done
  <2>5. PICK e \in Nat : e = q.lid
    BY <2>2
  <2>6. Covered(c, u, e)'
    BY <2>3, <2>4, <2>5, CoveredStays
  <2> QED
    BY <2>5, <2>6
<1>4. Done(t, u)'
  BY <1>1, <1>3 DEF Done
<1> QED
  BY <1>1, <1>2, <1>4

\* Where the goroutines' tasks come from: a job that was there, or a call that
\* has written its last one.
LEMMA JobsMoved ==
  ASSUME TypeOK, [Next]_vars, NEW j \in jobs'
  PROVE  \/ j.marks = {}
         \/ \E i \in jobs : j.by = i.by /\ j.marks \subseteq i.marks
         \/ \E k \in Call : MarkAsRead(k) /\ todo[k] = {} /\ j.by = k /\ j.marks = tasks[k]
<1>1. CASE UNCHANGED jobs
  BY <1>1
<1>2. ASSUME NEW k \in Call, NEW us, j \in Counts(k, us) PROVE j.marks = {}
  BY <1>2 DEF Counts
<1>3. ASSUME NEW k \in Call, Send(k) \/ Delete(k) \/ Restore(k) \/ Forget(k)
      PROVE  j \in jobs \/ j.marks = {}
  <2>1. j \in jobs \/ \E us : j \in Counts(k, us)
    BY <1>3 DEF Send, Delete, Restore, Forget
  <2> QED
    BY <2>1, <1>2
<1>4. ASSUME NEW k \in Call, MarkAsRead(k)
      PROVE  j \in jobs \/ (todo[k] = {} /\ j.by = k /\ j.marks = tasks[k])
  BY <1>4 DEF MarkAsRead, Marked
<1>5. ASSUME NEW k \in Call, Crash(k) PROVE j \in jobs
  BY <1>5 DEF Crash
<1>6. ASSUME NEW i \in jobs, Count(i) \/ Push(i) \/ BroadcastMarkAsRead(i)
      PROVE  j \in jobs \/ (j.by = i.by /\ j.marks \subseteq i.marks)
  <2>1. i \in Job
    BY JobFields
  <2>2. CASE Count(i)
    <3>1. \A n : LET next == [i EXCEPT !.count = n] IN next.by = i.by /\ next.marks = i.marks
      BY <2>1 DEF Job
    <3>2. j \in jobs \/ \E n : j = [i EXCEPT !.count = n]
      BY <2>2 DEF Count, Instead, Without
    <3> QED
      BY <3>1, <3>2
  <2>3. CASE Push(i)
    <3>1. LET next == [i EXCEPT !.todo = Tail(@), !.count = None]
          IN  next.by = i.by /\ next.marks = i.marks
      BY <2>1 DEF Job
    <3>2. j \in jobs \/ j = [i EXCEPT !.todo = Tail(@), !.count = None]
      BY <2>3 DEF Push, Without
    <3> QED
      BY <3>1, <3>2
  <2>4. CASE BroadcastMarkAsRead(i)
    <3>1. \A s, t : LET next == [i EXCEPT !.todo = s, !.marks = @ \ {t}]
                    IN  next.by = i.by /\ next.marks \subseteq i.marks
      BY <2>1 DEF Job
    <3>2. j \in jobs \/ \E s, t : j = [i EXCEPT !.todo = s, !.marks = @ \ {t}]
      BY <2>4 DEF BroadcastMarkAsRead, Instead, Without
    <3> QED
      BY <3>1, <3>2
  <2> QED
    BY <1>6, <2>2, <2>3, <2>4
<1>7. \/ UNCHANGED jobs
      \/ \E k \in Call : Send(k) \/ Delete(k) \/ Restore(k) \/ Forget(k)
      \/ \E k \in Call : MarkAsRead(k)
      \/ \E k \in Call : Crash(k)
      \/ \E i \in jobs : Count(i) \/ Push(i) \/ BroadcastMarkAsRead(i)
  BY DEF Next, vars, events, Resolve, ReadLast, ForgetRead, PushReceipt
<1> QED
  BY <1>1, <1>3, <1>4, <1>5, <1>6, <1>7

\* A step without a fault follows a state without one.
LEMMA FaultsGrow ==
  ASSUME TypeOK, [Next]_vars, faults' = 0
  PROVE  faults = 0 /\ \A k \in Call : ~ Crash(k)
<1>1. faults \in Nat
  BY ReadStateAssumption DEF TypeOK
<1>2. faults' = faults \/ faults' = faults + 1
  BY DEF Next, vars, Calm, Fault, Send, Delete, Restore, Resolve, ReadLast, MarkAsRead,
         ForgetRead, Forget, Crash, Count, Push, BroadcastMarkAsRead, PushReceipt
<1>3. \A k \in Call : Crash(k) => faults' = faults + 1
  BY DEF Crash, Fault
<1> QED
  BY <1>1, <1>2, <1>3

LEMMA LastsStep ==
  ASSUME TypeOK, TypeOK', [Next]_vars, Lasts
  PROVE  Lasts'
<1>1. ASSUME NEW q \in Rows', q.deleted PROVE q.withdrawn
  <2>1. PICK i \in DOMAIN rows' : q = rows'[i]
    BY DEF Rows
  <2>2. CASE i \notin DOMAIN rows
    BY <1>1, <2>1, <2>2, NewRows
  <2>3. CASE i \in DOMAIN rows /\ rows'[i] = rows[i]
    BY <1>1, <2>1, <2>3 DEF Lasts, Rows
  <2>4. CASE i \in DOMAIN rows /\ rows'[i] # rows[i]
    <3>1. ~ \E k \in Call : Send(k)
      <4> SUFFICES ASSUME NEW k \in Call, Send(k) PROVE FALSE
        OBVIOUS
      <4>1. PICK d \in Chat : d = req[k].chat
        BY RequestTyped
      <4>2. rows'[i] = rows[i]
        BY <2>4, <4>1, SendRows
      <4> QED
        BY <2>4, <4>2
    <3>2. PICK k \in Call, j \in DOMAIN rows : SetDeleted(k, j, TRUE) \/ SetDeleted(k, j, FALSE)
      BY <2>4, <3>1, RowsKept
    <3>3. PICK d \in Chat : d = req[k].chat
      BY RequestTyped
    <3>4. \/ rows'[i] = [rows[i] EXCEPT !.deleted = TRUE, !.withdrawn = TRUE]
          \/ rows'[i] = [rows[i] EXCEPT !.deleted = FALSE, !.withdrawn = TRUE]
      <4>1. CASE SetDeleted(k, j, TRUE)
        BY <2>4, <3>3, <4>1, SetDeletedType
      <4>2. CASE SetDeleted(k, j, FALSE)
        BY <2>4, <3>3, <4>2, SetDeletedType
      <4> QED BY <3>2, <4>1, <4>2
    <3>5. rows[i] \in Row
      BY <2>4, RowsTyped
    <3> QED
      BY <2>1, <3>4, <3>5 DEF Row
  <2> QED
    BY <2>2, <2>3, <2>4
<1>2. ASSUME NEW c \in Chat, NEW q \in In(c)', q.lid > last'[c] PROVE q.withdrawn
  <2>1. q \in Row /\ q.lid \in Nat /\ last[c] \in Nat /\ last'[c] \in Nat
    <3>1. q \in Row
      BY DEF In, Rows, TypeOK
    <3> QED
      BY <3>1, RowFields DEF TypeOK
  <2>2. CASE last'[c] = last[c] /\ q.lid <= Top(c)
    <3>1. PICK r \in In(c) : r.lid = q.lid /\ (r.withdrawn => q.withdrawn)
      BY <2>2, OldRows
    <3> QED
      BY <1>2, <2>2, <3>1 DEF Lasts
  <2>3. CASE last'[c] = last[c] /\ ~ (q.lid <= Top(c))
    <3>1. PICK i \in DOMAIN rows' : q = rows'[i] /\ rows'[i].chat = c
      BY DEF In, Rows
    <3>2. i \notin DOMAIN rows
      <4> SUFFICES ASSUME i \in DOMAIN rows PROVE FALSE
        OBVIOUS
      <4>1. rows[i].chat = c /\ rows[i].lid = q.lid
        BY <3>1, RowsKept DEF Kept
      <4> QED
        BY <2>3, <4>1, TopFacts
    <3>3. PICK k \in Call, d \in Chat :
            Send(k) /\ d = req[k].chat /\ rows'[i].chat = d /\ rows'[i].lid = Top(d) + 1
      BY <3>2, NewRows
    <3>4. PICK u \in User : u = req[k].by
      BY RequestTyped
    <3>5. last'[c] = Top(c) + 1
      BY <3>1, <3>3, <3>4, SendFacts
    <3>6. q.lid = Top(c) + 1 /\ Top(c) \in Nat
      BY <3>1, <3>3, TopFacts
    <3> QED
      BY <1>2, <3>5, <3>6
  <2>4. ASSUME NEW k \in Call, Send(k), last'[c] # last[c] PROVE FALSE
    <3>1. PICK u \in User, d \in Chat : d = req[k].chat
      BY RequestTyped
    <3>2. last'[c] = IF c = d THEN Top(d) + 1 ELSE last[c]
      BY <2>4, <3>1, SendFacts
    <3>3. c = d /\ last'[c] = Top(c) + 1 /\ Top(c) \in Nat
      BY <2>4, <3>2, TopFacts
    <3>4. PICK i \in DOMAIN rows' : q = rows'[i] /\ rows'[i].chat = c
      BY DEF In, Rows
    <3>5. q.lid <= Top(c) + 1
      <4>1. CASE i \in DOMAIN rows
        <5>1. rows[i].chat = c /\ rows[i].lid = q.lid
          BY <3>4, <4>1, RowsKept DEF Kept
        <5>2. q.lid <= Top(c)
          BY <4>1, <5>1, TopFacts
        <5> QED
          BY <2>1, <3>3, <5>2
      <4>2. CASE i \notin DOMAIN rows
        <5>1. q.lid = Top(c) + 1
          BY <3>4, <4>2, NewRows
        <5> QED
          BY <2>1, <5>1
      <4> QED BY <4>1, <4>2
    <3> QED
      BY <1>2, <2>1, <3>3, <3>5
  <2>5. ASSUME NEW k \in Call, NEW j \in DOMAIN rows,
               SetDeleted(k, j, TRUE) \/ SetDeleted(k, j, FALSE), last'[c] # last[c]
        PROVE  q.withdrawn
    <3>1. PICK d \in Chat : d = req[k].chat
      BY RequestTyped
    <3>2. last' = [last EXCEPT ![d] = MaxLid(NotDeleted(d)')]
      <4>1. CASE SetDeleted(k, j, TRUE)
        BY <3>1, <4>1, SetDeletedType
      <4>2. CASE SetDeleted(k, j, FALSE)
        BY <3>1, <4>2, SetDeletedType
      <4> QED BY <2>5, <4>1, <4>2
    <3>3. c = d /\ last'[c] = MaxLid(NotDeleted(c)')
      BY <2>5, <3>2 DEF TypeOK
    <3>4. \A p \in NotDeleted(c)' : p.lid <= MaxLid(NotDeleted(c)')
      <4>1. rows' \in Seq(Row) /\ NotDeleted(c)' \in SUBSET {rows'[i] : i \in DOMAIN rows'}
        BY DEF TypeOK, NotDeleted, In, Rows
      <4> QED
        BY <4>1, MaxLidFacts
    <3>5. q \notin NotDeleted(c)'
      BY <1>2, <2>1, <3>3, <3>4
    <3>6. q.deleted
      BY <3>5 DEF NotDeleted
    <3>7. q \in Rows'
      BY DEF In
    <3> QED
      BY <1>1, <3>6, <3>7
  <2>6. \/ UNCHANGED last
        \/ \E k \in Call : Send(k)
        \/ \E k \in Call : \E i \in DOMAIN rows : SetDeleted(k, i, TRUE) \/ SetDeleted(k, i, FALSE)
    BY MarksMoved
  <2> QED
    BY <2>2, <2>3, <2>4, <2>5, <2>6
<1> QED
  BY <1>1, <1>2 DEF Lasts

\* When a task is written, it covers what it should: the mark is there, or the
\* cap has left out what was deleted.
LEMMA TaskWritten ==
  ASSUME TypeOK, TypeOK', MarksInv, [Next]_vars, faults' = faults,
         NEW k \in Call, MarkAsRead(k), CapsTrue
  PROVE  at[k] \in Task /\ at[k].lid <= Top(at[k].chat)' /\ Done(at[k], req[k].by)'
<1>1. pc[k] = "capped" /\ rows' = rows /\ at' = at /\ req' = req
  BY DEF MarkAsRead
<1>2. /\ at[k] \in Task /\ at[k] \in tasks[k] /\ at[k].chat \in Chat /\ at[k].lid \in Nat
      /\ Capped(k) \in Nat /\ snap[k] \in Nat /\ req[k].by \in User
  BY <1>1, MarkFacts, RequestTyped DEF TypeOK
<1>3. PICK t \in Task, c \in Chat, u \in User : t = at[k] /\ c = t.chat /\ u = req[k].by
  BY <1>2
<1>4. read'[c][u] >= Capped(k) /\ read'[c][u] \in Nat
  <2>1. c = at[k].chat /\ u = req[k].by
    BY <1>3
  <2>2. read'[c][u] >= Capped(k)
    BY <2>1, MarkAsReadFacts
  <2> QED
    BY <2>2 DEF TypeOK
<1>5. ASSUME NEW r \in In(c)', r.lid <= t.lid PROVE Covered(c, u, r.lid)'
  <2>1. r \in In(c) /\ r \in Row
    BY <1>1 DEF In, Rows, TypeOK
  <2>2. r.lid \in Nat /\ t.lid \in Nat
    BY <1>2, <1>3, <2>1, RowFields
  <2>3. CASE r.lid <= Capped(k)
    <3>1. read'[c][u] >= r.lid
      BY <1>2, <1>4, <2>2, <2>3
    <3> QED
      BY <3>1 DEF Covered
  <2>4. CASE ~ (r.lid <= Capped(k))
    <3>1. snap[k] > 0 /\ r.lid > snap[k]
      BY <1>2, <1>3, <1>5, <2>2, <2>4 DEF Capped
    <3>2. r.withdrawn
      BY <1>1, <1>3, <1>5, <2>1, <3>1 DEF CapsTrue
    <3> QED
      BY <3>2 DEF Covered
  <2> QED BY <2>3, <2>4
<1>6. t.lid <= Top(c)'
  <2>1. t.lid <= Top(c) /\ Top(c)' = Top(c)
    BY <1>1, <1>2, <1>3 DEF MarksInv, Bounded, Top, In, Rows
  <2> QED
    BY <2>1
<1>7. Done(t, u)'
  BY <1>3, <1>5 DEF Done
<1>8. Top(t.chat)' = Top(c)'
  BY <1>3
<1> QED
  BY <1>1, <1>3, <1>6, <1>7, <1>8 DEF Done, Top

LEMMA CallsDoneStep ==
  ASSUME TypeOK, TypeOK', MarksInv, [Next]_vars, faults' = faults, CallsDone, CapsTrue
  PROVE  CallsDone'
<1> SUFFICES ASSUME NEW k \in Call, pc'[k] \in {"marking", "capped"}, NEW t \in tasks'[k] \ todo'[k],
                    ~ (pc'[k] = "capped" /\ t = at'[k])
             PROVE  Done(t, req[k].by)'
  BY DEF CallsDone
<1>1. req' = req
  BY MarksMoved
<1>2. PICK u \in User : u = req[k].by
  BY RequestTyped
<1> SUFFICES Done(t, u)'
  BY <1>1, <1>2 DEF Done
<1>3. ASSUME pc[k] \in {"marking", "capped"}, t \in tasks[k] \ todo[k], ~ (pc[k] = "capped" /\ t = at[k])
      PROVE  Done(t, u)'
  <2>1. Done(t, u)
    BY <1>2, <1>3 DEF CallsDone
  <2>2. t \in Task /\ t.lid <= Top(t.chat)
    BY <1>3 DEF TypeOK, MarksInv, Bounded
  <2> QED
    BY <2>1, <2>2, TaskStays
<1>4. CASE UNCHANGED <<pc, tasks, todo, at, snap>>
  BY <1>3, <1>4
<1>5. ASSUME NEW l \in Call, l # k, \/ Resolve(l) \/ ReadLast(l) \/ MarkAsRead(l) \/ ForgetRead(l)
                                    \/ UNCHANGED <<tasks, todo, at, snap>> /\ Goto(l, "done")
      PROVE  pc'[k] = pc[k] /\ tasks'[k] = tasks[k] /\ todo'[k] = todo[k] /\ at'[k] = at[k]
  BY <1>5 DEF Resolve, ReadLast, MarkAsRead, Marked, ForgetRead, Goto, TypeOK
<1>6. CASE Resolve(k)
  BY <1>6 DEF Resolve, TypeOK
<1>7. CASE ReadLast(k)
  <2>1. pc[k] = "marking" /\ pc'[k] = "capped" /\ tasks' = tasks /\ at' = [at EXCEPT ![k] = at'[k]]
        /\ todo'[k] = todo[k] \ {at'[k]}
    BY <1>7 DEF ReadLast, Goto, TypeOK
  <2> QED
    BY <1>3, <2>1
<1>8. CASE MarkAsRead(k)
  <2>1. pc[k] = "capped" /\ tasks' = tasks /\ todo' = todo
    BY <1>8 DEF MarkAsRead
  <2>2. CASE t = at[k]
    <3>1. Done(at[k], req[k].by)'
      BY <1>8, TaskWritten
    <3>2. at' = at
      BY <1>8 DEF MarkAsRead
    <3> QED
      BY <1>1, <1>2, <2>2, <3>1, <3>2 DEF Done
  <2> QED
    BY <1>3, <2>1, <2>2
<1>9. CASE ForgetRead(k) \/ Goto(k, "done")
  BY <1>9 DEF ForgetRead, Goto, TypeOK
<1>10. ASSUME NEW l \in Call, \/ Resolve(l) \/ ReadLast(l) \/ MarkAsRead(l) \/ ForgetRead(l)
                              \/ UNCHANGED <<tasks, todo, at, snap>> /\ Goto(l, "done")
       PROVE  Done(t, u)'
  <2>1. CASE l # k
    BY <1>3, <1>5, <1>10, <2>1
  <2>2. CASE l = k
    BY <1>6, <1>7, <1>8, <1>9, <1>10, <2>2
  <2> QED BY <2>1, <2>2
<1> QED
  BY <1>4, <1>10, MarksMoved

LEMMA CapsTrueStep ==
  ASSUME TypeOK, TypeOK', MarksInv, [Next]_vars, CapsTrue, Lasts
  PROVE  CapsTrue'
<1> SUFFICES ASSUME NEW k \in Call, pc'[k] = "capped", NEW r \in In(at[k].chat)',
                    snap'[k] > 0, r.lid > snap'[k], r.lid <= at'[k].lid
             PROVE  r.withdrawn
  BY DEF CapsTrue
<1>1. CASE ReadLast(k)
  <2>1. PICK t \in todo[k] : at'[k] = t /\ snap'[k] = last[t.chat] /\ rows' = rows
    BY <1>1 DEF ReadLast, store, TypeOK
  <2>2. t \in Task
    BY DEF TypeOK
  <2>3. t.chat \in Chat /\ r \in In(t.chat)
    BY <2>1, <2>2 DEF In, Rows, Task
  <2> QED
    BY <2>1, <2>3 DEF Lasts
<1>2. ASSUME pc[k] = "capped", at'[k] = at[k], snap'[k] = snap[k]
      PROVE  r.withdrawn
  <2>1. PICK c \in Chat : c = at[k].chat
    BY <1>2, MarkFacts
  <2>2. at[k].lid \in Nat /\ at[k].lid <= Top(c) /\ Top(c) \in Nat
    BY <1>2, <2>1, MarkFacts, TopFacts DEF MarksInv, Bounded
  <2>3. r \in In(c)'
    BY <1>2, <2>1 DEF In
  <2>4. r \in Row
    BY <2>3 DEF In, Rows, TypeOK
  <2>5. r.lid \in Nat /\ r.lid <= at[k].lid
    BY <1>2, <2>4, RowFields
  <2>6. PICK q \in In(c) : q.lid = r.lid /\ (q.withdrawn => r.withdrawn)
    BY <2>2, <2>3, <2>5, OldRows
  <2> QED
    BY <1>2, <2>1, <2>5, <2>6 DEF CapsTrue
<1>3. CASE UNCHANGED <<pc, tasks, todo, at, snap>>
  BY <1>2, <1>3
<1>4. ASSUME NEW l \in Call, l # k, \/ Resolve(l) \/ ReadLast(l) \/ MarkAsRead(l) \/ ForgetRead(l)
                                    \/ UNCHANGED <<tasks, todo, at, snap>> /\ Goto(l, "done")
      PROVE  pc'[k] = pc[k] /\ at'[k] = at[k] /\ snap'[k] = snap[k]
  BY <1>4 DEF Resolve, ReadLast, MarkAsRead, Marked, ForgetRead, Goto, TypeOK
<1>5. ~ (Resolve(k) \/ MarkAsRead(k) \/ ForgetRead(k) \/ Goto(k, "done"))
  BY DEF Resolve, MarkAsRead, Marked, ForgetRead, Goto, TypeOK
<1>6. ASSUME NEW l \in Call, \/ Resolve(l) \/ ReadLast(l) \/ MarkAsRead(l) \/ ForgetRead(l)
                             \/ UNCHANGED <<tasks, todo, at, snap>> /\ Goto(l, "done")
      PROVE  r.withdrawn
  <2>1. CASE l # k
    BY <1>2, <1>4, <1>6, <2>1
  <2>2. CASE l = k
    BY <1>1, <1>5, <1>6, <2>2
  <2> QED BY <2>1, <2>2
<1> QED
  BY <1>3, <1>6, MarksMoved

LEMMA JobsDoneStep ==
  ASSUME TypeOK, TypeOK', MarksInv, [Next]_vars, faults' = faults, JobsDone, CallsDone, CapsTrue
  PROVE  JobsDone'
<1> SUFFICES ASSUME NEW j \in jobs', NEW t \in j.marks
             PROVE  t.lid <= Top(t.chat)' /\ Done(t, req[j.by].by)'
  BY DEF JobsDone
<1>1. req' = req
  BY MarksMoved
<1>2. CASE \E i \in jobs : j.by = i.by /\ j.marks \subseteq i.marks
  <2>1. PICK i \in jobs : j.by = i.by /\ j.marks \subseteq i.marks
    BY <1>2
  <2>2. PICK u \in User : u = req[j.by].by
    BY <2>1, JobFields, RequestTyped
  <2>3. t \in Task /\ t.lid <= Top(t.chat) /\ Done(t, u)
    BY <2>1, <2>2, JobFields DEF JobsDone
  <2>4. t.lid <= Top(t.chat)' /\ Done(t, u)'
    BY <2>3, TaskStays
  <2> QED
    BY <1>1, <2>2, <2>4 DEF Done
<1>3. ASSUME NEW k \in Call, MarkAsRead(k), todo[k] = {}, j.by = k, j.marks = tasks[k]
      PROVE  t.lid <= Top(t.chat)' /\ Done(t, req[j.by].by)'
  <2>1. PICK u \in User : u = req[k].by
    BY RequestTyped
  <2>2. pc[k] = "capped"
    BY <1>3 DEF MarkAsRead
  <2>3. CASE t = at[k]
    <3>1. at[k].lid <= Top(at[k].chat)' /\ Done(at[k], req[k].by)' /\ at' = at
      BY <1>3, TaskWritten DEF MarkAsRead
    <3> QED
      BY <1>3, <2>3, <3>1 DEF Done, Top, In
  <2>4. CASE t # at[k]
    <3>1. t \in Task /\ t.lid <= Top(t.chat) /\ Done(t, u)
      BY <1>3, <2>1, <2>2, <2>4 DEF TypeOK, MarksInv, Bounded, CallsDone
    <3>2. t.lid <= Top(t.chat)' /\ Done(t, u)'
      BY <3>1, TaskStays
    <3> QED
      BY <1>1, <1>3, <2>1, <3>2 DEF Done
  <2> QED BY <2>3, <2>4
<1> QED
  BY <1>2, <1>3, JobsMoved

\* A receipt names a message that the task it comes from covers.
LEMMA BroadcastCovers ==
  ASSUME TypeOK, JobsDone, NEW j \in jobs, BroadcastMarkAsRead(j), NEW d \in due', d \notin due
  PROVE  d \in Receipt /\ Covered(d.chat, d.reader, d.lid)
<1> DEFINE u == req[j.by].by
           Upto(t) == {r \in In(t.chat) : r.from # u /\ r.lid <= t.lid}
<1>1. PICK t \in j.marks, m \in User :
        /\ MaxLid(Upto(t)) # 0
        /\ d = [chat |-> t.chat, reader |-> u, lid |-> MaxLid(Upto(t)), to |-> m]
  <2>1. PICK t \in j.marks :
          due' = due \cup {[chat |-> t.chat, reader |-> u, lid |-> MaxLid(Upto(t)), to |-> m] :
                            m \in IF MaxLid(Upto(t)) = 0 THEN {} ELSE Told(t.chat, u)}
    BY DEF BroadcastMarkAsRead
  <2> HIDE DEF Upto
  <2>2. PICK m \in Told(t.chat, u) :
          /\ MaxLid(Upto(t)) # 0
          /\ d = [chat |-> t.chat, reader |-> u, lid |-> MaxLid(Upto(t)), to |-> m]
    BY <2>1
  <2>3. t.chat \in Chat
    BY JobFields DEF Task
  <2>4. m \in User
    BY <2>3, ReadStateAssumption DEF Told
  <2> QED
    BY <2>2, <2>4
<1>2. u \in User /\ t.chat \in Chat
  BY JobFields, RequestTyped DEF Task
<1>3. Upto(t) \in SUBSET Rows
  BY DEF In
<1>4. MaxLid(Upto(t)) \in Nat /\ \E r \in Upto(t) : r.lid = MaxLid(Upto(t))
  BY <1>1, <1>3, MaxLidOfRows
<1>5. PICK r \in In(t.chat) : r.lid <= t.lid /\ r.lid = MaxLid(Upto(t))
  BY <1>4
<1>6. Covered(t.chat, u, r.lid)
  BY <1>5 DEF JobsDone, Done
<1> HIDE DEF Upto, u
<1>7. d.chat = t.chat /\ d.reader = u /\ d.lid = r.lid
  BY <1>1, <1>5
<1>8. d \in Receipt
  BY <1>1, <1>2, <1>4 DEF Receipt
<1> QED
  BY <1>6, <1>7, <1>8

LEMMA ReceiptsCoveredStep ==
  ASSUME TypeOK, TypeOK', MarksInv, [Next]_vars, faults' = faults, ReceiptsCovered, JobsDone
  PROVE  ReceiptsCovered'
<1> SUFFICES ASSUME NEW d \in (receipts \cup due)' PROVE Covered(d.chat, d.reader, d.lid)'
  BY DEF ReceiptsCovered
<1>1. d \in receipts \cup due \/ \E j \in jobs : BroadcastMarkAsRead(j) /\ d \in due' /\ d \notin due
  BY DEF Next, vars, store, calls, events, Send, Delete, Restore, Resolve, ReadLast, MarkAsRead,
         ForgetRead, Forget, Crash, Count, Push, BroadcastMarkAsRead, PushReceipt
<1>2. d \in Receipt /\ Covered(d.chat, d.reader, d.lid)
  <2>1. CASE d \in receipts \cup due
    BY <2>1 DEF TypeOK, ReceiptsCovered
  <2>2. CASE \E j \in jobs : BroadcastMarkAsRead(j) /\ d \in due' /\ d \notin due
    BY <2>2, BroadcastCovers
  <2> QED
    BY <1>1, <2>1, <2>2
<1>3. PICK c \in Chat, u \in User, n \in Nat : d.chat = c /\ d.reader = u /\ d.lid = n
  BY <1>2 DEF Receipt
<1>4. Covered(c, u, n)'
  BY <1>2, <1>3, CoveredStays
<1> QED
  BY <1>3, <1>4

LEMMA ReceiptsInitial ==
  ASSUME Init, TypeOK PROVE ReceiptsInv
<1>1. ReceiptsCovered /\ JobsDone /\ CallsDone /\ CapsTrue
  BY DEF Init, ReceiptsCovered, JobsDone, CallsDone, CapsTrue
<1>2. \A r \in Rows : r.deleted => r.withdrawn
  BY ReadStateAssumption DEF Init, Rows
<1>3. ASSUME NEW c \in Chat, NEW r \in In(c), r.lid > last[c] PROVE r.withdrawn
  <2>1. last[c] = MaxLid(NotDeleted(c)) /\ NotDeleted(c) \in SUBSET Rows
    BY DEF Init, NotDeleted, In
  <2>2. last[c] \in Nat /\ \A q \in NotDeleted(c) : q.lid <= last[c]
    BY <2>1, MaxLidOfRows
  <2>3. r \in Rows
    BY DEF In
  <2>4. r.lid \in Nat
    BY <2>3, RowsTyped, RowFields
  <2>5. r \notin NotDeleted(c)
    BY <1>3, <2>2, <2>4
  <2> QED
    BY <1>2, <2>3, <2>5 DEF NotDeleted
<1> QED
  BY <1>1, <1>2, <1>3 DEF ReceiptsInv, Lasts

\* A receipt names a message that the reader's mark covers, but for messages
\* that were deleted and conversations that the reader has deleted: for any
\* users, conversations, messages, calls and requests, when nothing fails.
\* Between the UPDATEs and the receipt, the tasks carry the claim: each one
\* written covers all the messages up to its own.
THEOREM ReceiptsTellTheTruth == Spec => []ReceiptsAreTrue
<1>1. Init /\ TypeOK => ReceiptsInv
  BY ReceiptsInitial
<1>2. TypeOK /\ TypeOK' /\ MarksInv /\ ReceiptsInv /\ [Next]_vars => ReceiptsInv'
  <2> SUFFICES ASSUME TypeOK, TypeOK', MarksInv, ReceiptsInv, [Next]_vars, faults' = 0
               PROVE  ReceiptsCovered' /\ JobsDone' /\ CallsDone' /\ CapsTrue' /\ Lasts'
    BY DEF ReceiptsInv
  <2>1. faults = 0
    BY FaultsGrow
  <2>2. ReceiptsCovered /\ JobsDone /\ CallsDone /\ CapsTrue /\ Lasts /\ faults' = faults
    BY <2>1 DEF ReceiptsInv
  <2> QED
    BY <2>2, ReceiptsCoveredStep, JobsDoneStep, CallsDoneStep, CapsTrueStep, LastsStep
<1>3. ReceiptsInv => ReceiptsAreTrue
  BY DEF ReceiptsInv, ReceiptsCovered, Covered, ReceiptsAreTrue
<1> QED
  BY <1>1, <1>2, <1>3, TypeCorrect, MarksInvariant, PTL DEF Spec

-----------------------------------------------------------------------------
(* The counter.                                                            *)

\* A user's count depends on the conversations he is in.
LEMMA CountSame ==
  ASSUME NEW u \in User,
         \A c \in Chat : u \in Members[c] => /\ In(c)' = In(c)
                                           /\ read'[c][u] = read[c][u]
                                           /\ before'[c][u] = before[c][u]
  PROVE  CountUnreadConversations(u)' = CountUnreadConversations(u)
<1>1. \A c \in Chat : u \in Members[c] => (Unread(u, c)' <=> Unread(u, c))
  BY DEF Unread
<1> DEFINE before_ == {c \in Chat : u \in Members[c] /\ Unread(u, c)}
           after == {c \in Chat : u \in Members[c] /\ Unread(u, c)'}
<1>2. after = before_
  BY <1>1
<1> HIDE DEF before_, after
<1>3. Cardinality(after) = Cardinality(before_)
  BY <1>2
<1> QED
  BY <1>3 DEF after, before_, CountUnreadConversations

\* Nothing about u happens: he is as right as he was.
LEMMA Unaffected ==
  ASSUME NEW u \in User, Pending(u) \/ Fresh(u), req' = req,
         CountUnreadConversations(u)' = CountUnreadConversations(u), counter'[u] = counter[u],
         \A j : Holds(j, u) => (j \in jobs' <=> j \in jobs),
         \A j \in jobs : Awaits(j, u) => \E i \in jobs' : Awaits(i, u),
         \A k \in Call : pc[k] \in {"marking", "capped"} /\ tasks[k] # {} /\ req[k].by = u
           => pc'[k] \in {"marking", "capped"} /\ tasks'[k] # {}
  PROVE  Pending(u)' \/ Fresh(u)'
<1>1. ASSUME Pending(u) PROVE Pending(u)'
  <2>1. CASE \E j \in jobs : Awaits(j, u)
    <3>1. \E i \in jobs' : Awaits(i, u)
      BY <2>1
    <3>2. \E i \in jobs' : Awaits(i, u)'
      BY <3>1 DEF Awaits
    <3> QED
      BY <3>2 DEF Pending
  <2>2. CASE \E k \in Call : pc[k] \in {"marking", "capped"} /\ tasks[k] # {} /\ req[k].by = u
    BY <2>2 DEF Pending
  <2> QED
    BY <1>1, <2>1, <2>2 DEF Pending
<1>2. ASSUME Fresh(u) PROVE Fresh(u)'
  BY <1>2 DEF Fresh
<1> QED
  BY <1>1, <1>2

\* A new goroutine holds no count yet.
LEMMA CountsFacts ==
  ASSUME NEW k \in Call, NEW us, NEW j \in Counts(k, us)
  PROVE  /\ \A u : ~ Holds(j, u)
         /\ \A u : (\E i \in DOMAIN us : us[i] = u) => Awaits(j, u)
         /\ j.todo = us /\ j.count = None
  BY DEF Counts, Holds, Awaits

\* New goroutines, for whom a count has changed.
LEMMA JobAdded ==
  ASSUME TypeOK, NEW k \in Call, NEW us, us # << >>, jobs' = jobs \cup Counts(k, us), HoldersApart,
         req' = req, crossed' = crossed, counter' = counter, tasks' = tasks,
         \A l \in Call : pc[l] \in {"marking", "capped"} => pc'[l] = pc[l],
         NEW u \in User, Pending(u) \/ Fresh(u) \/ \E i \in DOMAIN us : us[i] = u,
         \/ CountUnreadConversations(u)' = CountUnreadConversations(u)
         \/ \E i \in DOMAIN us : us[i] = u
  PROVE  Pending(u)' \/ Fresh(u)'
<1>1. CASE \E i \in DOMAIN us : us[i] = u
  <2>1. PICK j : j \in Counts(k, us)
    BY DEF Counts
  <2>2. j \in jobs' /\ Awaits(j, u)
    BY <1>1, <2>1, CountsFacts
  <2>3. Awaits(j, u)'
    BY <2>2 DEF Awaits
  <2> QED
    BY <2>2, <2>3 DEF Pending
<1>2. CASE ~ \E i \in DOMAIN us : us[i] = u
  <2>1. \A j : Holds(j, u) => (j \in jobs' <=> j \in jobs)
    BY CountsFacts
  <2>2. \A j \in jobs : Awaits(j, u) => \E i \in jobs' : Awaits(i, u)
    OBVIOUS
  <2> QED
    BY <1>2, <2>1, <2>2, Unaffected
<1> QED
  BY <1>1, <1>2

LEMMA HoldersAfterAdd ==
  ASSUME NEW k \in Call, NEW us, us # << >>, jobs' = jobs \cup Counts(k, us),
         HoldersApart, crossed' = crossed
  PROVE  HoldersApart'
<1>1. \A j \in jobs' : j.todo = << >> => j.count = None
  BY CountsFacts DEF HoldersApart
<1>2. \A j \in jobs', u \in User : Holds(j, u) => j \in jobs
  BY CountsFacts
<1> QED
  BY <1>1, <1>2 DEF HoldersApart

\* What a call does between reading and writing changes no count.
LEMMA NothingCounts ==
  ASSUME UNCHANGED <<rows, read, before, req, jobs, counter, crossed, unaware>>,
         HoldersApart, Counted,
         \A k \in Call : pc[k] \in {"marking", "capped"} /\ tasks[k] # {}
           => pc'[k] \in {"marking", "capped"} /\ tasks'[k] # {}
  PROVE  HoldersApart' /\ Counted'
<1>1. HoldersApart'
  BY DEF HoldersApart, Holds
<1>2. ASSUME NEW u \in User, u \notin crossed \cup unaware PROVE Pending(u)' \/ Fresh(u)'
  <2>1. CountUnreadConversations(u)' = CountUnreadConversations(u)
    BY CountSame DEF In, Rows
  <2>2. Pending(u) \/ Fresh(u)
    BY <1>2 DEF Counted
  <2>3. \A j \in jobs : Awaits(j, u) => \E i \in jobs' : Awaits(i, u)
    OBVIOUS
  <2> QED
    BY <2>1, <2>2, <2>3, Unaffected
<1> QED
  BY <1>1, <1>2 DEF Counted

LEMMA QuietCounts ==
  ASSUME TypeOK, HoldersApart, Counted, faults' = faults,
         \/ \E k \in Call : Resolve(k) \/ ReadLast(k) \/ ForgetRead(k)
         \/ \E d \in due : PushReceipt(d)
         \/ UNCHANGED vars
  PROVE  HoldersApart' /\ Counted'
<1>1. UNCHANGED <<rows, read, before, req, jobs, counter, crossed, unaware>>
  BY DEF Resolve, ReadLast, ForgetRead, PushReceipt, vars, store, calls, events
<1>2. \A k \in Call : pc[k] \in {"marking", "capped"} /\ tasks[k] # {}
        => pc'[k] \in {"marking", "capped"} /\ tasks'[k] # {}
  BY DEF Resolve, ReadLast, ForgetRead, PushReceipt, vars, store, calls, events, TypeOK, Is, Goto
<1> QED
  BY <1>1, <1>2, NothingCounts

\* A change of one conversation alone, for whose members goroutines count.
LEMMA ChangeIsCounted ==
  ASSUME TypeOK, HoldersApart, Counted, NEW k \in Call, NEW us, us # << >>,
         jobs' = jobs \cup Counts(k, us),
         req' = req, crossed' = crossed, counter' = counter, tasks' = tasks,
         \A l \in Call : pc[l] \in {"marking", "capped"} => pc'[l] = pc[l],
         NEW d \in Chat,
         \A u \in User : \A c \in Chat : \/ c = d /\ (u \in Members[d] => u \in unaware' \/ \E i \in DOMAIN us : us[i] = u)
                                         \/ In(c)' = In(c) /\ read'[c][u] = read[c][u] /\ before'[c][u] = before[c][u],
         unaware \subseteq unaware'
  PROVE  HoldersApart' /\ Counted'
<1>1. HoldersApart'
  BY HoldersAfterAdd
<1>2. ASSUME NEW u \in User, u \notin crossed \cup unaware' PROVE Pending(u)' \/ Fresh(u)'
  <2>1. Pending(u) \/ Fresh(u)
    BY <1>2 DEF Counted
  <2>2. CASE \E i \in DOMAIN us : us[i] = u
    BY <2>1, <2>2, JobAdded
  <2>3. CASE ~ \E i \in DOMAIN us : us[i] = u
    <3>1. \A c \in Chat : u \in Members[c] => /\ In(c)' = In(c)
                                             /\ read'[c][u] = read[c][u]
                                             /\ before'[c][u] = before[c][u]
      BY <1>2, <2>3
    <3>2. CountUnreadConversations(u)' = CountUnreadConversations(u)
      BY <3>1, CountSame
    <3> QED
      BY <2>1, <3>2, JobAdded
  <2> QED BY <2>2, <2>3
<1> QED
  BY <1>1, <1>2 DEF Counted

LEMMA OtherChats ==
  ASSUME NEW d, NEW c, c # d, DOMAIN rows \subseteq DOMAIN rows',
         \A i \in DOMAIN rows : rows'[i] = rows[i] \/ (rows[i].chat = d /\ rows'[i].chat = d),
         \A i \in DOMAIN rows' : i \notin DOMAIN rows => rows'[i].chat = d
  PROVE  In(c)' = In(c)
<1>1. ASSUME NEW r \in In(c) PROVE r \in In(c)'
  BY DEF In, Rows
<1>2. ASSUME NEW r \in In(c)' PROVE r \in In(c)
  <2>1. PICK i \in DOMAIN rows' : r = rows'[i] /\ rows'[i].chat = c
    BY DEF In, Rows
  <2>2. i \in DOMAIN rows /\ rows'[i] = rows[i]
    BY <2>1
  <2> QED
    BY <2>1, <2>2 DEF In, Rows
<1> QED
  BY <1>1, <1>2

LEMMA SendCounts ==
  ASSUME TypeOK, HoldersApart, Counted, NEW k \in Call, Send(k)
  PROVE  HoldersApart' /\ Counted'
<1>1. PICK d \in Chat, w \in User : d = req[k].chat /\ w = req[k].by
  BY RequestTyped
<1>2. PICK s \in Others(d, w) : jobs' = jobs \cup Counts(k, Append(s, w))
  BY <1>1 DEF Send
<1>3. PICK us : us = Append(s, w)
  OBVIOUS
<1>4. us # << >> /\ \A u \in Members[d] : \E i \in DOMAIN us : us[i] = u
  <2>1. /\ s \in Seq(User) /\ Len(s) \in Nat /\ DOMAIN s = 1 .. Len(s)
        /\ \A m \in Members[d] \ {w} : \E i \in DOMAIN s : s[i] = m
    BY OthersTyped
  <2>2. /\ DOMAIN us = 1 .. (Len(s) + 1) /\ us[Len(s) + 1] = w
        /\ \A i \in DOMAIN s : i \in DOMAIN us /\ us[i] = s[i]
    BY <1>3, <2>1
  <2>3. Len(s) + 1 \in DOMAIN us
    BY <2>1, <2>2
  <2>4. us # << >>
    BY <2>3
  <2>5. ASSUME NEW u \in Members[d] PROVE \E i \in DOMAIN us : us[i] = u
    <3>1. CASE u = w
      BY <2>2, <2>3, <3>1
    <3>2. CASE u # w
      BY <2>1, <2>2, <3>2
    <3> QED BY <3>1, <3>2
  <2> QED
    BY <2>4, <2>5
<1>5. /\ DOMAIN rows' = 1 .. (Len(rows) + 1)
      /\ \A i \in DOMAIN rows : rows'[i] = rows[i]
      /\ rows'[Len(rows) + 1].chat = d
      /\ read' = [read EXCEPT ![d][w] = Top(d) + 1]
  <2>1. /\ DOMAIN rows' = 1 .. (Len(rows) + 1)
        /\ \A i \in DOMAIN rows : rows'[i] = rows[i]
        /\ rows'[Len(rows) + 1] = [chat |-> d, lid |-> Top(d) + 1, from |-> w,
                                   deleted |-> FALSE, withdrawn |-> FALSE]
        /\ read' = [read EXCEPT ![d][w] = Top(d) + 1]
    BY <1>1, SendRows
  <2> QED
    BY <2>1
<1>6. ASSUME NEW c \in Chat, c # d, NEW u \in User
      PROVE  In(c)' = In(c) /\ read'[c][u] = read[c][u] /\ before'[c][u] = before[c][u]
  <2>1. Len(rows) \in Nat /\ DOMAIN rows = 1 .. Len(rows)
    BY RowsTyped
  <2>2. /\ DOMAIN rows \subseteq DOMAIN rows'
        /\ \A i \in DOMAIN rows' : i \notin DOMAIN rows => rows'[i].chat = d
    BY <1>5, <2>1
  <2>3. In(c)' = In(c)
    BY <1>5, <1>6, <2>2, OtherChats
  <2> QED
    BY <1>5, <1>6, <2>3 DEF Send, TypeOK
<1>7. /\ req' = req /\ crossed' = crossed /\ counter' = counter /\ tasks' = tasks /\ unaware' = unaware
      /\ \A l \in Call : pc[l] \in {"marking", "capped"} => pc'[l] = pc[l]
  BY DEF Send, Is, Goto, TypeOK
<1>8. jobs' = jobs \cup Counts(k, us) /\ unaware \subseteq unaware'
  BY <1>2, <1>3, <1>7
<1> QED
  BY <1>4, <1>6, <1>7, <1>8, ChangeIsCounted

\* A message deleted or restored changes its conversation alone.
LEMMA SetDeletedAlone ==
  ASSUME TypeOK, NEW k \in Call, NEW i \in Named(k), SetDeleted(k, i, TRUE) \/ SetDeleted(k, i, FALSE),
         NEW c \in Chat, c # req[k].chat, NEW u \in User
  PROVE  In(c)' = In(c) /\ read'[c][u] = read[c][u] /\ before'[c][u] = before[c][u]
<1>1. i \in DOMAIN rows /\ rows[i].chat = req[k].chat /\ rows[i] \in Row
  BY RowsTyped DEF Named
<1>3. /\ DOMAIN rows' = DOMAIN rows /\ UNCHANGED <<read, before>>
      /\ \A j \in DOMAIN rows : j # i => rows'[j] = rows[j]
      /\ rows'[i].chat = rows[i].chat
  <2>1. /\ rows \in Seq(Row) /\ UNCHANGED <<read, before>>
        /\ \/ rows' = [rows EXCEPT ![i].deleted = TRUE, ![i].withdrawn = TRUE]
           \/ rows' = [rows EXCEPT ![i].deleted = FALSE, ![i].withdrawn = TRUE]
    BY DEF SetDeleted, TypeOK
  <2> QED
    BY <1>1, <2>1 DEF Row
<1>4. \A j \in DOMAIN rows : rows'[j] = rows[j] \/ (rows[j].chat = req[k].chat /\ rows'[j].chat = req[k].chat)
  BY <1>1, <1>3
<1>5. In(c)' = In(c)
  BY <1>3, <1>4, OtherChats
<1> QED
  BY <1>3, <1>5

LEMMA DeleteCounts ==
  ASSUME TypeOK, HoldersApart, Counted, NEW k \in Call, Delete(k)
  PROVE  HoldersApart' /\ Counted'
<1>1. PICK d \in Chat, w \in User : d = req[k].chat /\ w = req[k].by
  BY RequestTyped
<1>2. /\ req' = req /\ crossed' = crossed /\ counter' = counter /\ tasks' = tasks /\ unaware' = unaware
      /\ \A l \in Call : pc[l] \in {"marking", "capped"} => pc'[l] = pc[l]
  BY DEF Delete, Is, Goto, TypeOK
<1>3. CASE UNCHANGED <<store, jobs>>
  BY <1>2, <1>3, NothingCounts DEF store
<1>4. ASSUME NEW i \in Named(k), SetDeleted(k, i, TRUE), NEW s \in Others(d, w), NEW us, us = <<w>> \o s,
             jobs' = jobs \cup Counts(k, us)
      PROVE  HoldersApart' /\ Counted'
  <2>1. us # << >> /\ \A u \in Members[d] : \E n \in DOMAIN us : us[n] = u
    <3>1. /\ s \in Seq(User) /\ Len(s) \in Nat /\ DOMAIN s = 1 .. Len(s)
          /\ \A m \in Members[d] \ {w} : \E n \in DOMAIN s : s[n] = m
      BY OthersTyped
    <3>2. /\ DOMAIN us = 1 .. (Len(s) + 1) /\ us[1] = w
          /\ \A n \in 1 .. Len(s) : us[n + 1] = s[n]
      BY <1>4, <3>1
    <3>3. 1 \in DOMAIN us /\ \A n \in DOMAIN s : n + 1 \in DOMAIN us /\ us[n + 1] = s[n]
      BY <3>1, <3>2
    <3>4. ASSUME NEW u \in Members[d] PROVE \E n \in DOMAIN us : us[n] = u
      <4>1. CASE u = w
        BY <3>2, <3>3, <4>1
      <4>2. CASE u # w
        <5>1. PICK n \in DOMAIN s : s[n] = u
          BY <3>1, <4>2
        <5> QED
          BY <3>3, <5>1
      <4> QED BY <4>1, <4>2
    <3>5. us # << >>
      BY <3>3
    <3> QED
      BY <3>4, <3>5
  <2>2. \A c \in Chat, u \in User :
          c # d => In(c)' = In(c) /\ read'[c][u] = read[c][u] /\ before'[c][u] = before[c][u]
    BY <1>1, <1>4, SetDeletedAlone
  <2>3. jobs' = jobs \cup Counts(k, us) /\ unaware \subseteq unaware'
    BY <1>2, <1>4
  <2>4. \A u \in Members[d] : \E n \in DOMAIN us : us[n] = u
    BY <2>1
  <2>5. us # << >>
    BY <2>1
  <2> QED
    BY <1>2, <2>2, <2>3, <2>4, <2>5, ChangeIsCounted
<1>5. \/ \E i \in Named(k) : /\ SetDeleted(k, i, TRUE)
                             /\ \E s \in Others(d, w) : jobs' = jobs \cup Counts(k, <<w>> \o s)
      \/ UNCHANGED <<store, jobs>>
  BY <1>1 DEF Delete
<1> QED
  BY <1>3, <1>4, <1>5

LEMMA RestoreCounts ==
  ASSUME TypeOK, HoldersApart, Counted, NEW k \in Call, Restore(k)
  PROVE  HoldersApart' /\ Counted'
<1>1. PICK d \in Chat, w \in User : d = req[k].chat /\ w = req[k].by
  BY RequestTyped
<1>2. /\ req' = req /\ crossed' = crossed /\ counter' = counter /\ tasks' = tasks
      /\ \A l \in Call : pc[l] \in {"marking", "capped"} => pc'[l] = pc[l]
  BY DEF Restore, Is, Goto, TypeOK
<1>3. CASE UNCHANGED <<store, jobs, unaware>>
  BY <1>2, <1>3, NothingCounts DEF store
<1>4. ASSUME NEW i \in Named(k), SetDeleted(k, i, FALSE), jobs' = jobs \cup Counts(k, <<w>>),
             unaware' = unaware \cup (Members[d] \ {w})
      PROVE  HoldersApart' /\ Counted'
  <2>1. <<w>> # << >> /\ 1 \in DOMAIN <<w>> /\ <<w>>[1] = w
    OBVIOUS
  <2>2. \A c \in Chat, u \in User :
          c # d => In(c)' = In(c) /\ read'[c][u] = read[c][u] /\ before'[c][u] = before[c][u]
    BY <1>1, <1>4, SetDeletedAlone
  <2>3. \A u \in Members[d] : u \in unaware' \/ \E n \in DOMAIN <<w>> : <<w>>[n] = u
    BY <1>4, <2>1
  <2> QED
    BY <1>2, <1>4, <2>1, <2>2, <2>3, ChangeIsCounted
<1> QED
  BY <1>1, <1>3, <1>4 DEF Restore

LEMMA ForgetCounts ==
  ASSUME TypeOK, HoldersApart, Counted, NEW k \in Call, Forget(k), faults' = faults
  PROVE  HoldersApart' /\ Counted'
<1>1. PICK d \in Chat, w \in User : d = req[k].chat /\ w = req[k].by
  BY RequestTyped
<1>2. /\ req' = req /\ crossed' = crossed /\ counter' = counter /\ tasks' = tasks /\ unaware' = unaware
      /\ rows' = rows /\ \A l \in Call : pc[l] \in {"marking", "capped"} => pc'[l] = pc[l]
  BY DEF Forget, Goto, TypeOK
<1>3. jobs' = jobs \cup Counts(k, <<w>>)
  <2>1. ~ Fault
    BY ReadStateAssumption DEF Fault, TypeOK
  <2> QED
    BY <1>1, <2>1 DEF Forget
<1>4. <<w>> # << >> /\ 1 \in DOMAIN <<w>> /\ <<w>>[1] = w
  OBVIOUS
<1>5. ASSUME NEW u \in User, NEW c \in Chat, ~ (c = d /\ u = w)
      PROVE  In(c)' = In(c) /\ read'[c][u] = read[c][u] /\ before'[c][u] = before[c][u]
  BY <1>1, <1>2, <1>5, ForgetFacts DEF In, Rows
<1> QED
  BY <1>2, <1>3, <1>4, <1>5, ChangeIsCounted

\* While a call marks, its user's count is awaited: the goroutine it starts
\* has his tasks.
LEMMA MarkCounts ==
  ASSUME TypeOK, MarksInv, HoldersApart, Counted, NEW k \in Call, MarkAsRead(k)
  PROVE  HoldersApart' /\ Counted'
<1>1. PICK w \in User : w = req[k].by
  BY RequestTyped
<1>0. PICK new : new = [by |-> k, todo |-> << >>, count |-> None, marks |-> tasks[k]]
  OBVIOUS
<1>2. /\ UNCHANGED <<rows, before, req, tasks, counter, crossed, unaware>> /\ pc[k] = "capped"
      /\ pc'[k] = (IF todo[k] = {} THEN "done" ELSE "marking")
      /\ \A l \in Call : l # k => pc'[l] = pc[l]
      /\ jobs' = IF todo[k] = {} THEN jobs \cup {new} ELSE jobs
  BY <1>0 DEF MarkAsRead, Marked, Goto, TypeOK
<1>3. new.todo = << >> /\ new.count = None /\ new.marks = tasks[k] /\ new.by = k /\ \A u : ~ Holds(new, u)
  BY <1>0 DEF Holds
<1>4. HoldersApart'
  <2>1. \A j \in jobs' : j.todo = << >> => j.count = None
    BY <1>2, <1>3 DEF HoldersApart
  <2>2. \A j \in jobs', u \in User : Holds(j, u) => j \in jobs
    BY <1>2, <1>3
  <2> QED
    BY <1>2, <2>1, <2>2 DEF HoldersApart
<1>5. tasks[k] # {}
  BY <1>2, MarkFacts
<1>6. Pending(w)'
  <2>1. CASE todo[k] # {}
    BY <1>1, <1>2, <1>5, <2>1 DEF Pending
  <2>2. CASE todo[k] = {}
    <3>1. new \in jobs'
      BY <1>2, <2>2
    <3>2. Awaits(new, w)'
      BY <1>1, <1>2, <1>3, <1>5 DEF Awaits
    <3> QED
      BY <3>1, <3>2 DEF Pending
  <2> QED BY <2>1, <2>2
<1>7. ASSUME NEW u \in User, u # w, Pending(u) \/ Fresh(u) PROVE Pending(u)' \/ Fresh(u)'
  <2>1. \A c \in Chat : /\ In(c)' = In(c) /\ read'[c][u] = read[c][u]
                       /\ before'[c][u] = before[c][u]
    BY <1>1, <1>2, <1>7, MarkAsReadFacts DEF In, Rows
  <2>2. CountUnreadConversations(u)' = CountUnreadConversations(u)
    BY <2>1, CountSame
  <2>3. \A j : Holds(j, u) => (j \in jobs' <=> j \in jobs)
    BY <1>2, <1>3
  <2>4. \A j \in jobs : Awaits(j, u) => \E i \in jobs' : Awaits(i, u)
    BY <1>2
  <2>5. \A l \in Call : pc[l] \in {"marking", "capped"} /\ tasks[l] # {} /\ req[l].by = u
          => pc'[l] \in {"marking", "capped"} /\ tasks'[l] # {}
    BY <1>1, <1>2, <1>7
  <2> QED
    BY <1>2, <1>7, <2>2, <2>3, <2>4, <2>5, Unaffected
<1> QED
  BY <1>2, <1>4, <1>6, <1>7 DEF Counted

\* A goroutine counts: the count it holds is right.
LEMMA CountCounts ==
  ASSUME TypeOK, HoldersApart, Counted, NEW j \in jobs, Count(j)
  PROVE  HoldersApart' /\ Counted'
<1>1. PICK w \in User : w = Head(j.todo)
  BY JobFields DEF Count
<1>2. PICK n : n = CountUnreadConversations(w)
  OBVIOUS
<1>3. PICK next : next = [j EXCEPT !.count = n]
  OBVIOUS
<1>4. /\ UNCHANGED <<rows, read, before, req, tasks, pc, counter>>
      /\ jobs' = (jobs \ {j}) \cup {next} /\ unaware' = unaware \ {w}
      /\ j.todo # << >> /\ j.count = None /\ crossed \subseteq crossed'
      /\ w \notin crossed' => \A o \in jobs : ~ Holds(o, w)
  BY <1>1, <1>2, <1>3 DEF Count, Instead, Without, Holds, store, calls
<1>5. next.todo = j.todo /\ next.count = n /\ next.marks = j.marks /\ next.by = j.by
  BY <1>3, JobFields DEF Job
<1>6. n # None /\ CountUnreadConversations(w)' = n
  <2>1. n \in Nat
    BY <1>2, CountTyped DEF TypeOK
  <2>2. CountUnreadConversations(w)' = CountUnreadConversations(w)
    BY <1>4, CountSame DEF In, Rows
  <2> QED
    BY <1>2, <2>1, <2>2 DEF None
<1>7. Holds(next, w) /\ (\A u : Holds(next, u) => u = w) /\ (\A u : ~ Holds(j, u))
  BY <1>1, <1>4, <1>5, <1>6 DEF Holds
<1>8. HoldersApart'
  <2>1. \A i \in jobs' : i.todo = << >> => i.count = None
    BY <1>4, <1>5 DEF HoldersApart
  <2>2. ASSUME NEW u \in User, u \notin crossed', NEW i \in jobs', NEW l \in jobs', Holds(i, u), Holds(l, u)
        PROVE  i = l
    <3>1. CASE u = w
      BY <1>4, <2>2, <3>1
    <3>2. CASE u # w
      BY <1>4, <1>7, <2>2, <3>2 DEF HoldersApart
    <3> QED BY <3>1, <3>2
  <2> QED
    BY <2>1, <2>2 DEF HoldersApart, Holds
<1>9. ASSUME NEW u \in User, u \notin crossed' \cup unaware' PROVE Pending(u)' \/ Fresh(u)'
  <2>1. CASE u = w
    <3>1. next \in jobs' /\ Holds(next, w)' /\ next.count = CountUnreadConversations(w)'
      BY <1>4, <1>5, <1>6, <1>7 DEF Holds
    <3> QED
      BY <2>1, <3>1 DEF Fresh
  <2>2. CASE u # w
    <3>1. Pending(u) \/ Fresh(u)
      BY <1>4, <1>9, <2>2 DEF Counted
    <3>2. CountUnreadConversations(u)' = CountUnreadConversations(u)
      BY <1>4, CountSame DEF In, Rows
    <3>3. \A i : Holds(i, u) => (i \in jobs' <=> i \in jobs)
      BY <1>4, <1>7, <2>2
    <3>4. Awaits(j, u) => Awaits(next, u)
      BY <1>1, <1>4, <1>5, <2>2, JobFields DEF Awaits
    <3>5. \A i \in jobs : Awaits(i, u) => \E l \in jobs' : Awaits(l, u)
      BY <1>4, <3>4
    <3> QED
      BY <1>4, <3>1, <3>2, <3>3, <3>5, Unaffected
  <2> QED BY <2>1, <2>2
<1> QED
  BY <1>8, <1>9 DEF Counted

\* A user further down the list, or of whom marks are left, stays awaited.
LEMMA AwaitedAfterPush ==
  ASSUME TypeOK, NEW j \in jobs, Push(j), NEW u \in User, NEW i \in jobs, Awaits(i, u)
  PROVE  \E l \in jobs' : Awaits(l, u)
<1>1. PICK next : next = [j EXCEPT !.todo = Tail(@), !.count = None]
  OBVIOUS
<1>2. /\ j.todo # << >> /\ j.count # None
      /\ jobs' = (jobs \ {j}) \cup (IF Len(j.todo) = 1 /\ j.marks = {} THEN {} ELSE {next})
  BY <1>1 DEF Push, Without
<1>3. /\ j.todo \in Seq(User) /\ Len(j.todo) \in Nat /\ DOMAIN j.todo = 1 .. Len(j.todo)
  BY JobFields
<1>4. next.todo = Tail(j.todo) /\ next.count = None /\ next.marks = j.marks /\ next.by = j.by
  BY <1>1, JobFields DEF Job
<1>5. CASE i # j
  BY <1>2, <1>5
<1>6. CASE i = j
  <2>1. CASE j.marks # {} /\ req[j.by].by = u
    BY <1>2, <1>4, <2>1 DEF Awaits
  <2>2. CASE \E n \in DOMAIN j.todo : j.todo[n] = u /\ (n = 1 => j.count = None)
    <3>1. PICK n \in DOMAIN j.todo : j.todo[n] = u /\ n # 1
      BY <1>2, <2>2
    <3>2. n - 1 \in DOMAIN Tail(j.todo) /\ Tail(j.todo)[n - 1] = u /\ Len(j.todo) # 1
      BY <1>3, <3>1
    <3>3. Awaits(next, u)
      BY <1>4, <3>2 DEF Awaits
    <3> QED
      BY <1>2, <3>2, <3>3
  <2> QED
    BY <1>6, <2>1, <2>2 DEF Awaits
<1> QED
  BY <1>5, <1>6

\* A goroutine pushes what it holds.
LEMMA PushCounts ==
  ASSUME TypeOK, HoldersApart, Counted, NEW j \in jobs, Push(j), faults' = faults
  PROVE  HoldersApart' /\ Counted'
<1>1. PICK w \in User : w = Head(j.todo)
  BY JobFields DEF Push
<1>2. PICK next : next = [j EXCEPT !.todo = Tail(@), !.count = None]
  OBVIOUS
<1>3. /\ UNCHANGED <<rows, read, before, req, tasks, pc, crossed, unaware>>
      /\ j.todo # << >> /\ j.count # None
      /\ jobs' \subseteq (jobs \ {j}) \cup {next} /\ jobs \ {j} \subseteq jobs'
  BY <1>2 DEF Push, Without, store, calls
<1>4. counter'[w] = j.count /\ \A u \in User : u # w => counter'[u] = counter[u]
  <2>1. ~ Fault
    BY ReadStateAssumption DEF Fault, TypeOK
  <2> QED
    BY <1>1, <2>1 DEF Push, TypeOK
<1>5. next.count = None /\ \A u : ~ Holds(next, u)
  BY <1>2, JobFields DEF Job, Holds
<1>6. Holds(j, w) /\ \A u : Holds(j, u) => u = w
  BY <1>1, <1>3 DEF Holds
<1>7. HoldersApart'
  <2>1. \A i \in jobs' : i.todo = << >> => i.count = None
    BY <1>3, <1>5 DEF HoldersApart
  <2>2. \A i \in jobs', u \in User : Holds(i, u) => i \in jobs
    BY <1>3, <1>5
  <2> QED
    BY <1>3, <2>1, <2>2 DEF HoldersApart
<1>8. ASSUME NEW u \in User, u \notin crossed \cup unaware PROVE Pending(u)' \/ Fresh(u)'
  <2>1. Pending(u) \/ Fresh(u)
    BY <1>8 DEF Counted
  <2>2. CountUnreadConversations(u)' = CountUnreadConversations(u)
    BY <1>3, CountSame DEF In, Rows
  <2>3. CASE u # w
    <3>1. \A i : Holds(i, u) => (i \in jobs' <=> i \in jobs)
      BY <1>3, <1>5, <1>6, <2>3
    <3>2. \A i \in jobs : Awaits(i, u) => \E l \in jobs' : Awaits(l, u)
      BY AwaitedAfterPush
    <3> QED
      BY <1>3, <1>4, <2>1, <2>2, <2>3, <3>1, <3>2, Unaffected
  <2>4. CASE u = w /\ Pending(u)
    <3>1. CASE \E i \in jobs : Awaits(i, u)
      <4>1. \E l \in jobs' : Awaits(l, u)
        BY <3>1, AwaitedAfterPush
      <4>2. \E l \in jobs' : Awaits(l, u)'
        BY <1>3, <4>1 DEF Awaits
      <4> QED
        BY <4>2 DEF Pending
    <3>2. CASE ~ \E i \in jobs : Awaits(i, u)
      BY <1>3, <2>4, <3>2 DEF Pending
    <3> QED BY <3>1, <3>2
  <2>5. CASE u = w /\ Fresh(u)
    <3>1. j.count = CountUnreadConversations(u)
      BY <1>6, <1>8, <2>5 DEF Fresh, HoldersApart
    <3>2. \A i \in jobs' : ~ Holds(i, w)
      BY <1>3, <1>5, <1>6, <1>8, <2>5 DEF HoldersApart
    <3>3. ~ \E i \in jobs' : Holds(i, u)'
      BY <2>5, <3>2 DEF Holds
    <3> QED
      BY <1>4, <2>2, <2>5, <3>1, <3>3 DEF Fresh
  <2> QED
    BY <2>1, <2>3, <2>4, <2>5
<1> QED
  BY <1>3, <1>7, <1>8 DEF Counted

\* A goroutine with a task left has its user counted once more.
LEMMA BroadcastCounts ==
  ASSUME TypeOK, HoldersApart, Counted, NEW j \in jobs, BroadcastMarkAsRead(j)
  PROVE  HoldersApart' /\ Counted'
<1>1. PICK w \in User : w = req[j.by].by
  BY JobFields, RequestTyped
<1>2. PICK t \in j.marks : jobs' = Instead(j, [j EXCEPT !.todo = <<w>>, !.marks = @ \ {t}])
  BY <1>1 DEF BroadcastMarkAsRead
<1>3. PICK next : next = [j EXCEPT !.todo = <<w>>, !.marks = @ \ {t}]
  OBVIOUS
<1>4. /\ UNCHANGED <<rows, read, before, req, tasks, pc, counter, crossed, unaware>>
      /\ j.todo = << >> /\ j.count = None /\ jobs' = (jobs \ {j}) \cup {next}
  BY <1>2, <1>3 DEF BroadcastMarkAsRead, Instead, Without, store, calls, HoldersApart
<1>5. next.todo = <<w>> /\ next.count = None
  BY <1>3, <1>4, JobFields DEF Job
<1>6. \A u : ~ Holds(j, u) /\ ~ Holds(next, u)
  BY <1>4, <1>5 DEF Holds
<1>7. HoldersApart'
  <2>1. \A i \in jobs' : i.todo = << >> => i.count = None
    BY <1>4, <1>5 DEF HoldersApart
  <2>2. \A i \in jobs', u \in User : Holds(i, u) => i \in jobs
    BY <1>4, <1>6
  <2> QED
    BY <1>4, <2>1, <2>2 DEF HoldersApart
<1>8. Pending(w)'
  <2>1. 1 \in DOMAIN next.todo /\ next.todo[1] = w
    BY <1>5
  <2>2. Awaits(next, w)' /\ next \in jobs'
    BY <1>4, <1>5, <2>1 DEF Awaits
  <2> QED
    BY <2>2 DEF Pending
<1>9. ASSUME NEW u \in User, u # w, Pending(u) \/ Fresh(u) PROVE Pending(u)' \/ Fresh(u)'
  <2>1. CountUnreadConversations(u)' = CountUnreadConversations(u)
    BY <1>4, CountSame DEF In, Rows
  <2>2. ~ Awaits(j, u)
    BY <1>1, <1>4, <1>9 DEF Awaits
  <2>3. \A i : Holds(i, u) => (i \in jobs' <=> i \in jobs)
    BY <1>4, <1>6
  <2>4. \A i \in jobs : Awaits(i, u) => \E l \in jobs' : Awaits(l, u)
    BY <1>4, <2>2
  <2> QED
    BY <1>4, <1>9, <2>1, <2>3, <2>4, Unaffected
<1> QED
  BY <1>4, <1>7, <1>8, <1>9 DEF Counted

LEMMA CounterStep ==
  ASSUME TypeOK, MarksInv, HoldersApart, Counted, [Next]_vars, faults' = 0
  PROVE  HoldersApart' /\ Counted'
<1>1. faults = 0 /\ \A k \in Call : ~ Crash(k)
  BY FaultsGrow
<1>2. ASSUME NEW k \in Call, \/ Send(k) \/ Delete(k) \/ Restore(k)
                             \/ Resolve(k) \/ ReadLast(k) \/ MarkAsRead(k)
                             \/ ForgetRead(k) \/ Forget(k)
      PROVE  HoldersApart' /\ Counted'
  BY <1>1, <1>2, SendCounts, DeleteCounts, RestoreCounts, QuietCounts, MarkCounts, ForgetCounts
<1>3. ASSUME NEW j \in jobs, Count(j) \/ Push(j) \/ BroadcastMarkAsRead(j)
      PROVE  HoldersApart' /\ Counted'
  BY <1>1, <1>3, CountCounts, PushCounts, BroadcastCounts
<1>4. CASE UNCHANGED vars \/ \E d \in due : PushReceipt(d)
  BY <1>1, <1>4, QuietCounts
<1> QED
  BY <1>1, <1>2, <1>3, <1>4 DEF Next

LEMMA CounterInitial ==
  ASSUME Init, TypeOK PROVE CounterInv
<1>1. HoldersApart
  BY DEF Init, HoldersApart
<1>2. \A u \in User : Fresh(u)
  BY DEF Init, Fresh
<1> QED
  BY <1>1, <1>2 DEF CounterInv, Counted

\* When the goroutines are done, a user's last counter event says how many
\* conversations he has not read, for any users, conversations, messages, calls
\* and requests, when nothing fails; but for users of whom two goroutines held
\* a count at once, and those whom a restored message has changed.  Until then
\* the user is awaited by a goroutine or a call, or a goroutine holds the right
\* count, or the last event is right.
THEOREM CounterComesToRest == Spec => []CounterSettles
<1>1. Init /\ TypeOK => CounterInv
  BY CounterInitial
<1>2. TypeOK /\ MarksInv /\ CounterInv /\ [Next]_vars => CounterInv'
  <2> SUFFICES ASSUME TypeOK, MarksInv, CounterInv, [Next]_vars, faults' = 0
               PROVE  HoldersApart' /\ Counted'
    BY DEF CounterInv
  <2> QED
    BY FaultsGrow, CounterStep DEF CounterInv
<1>3. CounterInv => CounterSettles
  <2> SUFFICES ASSUME CounterInv, faults = 0, jobs = {}, \A k \in Call : pc[k] \in {"start", "done"},
                      NEW u \in User \ (crossed \cup unaware)
               PROVE  counter[u] = CountUnreadConversations(u)
    BY DEF CounterSettles
  <2>1. Pending(u) \/ Fresh(u)
    BY DEF CounterInv, Counted
  <2>2. ~ Pending(u)
    BY DEF Pending
  <2> QED
    BY <2>1, <2>2 DEF Fresh
<1> QED
  BY <1>1, <1>2, <1>3, TypeCorrect, MarksInvariant, PTL DEF Spec
=============================================================================
