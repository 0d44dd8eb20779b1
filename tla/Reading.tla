------------------------------- MODULE Reading -------------------------------
(***************************************************************************)
(* What one user, Me, is shown: the list of conversations, the history of  *)
(* one of them, its unread counts, read marks and receipts, and how        *)
(* complete a list is that a client fetches page by page while messages    *)
(* are written, deleted and read under its hands.                          *)
(*                                                                         *)
(* A request reads one state; the code runs several queries for it outside *)
(* a transaction.  Writers are single steps, which ChatStore and ReadState *)
(* look into, but for the one flaw that shows here: a deletion may leave   *)
(* last_message_id behind a message that was sent meanwhile.  The id of a  *)
(* message is its place in rows, and so is its created_at.  The others     *)
(* stay members; user 0, who sees everything, is left out.                 *)
(***************************************************************************)
EXTENDS Integers, Sequences, FiniteSets, SequencesExt

CONSTANTS
  Me, Other,    \* the reader, and the set of the others
  Chat,         \* conversations of all of them
  Group,        \* those that are group chats; the others are dialogues
  Earlier,      \* the messages there are at first
  Client,       \* what the client may fetch: subset of {"scroll", "offset", "list"}
  PageSize,     \* the count parameter
  MaxSteps      \* bound: steps of writers

User == Other \cup {Me}
Row == [chat : Chat, lid : Nat \ {0}, from : User, kicks : BOOLEAN, deleted : BOOLEAN]
Open == 0     \* end_local_id IS NULL

ASSUME ReadingAssumption ==
  /\ Me \notin Other /\ Other # {}
  /\ IsFiniteSet(Chat) /\ Chat # {} /\ Group \subseteq Chat
  /\ Earlier \in Seq(Row)
  /\ \A i, j \in DOMAIN Earlier :
       i < j /\ Earlier[i].chat = Earlier[j].chat => Earlier[i].lid < Earlier[j].lid
  /\ Client \subseteq {"scroll", "offset", "list"}
  /\ PageSize \in Nat \ {0} /\ MaxSteps \in Nat

VARIABLES
  rows,      \* messages; kicks: chat_kick_user with Me as action_mid
  last,      \* chat -> conversations.last_message_id
  mine,      \* chat -> my row: left_at IS NULL, deleted_before_id, last_message_id;
             \* and as history, how I went
  periods,   \* chat -> my presence periods, for groups
  hidden,    \* chat -> local ids that I deleted for myself
  read,      \* chat, user -> last_read_id
  pager,     \* the client that fetches pages
  steps

store == <<rows, last, mine, periods, hidden, read>>
vars == <<store, pager, steps>>

Period == [start : Nat \ {0}, end : Nat]
Mine == [in : BOOLEAN, cut : Nat, last : Nat, gone : {"in", "left", "kicked"}]

\* chat: of a history; at: the next start_cmid, or the next offset; steady, as
\* history: what could be seen unchanged since the first page; lost: something
\* fell back or vanished since then.
Pager == [client : Client, chat : Chat, at : Nat, got : Seq(Nat \cup Chat), begun : BOOLEAN,
          done : BOOLEAN, steady : SUBSET (Nat \cup Chat), lost : BOOLEAN]

TypeOK ==
  /\ rows \in Seq(Row) /\ last \in [Chat -> Nat] /\ mine \in [Chat -> Mine]
  /\ periods \in [Chat -> SUBSET Period]
  /\ hidden \in [Chat -> SUBSET Nat] /\ read \in [Chat -> [User -> Nat]]
  /\ pager \in Pager /\ steps \in 0 .. MaxSteps

-----------------------------------------------------------------------------
(* Messages.                                                               *)

In(c) == {i \in DOMAIN rows : rows[i].chat = c}
Undeleted(c) == {i \in In(c) : ~rows[i].deleted}
Lids(I) == {rows[i].lid : i \in I}
Highest(S) == IF S = {} THEN 0 ELSE CHOOSE m \in S : \A n \in S : n <= m
Lowest(S) == CHOOSE m \in S : \A n \in S : m <= n
AtLid(c, l) == CHOOSE i \in In(c) : rows[i].lid = l

\* BuildVisibilityFilter
Visible(i) ==
  LET c == rows[i].chat
      l == rows[i].lid
  IN  /\ ~rows[i].deleted /\ l \notin hidden[c] /\ l > mine[c].cut
      /\ \/ c \notin Group \/ periods[c] = {}
         \/ \E p \in periods[c] : p.start <= l /\ (p.end = Open \/ l <= p.end)
Shown(c) == {i \in In(c) : Visible(i)}

\* Messages of others beyond my mark
Beyond(c) == {i \in In(c) : rows[i].from # Me /\ rows[i].lid > read[c][Me]}

-----------------------------------------------------------------------------
(* messages.getConversations and getConversationsById                      *)

\* conv_last_message_id: of a departed member, that of his row or of his last
\* period; then effLastID, which falls back on the row.
ConvLast(c) ==
  LET ends == {p.end : p \in periods[c]}
  IN  IF mine[c].in THEN last[c]
      ELSE IF mine[c].last # 0 THEN mine[c].last
      ELSE IF Highest(ends) # 0 THEN Highest(ends) ELSE last[c]
EffLast(c) == IF ConvLast(c) = 0 THEN mine[c].last ELSE ConvLast(c)

Listed(c) ==
  IF mine[c].in THEN c \in Group \/ mine[c].cut = 0 \/ last[c] > mine[c].cut
  ELSE /\ c \in Group
       /\ \/ mine[c].cut = 0
          \/ \E i \in Undeleted(c) :
               /\ rows[i].lid > mine[c].cut
               /\ periods[c] = {} \/ \E p \in periods[c] :
                    p.start <= rows[i].lid /\ (p.end = Open \/ rows[i].lid <= p.end)

\* filter=unread
ListedUnread(c) ==
  Listed(c) /\ mine[c].in /\ last[c] > read[c][Me] /\ last[c] > mine[c].cut

\* What the list is sorted by: the joined row, whether I may see it or not; a
\* NULL comes last.
Rank(c) ==
  LET I == {i \in Undeleted(c) : rows[i].lid = ConvLast(c) /\ rows[i].lid > mine[c].cut}
  IN  Highest(I)

\* Mutant of Before: the oldest first.
BeforeReversed(c, d) ==
  \/ Rank(c) < Rank(d)
  \/ Rank(c) = Rank(d) /\ ConvLast(c) > ConvLast(d)

Before(c, d) ==
  \/ Rank(c) > Rank(d)
  \/ Rank(c) = Rank(d) /\ ConvLast(c) > ConvLast(d)

\* The orders the query may deliver; it leaves ties to the database.
Orders ==
  {s \in SetToSeqs({c \in Chat : Listed(c)}) :
     \A i, j \in DOMAIN s : i < j => ~Before(s[j], s[i])}

Slice(s, offset, count) ==
  SubSeq(s, offset + 1, IF offset + count > Len(s) THEN Len(s) ELSE offset + count)

\* Mutant of LastMessage: nothing takes the place of a message I may not see.
LastMessageOnly(c) ==
  IF EffLast(c) <= mine[c].cut THEN {} ELSE {i \in Shown(c) : rows[i].lid = EffLast(c)}

\* last_message: the one at effLastID, or else the latest I may see; {} is none.
LastMessage(c) ==
  IF EffLast(c) <= mine[c].cut THEN {}
  ELSE LET I == {i \in Shown(c) : rows[i].lid = EffLast(c)}
       IN  IF I # {} THEN I ELSE {i \in Shown(c) : rows[i].lid = Highest(Lids(Shown(c)))}

\* Mutant of unread_count: hidden messages and those of other times count.
UnreadCountAll(c) ==
  IF mine[c].in /\ EffLast(c) > read[c][Me] /\ EffLast(c) > mine[c].cut
  THEN Cardinality({i \in Beyond(c) : ~rows[i].deleted /\ rows[i].lid > mine[c].cut}) ELSE 0

\* unread_count in the list, and in getConversationsById, which asks for no
\* membership; unread_count of the whole list.
UnreadCount(c) ==
  IF mine[c].in /\ EffLast(c) > read[c][Me] /\ EffLast(c) > mine[c].cut
  THEN Cardinality(Beyond(c) \cap Shown(c)) ELSE 0
UnreadCountById(c) == Cardinality(Beyond(c) \cap Shown(c))
UnreadConversations == Cardinality({c \in Chat : mine[c].in /\ Beyond(c) \cap Shown(c) # {}})

\* Mutant of ResolveGlobalMsgID: a mark at the last message is looked up like
\* the others, one row too far.
ResolveGlobalMsgIDPast(c, l, lastCMID, lastMsgID) ==
  IF l = 0 THEN 0
  ELSE LET I == {i \in In(c) : rows[i].lid <= l + 1}
       IN  IF I = {} THEN l ELSE AtLid(c, Highest(Lids(I)))

\* The id of the message at a mark, or before it
ResolveGlobalMsgID(c, l, lastCMID, lastMsgID) ==
  IF l = 0 THEN 0
  ELSE IF lastCMID > 0 /\ l >= lastCMID /\ lastMsgID > 0 THEN lastMsgID
  ELSE LET I == {i \in In(c) : rows[i].lid <= l}
       IN  IF I = {} THEN l ELSE AtLid(c, Highest(Lids(I)))

\* in_read, and out_read_cmid, from the readCache, with which a client draws the
\* read marks; M is what last_message names.  The readCache holds the chats with
\* something beyond my cut; of the others the list says 0.
InRead(c, M) ==
  LET lastCMID == IF M = {} THEN EffLast(c) ELSE Highest(Lids(M))
  IN  ResolveGlobalMsgID(c, read[c][Me], lastCMID, Highest(M))
OutReadCMID(c) == IF EffLast(c) <= mine[c].cut THEN 0 ELSE Highest({read[c][u] : u \in Other})

\* The last chat_kick_user message about me, deleted or not
LastKick(c) == LET K == {i \in In(c) : rows[i].kicks} IN {i \in K : rows[i].lid = Highest(Lids(K))}

\* Mutant of State: a deleted message says nothing.
StateUndeleted(c) ==
  IF c \notin Group \/ mine[c].in THEN "in"
  ELSE IF \E i \in LastKick(c) : rows[i].from # Me /\ ~rows[i].deleted THEN "kicked" ELSE "left"

\* state, with which can_write goes
State(c) ==
  IF c \notin Group \/ mine[c].in THEN "in"
  ELSE IF \E i \in LastKick(c) : rows[i].from # Me THEN "kicked" ELSE "left"

\* left and kicked of messages.getChat
ChatFlags(c) ==
  [left |-> ~mine[c].in /\ \A i \in LastKick(c) : rows[i].from = Me,
   kicked |-> ~mine[c].in /\ \E i \in LastKick(c) : rows[i].from # Me]

\* What the list tells of a conversation, and what getConversationsById tells,
\* which begins at last_message_id for a departed member as well.
Conversation(c) ==
  [message |-> LastMessage(c), inRead |-> InRead(c, LastMessage(c))]
EffLastById(c) == IF last[c] = 0 THEN mine[c].last ELSE last[c]
LastMessageById(c) ==
  IF EffLastById(c) <= mine[c].cut THEN {}
  ELSE LET I == {i \in Shown(c) : rows[i].lid = EffLastById(c)}
       IN  IF I # {} THEN I ELSE {i \in Shown(c) : rows[i].lid = Highest(Lids(Shown(c)))}
ConversationById(c) ==
  LET M == LastMessageById(c)
      lastCMID == IF M = {} THEN EffLastById(c) ELSE Highest(Lids(M))
  IN  [message |-> M, inRead |-> ResolveGlobalMsgID(c, read[c][Me], lastCMID, Highest(M))]

-----------------------------------------------------------------------------
(* messages.getHistory                                                     *)

\* ORDER BY local_id, ascending and descending
Up(S) == [n \in 1 .. Cardinality(S) |-> CHOOSE l \in S : Cardinality({m \in S : m <= l}) = n]
Down(S) == [n \in 1 .. Cardinality(S) |-> CHOOSE l \in S : Cardinality({m \in S : m >= l}) = n]

\* Mutant of Window: a start_cmid that is not visible starts from the newest.
WindowIfShown(c, start, offset, rev) ==
  LET V == Lids(Shown(c))
      far == IF rev THEN Down({l \in V : l <= start}) ELSE Up({l \in V : l >= start})
      beside(l, x) == IF rev THEN l >= x ELSE l <= x
  IN  IF start \notin V THEN V
      ELSE IF offset >= 0 THEN {l \in V : beside(l, start)}
      ELSE IF -offset > Len(far) THEN V ELSE {l \in V : beside(l, far[-offset])}

\* Mutant of Window: a negative offset goes one message less far.
WindowNear(c, start, offset, rev) ==
  LET V == Lids(Shown(c))
      far == IF rev THEN Down({l \in V : l <= start}) ELSE Up({l \in V : l >= start})
      beside(l, x) == IF rev THEN l > x ELSE l < x
  IN  IF start = 0 THEN V
      ELSE IF offset >= 0 THEN {l \in V : l = start \/ beside(l, start)}
      ELSE IF -offset > Len(far) THEN V ELSE {l \in V : beside(l, far[-offset])}

\* The messages from start_cmid on; a negative offset reaches back beyond it, by
\* that many messages, if there are as many.
Window(c, start, offset, rev) ==
  LET V == Lids(Shown(c))
      far == IF rev THEN Down({l \in V : l <= start}) ELSE Up({l \in V : l >= start})
      beside(l, x) == IF rev THEN l >= x ELSE l <= x
  IN  IF start = 0 THEN V
      ELSE IF offset >= 0 THEN {l \in V : beside(l, start)}
      ELSE IF -offset > Len(far) THEN V ELSE {l \in V : beside(l, far[-offset])}

\* items; the offset that was reached back with is spent, and without a
\* start_cmid a negative one means nothing.
GetHistory(c, start, offset, count, rev) ==
  LET W == Window(c, start, offset, rev)
  IN  Slice(IF rev THEN Up(W) ELSE Down(W), IF offset < 0 THEN 0 ELSE offset, count)

\* in_read of the conversation that goes with a page: judged by its first message
HistoryInRead(c, page) ==
  IF page = << >> THEN ResolveGlobalMsgID(c, read[c][Me], 0, 0)
  ELSE ResolveGlobalMsgID(c, read[c][Me], page[1], AtLid(c, page[1]))

HistoryUnread(c) == IF mine[c].in THEN Cardinality(Beyond(c) \cap Shown(c)) ELSE 0

\* GetMessageReadInfo: read_state, and read_by
ReadStateOf(i) ==
  IF rows[i].from = Me THEN \E u \in Other : read[rows[i].chat][u] >= rows[i].lid
  ELSE read[rows[i].chat][Me] >= rows[i].lid
ReadBy(i) == {u \in User : read[rows[i].chat][u] >= rows[i].lid}

\* messages.getMessageViewers, of a message of mine, refused to who has left; the
\* others' periods cover it.
GetMessageViewers(i) ==
  {u \in Other : mine[rows[i].chat].in /\ read[rows[i].chat][u] >= rows[i].lid}

\* messages.getNearestMessageForDate: the first on or after the date, or the last
\* before it.
GetNearestMessageForDate(c, date) ==
  LET after == {i \in Shown(c) : i >= date}
  IN  IF after # {} THEN Lowest(after) ELSE Highest(Shown(c))

\* messages.get of API 5.20, incoming: periods and hidden messages are not asked.
Get(unread) ==
  {i \in DOMAIN rows :
     LET c == rows[i].chat
     IN  /\ mine[c].in /\ rows[i].from # Me /\ ~rows[i].deleted /\ rows[i].lid > mine[c].cut
         /\ unread => rows[i].lid > read[c][Me]}

-----------------------------------------------------------------------------
(* Writers.                                                                *)

Init ==
  /\ rows = Earlier
  /\ last = [c \in Chat |-> Highest(Lids({i \in DOMAIN Earlier : Earlier[i].chat = c}))]
  /\ mine = [c \in Chat |-> [in |-> TRUE, cut |-> 0, last |-> 0, gone |-> "in"]]
  /\ periods = [c \in Chat |-> IF c \in Group THEN {[start |-> 1, end |-> Open]} ELSE {}]
  /\ hidden = [c \in Chat |-> {}]
  /\ read = [c \in Chat |-> [u \in User |-> 0]]
  \* the history of a group; that of a dialogue is one without periods
  /\ \E cl \in Client : \E c \in IF cl = "list" THEN {CHOOSE x \in Chat : TRUE} ELSE Group :
       pager = [client |-> cl, chat |-> c, at |-> 0, got |-> << >>, begun |-> FALSE,
                done |-> FALSE, steady |-> {}, lost |-> FALSE]
  /\ steps = 0

NextLid(c) == Highest(Lids(In(c)) \cup {last[c]}) + 1

Insert(c, u, kicks) ==
  /\ rows' = Append(rows, [chat |-> c, lid |-> NextLid(c), from |-> u, kicks |-> kicks,
                           deleted |-> FALSE])
  /\ last' = [last EXCEPT ![c] = NextLid(c)]

\* messages.send; only the sender's row gets the last_message_id.
Send(c, u) ==
  /\ u = Me => mine[c].in
  /\ Insert(c, u, FALSE)
  /\ mine' = IF u = Me THEN [mine EXCEPT ![c].last = NextLid(c)] ELSE mine
  /\ read' = [read EXCEPT ![c][u] = NextLid(c)]
  /\ UNCHANGED <<periods, hidden>>

\* Mutant of RefreshChatLastMessage: no 0 for a chat without messages.
RefreshChatLastMessageNull(c, now, n) ==
  LET I == {j \in 1 .. n : now[j].chat = c /\ ~now[j].deleted}
      m == IF I = {} THEN -1 ELSE Highest({now[i].lid : i \in I})
  IN  last' = [last EXCEPT ![c] = m] /\ mine' = [mine EXCEPT ![c].last = m]

\* RefreshChatLastMessage, after what has become of the rows.  It knows the first
\* n of them: those that were committed before its snapshot.
RefreshChatLastMessage(c, now, n) ==
  LET m == Highest({now[i].lid : i \in {j \in 1 .. n : now[j].chat = c /\ ~now[j].deleted}})
  IN  last' = [last EXCEPT ![c] = m] /\ mine' = [mine EXCEPT ![c].last = m]

\* messages.delete with delete_for_all, and messages.restore, of one's own
SetDeleted(i, deleted) ==
  LET c == rows[i].chat
      now == [rows EXCEPT ![i].deleted = deleted]
  IN  /\ rows[i].deleted # deleted
      /\ rows[i].from = Me /\ deleted => mine[c].in /\ Visible(i)
      /\ rows' = now
      /\ \E n \in i .. Len(rows) : RefreshChatLastMessage(c, now, n)
      /\ UNCHANGED <<periods, hidden, read>>

\* messages.delete, for myself, and messages.restore
Hide(i) ==
  LET c == rows[i].chat
  IN  /\ Visible(i) /\ mine[c].in
      /\ hidden' = [hidden EXCEPT ![c] = @ \cup {rows[i].lid}]
      /\ RefreshChatLastMessage(c, rows, Len(rows))
      /\ UNCHANGED <<rows, periods, read>>

Unhide(i) ==
  LET c == rows[i].chat
  IN  /\ rows[i].lid \in hidden[c]
      /\ hidden' = [hidden EXCEPT ![c] = @ \ {rows[i].lid}]
      /\ UNCHANGED <<rows, last, mine, periods, read>>

\* messages.markAsRead
MarkAsRead(c, u) ==
  \E l \in Lids(In(c)) :
    LET capped == IF last[c] > 0 /\ l > last[c] THEN last[c] ELSE l
    IN  /\ read[c][u] < capped
        /\ read' = [read EXCEPT ![c][u] = capped]
        /\ UNCHANGED <<rows, last, mine, periods, hidden>>

\* messages.deleteConversation: BackgroundDeleteChat
DeleteConversation(c) ==
  LET max == Highest(Lids(In(c)))
  IN  /\ mine[c].cut # max
      /\ mine' = [mine EXCEPT ![c].cut = max] /\ read' = [read EXCEPT ![c][Me] = max]
      /\ UNCHANGED <<rows, last, periods, hidden>>

\* messages.removeChatUser: the message is the last of the period.
RemoveMe(c, by) ==
  /\ c \in Group /\ mine[c].in
  /\ Insert(c, by, TRUE)
  /\ mine' = [mine EXCEPT ![c].in = FALSE, ![c].last = NextLid(c),
                          ![c].gone = IF by = Me THEN "left" ELSE "kicked"]
  /\ periods' = [periods EXCEPT ![c] = {IF p.end = Open THEN [p EXCEPT !.end = NextLid(c)] ELSE p :
                                        p \in @}]
  /\ UNCHANGED <<hidden, read>>

\* AddUserToConversation, by one who may; with or without the history.
AddMe(c, by, seeHistory) ==
  /\ c \in Group /\ ~mine[c].in
  /\ Insert(c, by, FALSE)
  /\ mine' = [mine EXCEPT ![c].in = TRUE, ![c].last = NextLid(c), ![c].gone = "in"]
  /\ periods' = [periods EXCEPT ![c] = @ \cup {[start |-> IF seeHistory THEN 1 ELSE NextLid(c),
                                                end |-> Open]}]
  /\ UNCHANGED <<hidden, read>>

Write ==
  /\ steps < MaxSteps /\ steps' = steps + 1
  /\ \/ \E c \in Chat, u \in User : Send(c, u) \/ MarkAsRead(c, u) \/ RemoveMe(c, u)
     \/ \E c \in Chat, u \in Other, see \in BOOLEAN : AddMe(c, u, see)
     \/ \E i \in DOMAIN rows : Hide(i) \/ Unhide(i) \/ \E d \in BOOLEAN : SetDeleted(i, d)
     \/ \E c \in Chat : DeleteConversation(c)

-----------------------------------------------------------------------------
(* A client that fetches one page after the other.                         *)

\* What is to be fetched: the conversations with a message to sort by; messages
Sorted == {c \in Chat : Listed(c) /\ Rank(c) > 0}
Messages(c) == Lids(Shown(c))

\* A conversation falls when its rank does or it is listed no more.
Watch ==
  \/ (~pager.begun \/ pager.done) /\ UNCHANGED pager
  \/ /\ pager.begun /\ ~pager.done /\ pager.client = "list"
     /\ pager' = [pager EXCEPT
          !.steady = {c \in @ : Listed(c)' /\ Rank(c)' = Rank(c)},
          !.lost = @ \/ \E c \in Sorted : ~Listed(c)' \/ Rank(c)' < Rank(c)]
  \/ /\ pager.begun /\ ~pager.done /\ pager.client # "list"
     /\ \E c \in {pager.chat} :
          pager' = [pager EXCEPT !.steady = @ \cap Messages(c)',
                                 !.lost = @ \/ ~(Messages(c) \subseteq Messages(c)')]

\* The client that scrolls continues below the last message it got, and the
\* others behind as many items as they got, until a page is not full.
Request ==
  /\ ~pager.done
  /\ \E order \in IF pager.client = "list" THEN Orders ELSE {<< >>} :
       LET page == IF pager.client = "list" THEN Slice(order, pager.at, PageSize)
                   ELSE IF pager.client = "scroll"
                   THEN GetHistory(pager.chat, pager.at, 0, PageSize, FALSE)
                   ELSE GetHistory(pager.chat, 0, pager.at, PageSize, FALSE)
           n == Len(page)
       IN  pager' = [pager EXCEPT
             !.begun = TRUE, !.got = @ \o page,
             !.at = IF pager.client # "scroll" THEN @ + n ELSE IF n = 0 THEN @ ELSE page[n] - 1,
             !.done = n < PageSize \/ (pager.client = "scroll" /\ page[n] = 1),
             !.steady = IF pager.begun THEN @
                         ELSE IF pager.client = "list" THEN Sorted ELSE Messages(pager.chat)]
  /\ UNCHANGED <<store, steps>>

Next == (Write /\ Watch) \/ Request

Spec == Init /\ [][Next]_vars

-----------------------------------------------------------------------------
(* Properties.                                                             *)

\* No deletion has left last_message_id behind a message I may see.
Current(c) == \A i \in Shown(c) : rows[i].lid <= ConvLast(c)

\* The endpoints agree on what is unread: the list's count of a conversation,
\* its history's and getConversationsById's, the number of such conversations,
\* and the unread filter, which skips none.  messages.get counts no less.
UnreadAgrees ==
  /\ \A c \in Chat : mine[c].in /\ Current(c) =>
       /\ UnreadCount(c) = HistoryUnread(c) /\ UnreadCountById(c) = HistoryUnread(c)
       /\ UnreadCount(c) > 0 => Listed(c) /\ ListedUnread(c)
  /\ (\A c \in Chat : Current(c)) =>
       UnreadConversations = Cardinality({c \in Chat : UnreadCount(c) > 0})
  /\ \A c \in Chat : mine[c].in => Beyond(c) \cap Shown(c) \subseteq Get(TRUE)

\* The list shows for each conversation the message its history begins with,
\* whatever was deleted, hidden or sent while I was away; and asked for the
\* conversation alone, the service tells the same of it.
LastMessageIsNewest ==
  \A c \in Chat : Listed(c) /\ Current(c) =>
    /\ [j \in 1 .. Cardinality(LastMessage(c)) |-> Highest(Lids(LastMessage(c)))]
         = GetHistory(c, 0, 0, 1, FALSE)
    /\ (\A i \in Shown(c) : rows[i].lid <= last[c]) => ConversationById(c) = Conversation(c)

\* A client may draw the read marks from whatever it is given.  Mine: of the
\* messages it sees, those up to in_read, an id, are those up to the local id of
\* my mark, in the list, and in the newest page of the history (a later page's
\* in_read goes no further than its own first message).  The others': read_state
\* of my messages tells the same story as out_read_cmid, wherever the list shows
\* a last message, and, while I am there, as the list of viewers.
ReadMarksAgree ==
  \A c \in Chat : \A i \in Shown(c) :
    /\ Current(c) => (rows[i].lid <= read[c][Me] <=> i <= InRead(c, LastMessage(c)))
    /\ rows[i].lid <= read[c][Me] <=> i <= HistoryInRead(c, GetHistory(c, 0, 0, 1, FALSE))
    /\ rows[i].from = Me =>
         /\ LastMessage(c) # {} => (ReadStateOf(i) <=> rows[i].lid <= OutReadCMID(c))
         /\ mine[c].in => /\ ReadStateOf(i) <=> GetMessageViewers(i) # {}
                          /\ GetMessageViewers(i) = ReadBy(i) \ {Me}

\* Who was put out learns so, and who left does not, from the list as from
\* getChat, until he returns, and even if the message about it is deleted.
PlaceIsTrue ==
  \A c \in Group : /\ State(c) = mine[c].gone
                   /\ ChatFlags(c) = [left |-> mine[c].gone = "left", kicked |-> mine[c].gone = "kicked"]

\* A jump to a date shows the message found for it: the page that reaches back k
\* messages from there, either way, has it, if it has room for k.
JumpShowsTarget ==
  \A c \in Chat : Shown(c) # {} =>
    \A i \in {GetNearestMessageForDate(c, date) : date \in 1 .. Len(rows) + 1} :
      \A k \in 0 .. 2, rev \in BOOLEAN :
        LET page == GetHistory(c, rows[i].lid, -k, 2, rev)
        IN  \E j \in DOMAIN page : page[j] = rows[i].lid

\* Whoever scrolls through a history by start_cmid gets every message that can be
\* seen all the while, once, and the newer before the older, whatever is sent,
\* deleted, hidden or cut off meanwhile.  By offset he misses none either, as
\* long as none vanishes.
ScrollIsComplete ==
  pager.done /\ pager.client # "list" =>
    /\ pager.client = "scroll" \/ ~pager.lost => \A l \in pager.steady : \E j \in DOMAIN pager.got : pager.got[j] = l
    /\ pager.client = "scroll" => \A j, k \in DOMAIN pager.got : j < k => pager.got[j] > pager.got[k]

\* A list of conversations fetched by offset may repeat one, but it leaves out
\* none that has stayed where it was, as long as none falls back: new messages
\* only move others up.
ListIsComplete ==
  pager.done /\ pager.client = "list" /\ ~pager.lost =>
    \A c \in pager.steady : \E j \in DOMAIN pager.got : pager.got[j] = c
=============================================================================
