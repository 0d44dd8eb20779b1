------------------------------- MODULE PeerIds -------------------------------
(***************************************************************************)
(* How a conversation is named: by the peer id its participant uses, and   *)
(* by the internal id the tables are keyed with.  The internal id is a     *)
(* string in the code ("c5", "g-3_7", "dm4_9"); here it is a record, since *)
(* only the prefix and the numbers in it are ever looked at.               *)
(***************************************************************************)
EXTENDS Integers

ChatBase == 2000000000

ChatId(kind, first, second) == [kind |-> kind, first |-> first, second |-> second]

\* Mutant of GetInternalChatID: the two ends of a dialogue are not ordered.
GetInternalChatIDUnordered(peerID, me) ==
  IF peerID > ChatBase THEN ChatId("c", peerID - ChatBase, 0) ELSE ChatId("dm", me, peerID)

\* A chat; a dialogue with a community, which comes first; one of two users,
\* the smaller id first.
GetInternalChatID(peerID, me) ==
  IF peerID > ChatBase THEN ChatId("c", peerID - ChatBase, 0)
  ELSE IF peerID < 0 THEN ChatId("g", peerID, me)
  ELSE IF me < 0 THEN ChatId("g", me, peerID)
  ELSE IF me > peerID THEN ChatId("dm", peerID, me) ELSE ChatId("dm", me, peerID)

\* The other end, as user me would address it.
DerivePeerID(chat, me) ==
  IF chat.kind = "c" THEN chat.first + ChatBase
  ELSE IF chat.first = me THEN chat.second ELSE chat.first

\* Which of the parameters user_id, chat_id and peer_id names the recipient; 0
\* is a parameter that is absent.
GetPeerID(userID, chatID, peerID) ==
  CASE userID # 0 -> userID
    [] userID = 0 /\ chatID > 0 -> ChatBase + chatID
    [] OTHER -> peerID

\* The same for the reading endpoints, which may be called for somebody (me = 0)
NoChat == ChatId("none", 0, 0)
ResolveChatID(chatID, peerID, userID, me) ==
  CASE me = 0 /\ userID # 0 /\ peerID # 0 -> GetInternalChatID(peerID, userID)
    [] ~(me = 0 /\ userID # 0) /\ peerID # 0 -> GetInternalChatID(peerID, me)
    [] peerID = 0 /\ chatID > 0 -> GetInternalChatID(ChatBase + chatID, me)
    [] peerID = 0 /\ chatID <= 0 /\ userID # 0 -> GetInternalChatID(userID, me)
    [] OTHER -> NoChat

getPeerType(chat) ==
  CASE chat.kind = "c" -> "chat" [] chat.kind = "g" -> "community" [] chat.kind = "dm" -> "user"
    [] OTHER -> "unknown"

\* addID: the id of a sender or a member is a chat, a user or a community
EntityKind(id) ==
  CASE id > ChatBase -> "chat" [] id > 0 /\ id < ChatBase -> "user"
    [] id < 0 -> "group" [] OTHER -> "none"
=============================================================================
