---------------------------- MODULE PeerIdsProofs ----------------------------
(***************************************************************************)
(* Theorems about the names of conversations: translating a peer id to an  *)
(* internal id and back gives it again, both ends of a conversation come   *)
(* to one internal id, and different conversations to different ones.      *)
(***************************************************************************)
EXTENDS PeerIds, TLAPS

\* DerivePeerID undoes GetInternalChatID for the user who asks, whatever the
\* peer is: a chat, a user, a community or the user himself.  The list, the
\* history and the events all go through this pair.
THEOREM RoundTrip ==
  ASSUME NEW p \in Int, NEW me \in Int
  PROVE  DerivePeerID(GetInternalChatID(p, me), me) = p
<1>1. CASE p > ChatBase
  BY <1>1 DEF GetInternalChatID, DerivePeerID, ChatId, ChatBase
<1>2. CASE p <= ChatBase /\ p < 0
  BY <1>2 DEF GetInternalChatID, DerivePeerID, ChatId, ChatBase
<1>3. CASE p <= ChatBase /\ p >= 0 /\ me < 0
  BY <1>3 DEF GetInternalChatID, DerivePeerID, ChatId, ChatBase
<1>4. CASE p <= ChatBase /\ p >= 0 /\ me >= 0
  BY <1>4 DEF GetInternalChatID, DerivePeerID, ChatId, ChatBase
<1> QED BY <1>1, <1>2, <1>3, <1>4 DEF ChatBase

\* The two ends of a dialogue name the same conversation, unless both are
\* communities, which do not write to each other.
THEOREM BothEndsAgree ==
  ASSUME NEW p \in Int, NEW me \in Int, p <= ChatBase, me <= ChatBase, p >= 0 \/ me >= 0
  PROVE  GetInternalChatID(p, me) = GetInternalChatID(me, p)
<1>1. CASE p < 0
  BY <1>1 DEF GetInternalChatID, ChatId, ChatBase
<1>2. CASE p >= 0 /\ me < 0
  BY <1>2 DEF GetInternalChatID, ChatId, ChatBase
<1>3. CASE p >= 0 /\ me >= 0
  BY <1>3 DEF GetInternalChatID, ChatId, ChatBase
<1> QED BY <1>1, <1>2, <1>3

\* A user's conversations are kept apart: two peers never share an internal id.
THEOREM PeersKeptApart ==
  ASSUME NEW p \in Int, NEW q \in Int, NEW me \in Int,
         GetInternalChatID(p, me) = GetInternalChatID(q, me)
  PROVE  p = q
  BY RoundTrip

\* Nobody else's dialogue has the internal id of mine.
THEOREM DialoguesArePrivate ==
  ASSUME NEW p \in Int, NEW me \in Int, NEW q \in Int, NEW other \in Int,
         p <= ChatBase, q <= ChatBase,
         GetInternalChatID(p, me) = GetInternalChatID(q, other)
  PROVE  {p, me} = {q, other}
<1> DEFINE name == GetInternalChatID(p, me)
<1>1. {name.first, name.second} = {p, me}
  BY DEF GetInternalChatID, ChatId, ChatBase
<1>2. {name.first, name.second} = {q, other}
  BY DEF GetInternalChatID, ChatId, ChatBase
<1> QED BY <1>1, <1>2
=============================================================================
