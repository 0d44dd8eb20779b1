---------------------------- MODULE MCChatAdmin ----------------------------
(***************************************************************************)
(* Small instances of ChatAdmin: an owner, a moderator that is a           *)
(* community, a member and an outsider, and three calls, each with a menu  *)
(* of requests that meet those of the others.                              *)
(***************************************************************************)
EXTENDS ChatAdmin, TLC

CONSTANTS u1, u2, u3, u4, k1, k2, k3

\* Number 2 names the second message, and the first by the id of its row.
TwoMessages == {1, 2}
Rows == <<2, 3>>
Authors == <<u1, u3>>
Nothing == << >>
R(kind, by, who, what, reset, levels) ==
  [kind |-> kind, by |-> by, who |-> who, what |-> what, reset |-> reset, levels |-> levels]
Do(kind, by, who) == R(kind, by, who, 0, FALSE, Nothing)
Set(kind, by, what) == R(kind, by, by, what, FALSE, Nothing)
Permit(by, p, level) == R("permit", by, by, 0, FALSE, p :> level)

First ==
  {Do("appoint", u1, u3), Do("dismiss", u1, u2), Permit(u1, "change_admins", "admin"),
   Set("title", u2, 1), Set("pin", u1, 2), Set("flags", u2, 1), Set("mute", u2, 1),
   R("link", u1, u1, 1, TRUE, Nothing), Do("join", u4, u4)}
Second ==
  {Do("kick", u1, u2), Do("kick", u2, u3), Do("leave", u3, u3), Permit(u2, "change_pin", "junk"),
   Set("title", u1, 2), Set("unpin", u1, 0), Set("hide", u1, 1), Set("flags", u2, 2), Set("mute", u2, 2),
   R("link", u1, u2, 2, FALSE, Nothing), Do("join", u4, u4), Do("photo", u3, u3), Do("leave", u1, u1)}
Third ==
  {Do("join", u3, u3), Do("add", u1, u3), Do("add", u1, u2), Set("delete", u1, 1), Set("hide", u3, 2), Do("dismiss", u1, u3),
   Set("unpin", u2, 0), R("flags", u2, u2, 1, TRUE, Nothing), Permit(u1, "invite", "admin"),
   Do("appoint", u1, u2)}

AnyScenario == {(k1 :> a) @@ (k2 :> b) @@ (k3 :> c) : a \in First, b \in Second, c \in Third}
PhotoScenario == {k1 :> Do("photo", u3, u3)}
OneLink == <<[limit |-> 2, used |-> 1, revoked |-> FALSE, history |-> FALSE]>>
=============================================================================
