---------------------------- MODULE MCChatStore ----------------------------
(***************************************************************************)
(* Small instances of ChatStore: a chat of two, somebody who is not in it, *)
(* and calls that each turn out to be one of a few requests.               *)
(***************************************************************************)
EXTENDS ChatStore

CONSTANTS u1, u2, u3, k1, k2, k3

Chat == <<u1, u2>>

Req(kind, by, who) == [kind |-> kind, by |-> by, who |-> who, see |-> FALSE]

\* The owner and the member write, delete, leave and are removed; the stranger
\* and whoever has left are invited, with or without history.
AnyRequest ==
  {Req("send", u1, u1), Req("send", u2, u2),
   Req("add", u1, u2), Req("add", u2, u2), [Req("add", u1, u3) EXCEPT !.see = TRUE],
   Req("remove", u1, u2), Req("remove", u2, u2), Req("remove", u1, u1),
   Req("delete", u1, u1), Req("delete", u2, u2), Req("hide", u2, u2), Req("restore", u2, u2)}

AnyRequests == [k \in Call |-> AnyRequest]

\* A message that is deleted while the stranger is invited.
ReuseRequests ==
  [k \in Call |-> {CASE k = k1 -> Req("send", u2, u2)
                     [] k = k2 -> Req("delete", u2, u2)
                     [] OTHER -> Req("add", u1, u3)}]
=============================================================================
