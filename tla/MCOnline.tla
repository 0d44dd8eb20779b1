------------------------------ MODULE MCOnline ------------------------------
(***************************************************************************)
(* Small instances of Online: one user who comes and goes, one who watches *)
(***************************************************************************)
EXTENDS Online, TLC

CONSTANTS u1, u2, k1, k2, k3, p1, p2

Watched == (u1 :> {u2}) @@ (u2 :> {})

Ask(kind) == [kind |-> kind, user |-> u1]

\* Two activities and a third, a farewell or a forced announcement.
ComeAndGo ==
  {(k1 :> Ask("touch")) @@ (k2 :> Ask("touch")) @@ (k3 :> Ask(x)) :
     x \in {"touch", "off", "force"}}
=============================================================================
