------------------------------ MODULE MCSending ------------------------------
(***************************************************************************)
(* Small instances of Sending: three calls, two of which repeat one        *)
(* request to a dialogue or to a chat.                                     *)
(***************************************************************************)
EXTENDS Sending, TLC

CONSTANTS k1, k2, k3

Members == {1, 2, -5}
TheChat == ChatBase + 1

\* User 1 has silenced the chat for good, user 2 wants no mass mentions there.
SomeSettings ==
  {[x \in Member \X Peer |->
      CASE x = <<1, Chat>> -> [NoMute EXCEPT !.until = "ever"]
        [] x = <<2, Chat>> -> [NoMute EXCEPT !.noMass = TRUE]
        [] OTHER -> NoMute]}

Plain == [text |-> "short", tokens |-> {}, attachment |-> "none", reply |-> "none",
          forward |-> "none", asJson |-> FALSE]
Loud == [Plain EXCEPT !.tokens = {[tag |-> "all", id |-> 0]}]

To(u, p, m) == [from |-> u, peers |-> <<p>>, random |-> 7, message |-> m]
ToAll(u, ps, m) == [from |-> u, peers |-> ps, random |-> 7, message |-> m]

Hidden(m) == [m EXCEPT !.reply = "hidden"]
Crowded == [Plain EXCEPT !.attachment = "sticker"]
Forwarding == [Plain EXCEPT !.forward = "visible"]

\* A note to oneself, sent three times, once with a reply that is refused; a
\* dialogue, a repetition and an answer; a chat and a dialogue in one request, a
\* sticker with a text, and no recipient; a community that may only answer, and
\* names too many.
SomeScenarios ==
  {(k1 :> To(1, 1, Plain)) @@ (k2 :> To(1, 1, Plain)) @@ (k3 :> To(1, 1, Hidden(Plain))),
   (k1 :> To(1, 2, Plain)) @@ (k2 :> To(1, 2, Plain)) @@ (k3 :> To(2, 2, Plain)),
   (k1 :> ToAll(2, <<Chat, 1>>, Loud)) @@ (k2 :> To(2, 1, Crowded))
     @@ (k3 :> To(1, NoPeer, Forwarding)),
   (k1 :> To(-5, 1, Plain)) @@ (k2 :> To(1, -5, Plain)) @@ (k3 :> ToAll(-5, <<Chat, 1, 2, NoPeer>>, Plain))}
=============================================================================
