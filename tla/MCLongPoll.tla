----------------------------- MODULE MCLongPoll -----------------------------
(***************************************************************************)
(* Small instances of LongPoll whose calls run the emission programs of    *)
(* the handlers.  A .cfg picks one of the constants below for Programs,    *)
(* Event, Registered and Home.                                             *)
(***************************************************************************)
EXTENDS LongPoll, TLC

CONSTANTS c1, c2, k1, k2, k3, i1, i2

E == INSTANCE Emissions

OneHome == [x \in Conn \cup Call |-> i1]
\* the second call, or the first, runs in another process than the client
FarHomes == [x \in Conn \cup Call |-> IF x = k2 THEN i2 ELSE i1]
FarHome == [x \in Conn \cup Call |-> IF x = k1 THEN i2 ELSE i1]

\* What is computed once for the calls' programs
Workload(P) ==
  LET events == E!EventsOf(UNION {P[k] : k \in DOMAIN P})
  IN  [programs |-> P, events |-> events, registered |-> E!Decodable(events)]

\* The whole catalogue in the client's process, against an event published in
\* the other one.
Catalogue == Workload((k1 :> E!WakingPrograms(1)) @@ (k2 :> {E!EmitUserOnline(2)}))
CataloguePrograms == Catalogue.programs
CatalogueEvents == Catalogue.events
CatalogueRegistered == Catalogue.registered

\* Three calls that overfill a history of two; two push a payload in common.
Prompt ==
  Workload((k1 :> {E!SetActivity(0)}) @@ (k2 :> {E!SetActivity(0)})
             @@ (k3 :> {E!CreateChat(3)}))
PromptPrograms == Prompt.programs
PromptEvents == Prompt.events
PromptRegistered == Prompt.registered

\* A published event, and one that wakes nobody or only if no push fails.
Mixed ==
  Workload((k1 :> {E!EmitUserOnline(1)})
             @@ (k2 :> {E!MarkAsImportant(2), E!ServiceMessage(2)}))
MixedPrograms == Mixed.programs
MixedEvents == Mixed.events
MixedRegistered == Mixed.registered

\* Short calls, with payloads of their own.
Typing == Workload((k1 :> {E!SetActivity(1)}) @@ (k2 :> {E!SetActivity(2)}))
TypingPrograms == Typing.programs
TypingEvents == Typing.events
TypingRegistered == Typing.registered
=============================================================================
