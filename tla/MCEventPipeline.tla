---- MODULE MCEventPipeline ----
(* The instance of EventPipeline for TLC.                                    *)
EXTENDS EventPipeline

CONSTANTS e1, r1, c1, c2

OneEvent     == {e1}
OneRelay     == {r1}
TwoConsumers == {c1, c2}

\* Publishes fail or lose their reply until the row is given up, a mark fails, a
\* relay dies; relays that overlap are the business of MCDomainEvents.
PipelineFaults == [k \in FaultKinds |-> CASE k = "redis" -> 2 [] k = "lease" -> 0
                                           [] OTHER -> 1]
=============================================================================
