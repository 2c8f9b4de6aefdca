---- MODULE MCDomainEvents ----
(* The instance for TLC of OutboxRelay, which delivers domain events, and of     *)
(* PermissionProjection, which handles those of permissions.  They share no      *)
(* state (EventPipeline composes the relay with the stream): each behaviour runs *)
(* one of the two and leaves the other in its initial state.                     *)
EXTENDS OutboxRelay, PermissionProjection, TLC

CONSTANTS e1, e2, r1, r2, i1, i2

TwoEvents == {e1, e2}
TwoRelays == {r1, r2}
TwoInstances == {i1, i2}

\* Each kind of fault, and failed publishes up to the second, with MaxRetries = 3.
MixedFaults == [k \in FaultKinds |-> IF k = "redis" THEN 2 ELSE 1]

\* A query or a reload and a broadcast fail.
FailedCalls == [k \in RuleFaultKinds |-> IF k \in {"db", "redis"} THEN 1 ELSE 0]

VARIABLE part

MCInit == part \in {"relay", "rules"} /\ Init /\ RuleInit

MCNext == \/ part = "relay" /\ Next /\ UNCHANGED <<part, ruleVars>>
          \/ part = "rules" /\ RuleNext /\ UNCHANGED <<part, vars>>

MCSpec == MCInit /\ [][MCNext]_<<part, vars, ruleVars>>

\* Events, relays and instances are interchangeable: no action names one of them.
Symmetric == Permutations(TwoEvents) \cup Permutations(TwoRelays) \cup Permutations(TwoInstances)
====
