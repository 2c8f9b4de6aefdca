---- MODULE MCOJTask ----
(* Instances of OJTask for TLC.                                              *)
EXTENDS OJTask, TLC

CONSTANTS w1, w2, o1, o2

OneWorker    == {w1}
TwoWorkers   == {w1, w2}
OneOperator  == {o1}
TwoOperators == {o1, o2}

Symmetric == Permutations(TwoWorkers) \cup Permutations(TwoOperators)

Budget(db, commit, redis, crash, message, data) ==
    [k \in FaultKinds |-> CASE k = "db"    -> db    [] k = "commit"  -> commit
                            [] k = "redis" -> redis [] k = "crash"   -> crash
                            [] k = "data"  -> data  [] k = "message" -> message]

AllFaults  == Budget(1, 1, 1, 1, 1, 1)
LiveFaults == Budget(1, 0, 1, 1, 1, 1)

\* Further versions are made, and two operators work at once, only at rest: no
\* worker is on an execution, no fault has happened and the clock has not moved, and
\* drafts are planned for the next instant at most.  Elsewhere a draft would come
\* to nothing.
AtRest == /\ \A w \in Workers : worker[w].pc = "idle"
          /\ now = 0 /\ \A k \in FaultKinds : faults[k] = 0
          /\ \A t \in Tasks : task[t].content = 0 /\ exec[t].planned <= 1
VersionsAtRest ==
    \/ /\ \A t \in Tasks \ {1} : ~Exists(t)
       /\ Cardinality({o \in Operators : op[o].pc # "idle"}) <= 1
       /\ Exists(1) => \A o \in Operators : op[o].pc # "read"
    \/ AtRest
=============================================================================
