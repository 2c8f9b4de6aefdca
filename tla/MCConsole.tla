---- MODULE MCConsole ----
(* The instance of AccessGraph, Sessions, SSEBroker and QuestionIntake for TLC.  *)
(* They share no state: each behaviour runs one of them and leaves the others in *)
(* their initial states, so the same model values can stand for the members of   *)
(* the small sets of each.                                                       *)
EXTENDS AccessGraph, Sessions, SSEBroker, QuestionIntake, TLC

CONSTANTS a1, a2, b1, b2, c1, c2, only

Pair1 == {a1, a2}
Pair2 == {b1, b2}
Pair3 == {c1, c2}

\* One event was stored before; all titles are the one.
PastEvents == <<"past">>
OneTitle == [q \in Questions |-> only]

VARIABLE part

mcVars == <<part, accessVars, sessionVars, brokerVars, intakeVars>>

MCInit == /\ part \in {"access", "login", "broker", "intake"}
          /\ AccessInit /\ SessionInit /\ BrokerInit /\ IntakeInit
          \* A part that does not run starts in one of its initial states that has no rows.
          /\ part # "access" => /\ \A m \in Menus : menu[m].state = "absent"
                                /\ \A a \in Apis : api[a].state = "absent"

MCNext ==
    \/ part = "access" /\ AccessNext /\ UNCHANGED <<part, sessionVars, brokerVars, intakeVars>>
    \/ part = "login" /\ SessionNext /\ UNCHANGED <<part, accessVars, brokerVars, intakeVars>>
    \/ part = "broker" /\ BrokerNext /\ UNCHANGED <<part, accessVars, sessionVars, intakeVars>>
    \/ part = "intake" /\ IntakeNext /\ UNCHANGED <<part, accessVars, sessionVars, brokerVars>>

MCSpec == MCInit /\ [][MCNext]_mcVars

Symmetric == Permutations(Pair1) \cup Permutations(Pair2) \cup Permutations(Pair3)

\* Bounds: no revocation while the broker drains or two events are published, at most
\* one id before the last that a connection resumes from, and one goroutine filling
\* the cache at a time.
Few == /\ job[only].step # "idle" => /\ ~draining
                                     /\ \E e \in Pair3 : job[e].step = "idle"
       /\ \A c \in Pair1 : conn[c].last <= 1
       /\ Cardinality(filling) <= 1
====
