---- MODULE MCAssistant ----
(* The instance of AIConversation and AIMemory for TLC.  The writeback of a turn *)
(* starts when its stream is over and shares no state with it: each behaviour    *)
(* runs one of the two and leaves the other in its initial state, in which no    *)
(* fair action is enabled.                                                       *)
EXTENDS AIConversation, AIMemory

CONSTANTS c1, r1, r2

VARIABLE part

OneConversation == {c1}
TwoRequests     == {r1, r2}
SameTarget      == [r \in TwoRequests |-> c1]
OneOfEach       == [k \in FaultKinds |-> 1]

\* An inference, a statement of the user, a later inference; one turn says nothing.
ThreeTurns == <<"inferred", "explicit", "inferred">>

\* Organisations are alike, so it is as well to call that of the first turn home.
FirstAtHome == turns # <<>> => turns[1].org = "home"

mcVars == <<part, vars, memoryVars>>

MCInit == part \in {"streams", "memory"} /\ Init /\ MemoryInit

MCNext == \/ part = "streams" /\ Next /\ UNCHANGED <<part, memoryVars>>
          \/ part = "memory" /\ MemoryNext /\ UNCHANGED <<part, vars>>

MCFairSpec == MCInit /\ [][MCNext]_mcVars /\ Fairness /\ MemoryFairness
====
