------------------------------ MODULE TaskVersion ------------------------------
(* What becomes of a task version, without workers, locks, triggers or saves:  *)
(* it is edited while it waits for its time; it is taken up once; it succeeds   *)
(* with a snapshot of exactly what it then says, or fails; and nothing changes  *)
(* its content once it was taken up or cancelled.                               *)
EXTENDS Naturals

CONSTANTS Versions,      \* the versions that may be created
          NoResult       \* no snapshot was taken

VARIABLES state,         \* version -> where its one execution is
          content,       \* version -> its edits so far
          result         \* version -> the content its snapshot was taken of

versionVars == <<state, content, result>>

Init == /\ state = [v \in Versions |-> "none"]
        /\ content = [v \in Versions |-> 0]
        /\ result = [v \in Versions |-> NoResult]

\* Created to wait for its time or to run at once; its time brought forward; called
\* off; taken up for good, from where no version is put back; and how that ends.  A
\* version whose snapshot is stored may still be declared failed, and keeps it.
Lifecycle == {<<"none", "scheduled">>, <<"none", "queued">>,
              <<"scheduled", "queued">>, <<"scheduled", "cancelled">>,
              <<"scheduled", "executing">>, <<"queued", "executing">>,
              <<"executing", "succeeded">>, <<"executing", "failed">>,
              <<"succeeded", "failed">>}

Edit(v) == /\ state[v] = "scheduled"
           /\ content' = [content EXCEPT ![v] = @ + 1]
           /\ UNCHANGED <<state, result>>

\* Who succeeds leaves the snapshot, of the content that stands.
Move(v) == /\ state'[v] # state[v]
           /\ <<state[v], state'[v]>> \in Lifecycle
           /\ state' = [state EXCEPT ![v] = state'[v]]
           /\ result' = IF state'[v] = "succeeded" THEN [result EXCEPT ![v] = content[v]]
                                                   ELSE result
           /\ UNCHANGED content

Next == \E v \in Versions : Edit(v) \/ Move(v)

Spec == Init /\ [][Next]_versionVars
================================================================================
