---------------------------- MODULE EventDelivery ----------------------------
(* What the transactional outbox promises, without rows, relays or locks: an  *)
(* event is accepted when the business transaction commits; it may then be    *)
(* delivered any number of times; attempts to deliver it may fail; and it is  *)
(* given up on only when MaxAttempts attempts failed and none got through.    *)
EXTENDS Naturals, Sequences

CONSTANTS Events,        \* the events business transactions produce
          MaxAttempts    \* failed attempts before an event is given up on

VARIABLES accepted,      \* events whose transaction committed
          log,           \* the sequence of deliveries
          attempts,      \* event -> failed attempts
          abandoned      \* accepted events nobody will hear of

deliveryVars == <<accepted, log, attempts, abandoned>>

Delivered(e) == \E i \in DOMAIN log : log[i] = e

Init == /\ accepted = {}
        /\ log = <<>>
        /\ attempts = [e \in Events |-> 0]
        /\ abandoned = {}

\* The transaction that carries event e commits.
Accept(e) == /\ e \notin accepted
             /\ accepted' = accepted \cup {e}
             /\ UNCHANGED <<log, attempts, abandoned>>

\* One more copy of e reaches the stream, even one that was given up on.
Deliver(e) == /\ e \in accepted
              /\ log' = Append(log, e)
              /\ abandoned' = abandoned \ {e}
              /\ UNCHANGED <<accepted, attempts>>

\* An attempt is counted as failed; the last one may be the end of the event.
FailAttempt(e) ==
    /\ e \in accepted
    /\ attempts' = [attempts EXCEPT ![e] = @ + 1]
    /\ abandoned' = IF attempts[e] + 1 >= MaxAttempts /\ ~Delivered(e)
                      THEN abandoned \cup {e} ELSE abandoned
    /\ UNCHANGED <<accepted, log>>

Next == \E e \in Events : Accept(e) \/ Deliver(e) \/ FailAttempt(e)

Spec == Init /\ [][Next]_deliveryVars
==============================================================================
