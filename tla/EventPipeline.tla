----------------------------- MODULE EventPipeline -----------------------------
(* The whole way of a domain event: outbox row, relay, Redis Stream, consumer  *)
(* group, handler.  OutboxRelay and StreamGroup share the stream and nothing   *)
(* else; their processes interleave.                                           *)
EXTENDS OutboxRelay

CONSTANTS Consumers,     \* subscriber loops of the group
          ReadCount,     \* COUNT of XREADGROUP
          MaxGroupFaults \* bound: faults on the consumer side

ASSUME GroupAssumption == /\ ReadCount \in Nat \ {0}
                          /\ MaxGroupFaults \in Nat
                          /\ IsFiniteSet(Consumers)

VARIABLES created, started, cursor, pel, next, last, toAck, handlerLog, groupFaults

\* The relay is the publisher, so its own bounds limit the stream.
Group == INSTANCE StreamGroup WITH Messages <- Events

groupVars == <<created, started, cursor, pel, next, last, toAck, handlerLog, groupFaults>>
pipelineVars == <<vars, groupVars>>

PipelineInit == Init /\ Group!GroupInit

PipelineNext ==
    \/ Next /\ UNCHANGED groupVars
    \/ /\ Group!GroupNext
       /\ UNCHANGED <<rowVars, now, relayVars, lock, faults>>

PipelineSpec == PipelineInit /\ [][PipelineNext]_pipelineVars

\* Relay loops and subscriber loops keep running, and Redis expires keys.
PipelineFairness ==
    /\ \A r \in Relays : WF_pipelineVars(RelayStep(r) /\ UNCHANGED groupVars)
    /\ WF_pipelineVars(LockTimeout /\ UNCHANGED groupVars)
    /\ \A c \in Consumers :
         WF_pipelineVars(/\ Group!ConsumerStep(c)
                         /\ UNCHANGED <<rowVars, now, relayVars, lock, faults>>)

PipelineFairSpec == PipelineSpec /\ PipelineFairness

-----------------------------------------------------------------------------
(* What must hold                                                             *)

HandlerRuns(e) == {i \in DOMAIN handlerLog : stream[handlerLog[i][2]] = e}

\* End to end, a handler runs twice for an event only after a relay-side fault:
\* no crash, lost reply, lost acknowledgement or handler error of a consumer ever
\* makes an entry go through a handler twice.
RepeatsAreRelayFaults ==
    /\ Group!EntryHandledAtMostOnce
    /\ LockEnabled =>
      \A e \in Events : Cardinality(HandlerRuns(e)) <= 1 + faults["redis"] + faults["db"]
                                                   + faults["lease"] + faults["crash"]

\* The copies of e that the consumer side has lost for good.
StrandedCopies(e) == {i \in Group!Stranded : stream[i] = e}

\* Every committed event is handled in the end, or is lost in one of three ways
\* only: its row ran out of retries, a consumer-side fault stranded a copy, or the
\* group is never created, because that failed in every subscriber's one attempt.
HandledOrAccountedFor ==
    \A e \in Events :
      status[e] = "pending"
        ~> \/ HandlerRuns(e) # {} \/ e \in Abandoned \/ StrandedCopies(e) # {}
           \/ []Group!NoGroup
=============================================================================
