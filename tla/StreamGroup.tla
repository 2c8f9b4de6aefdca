------------------------------ MODULE StreamGroup ------------------------------
(* The consumer group of one Redis Stream topic: the loop of                   *)
(* RedisStreamSubscriber.Subscribe in every consumer of the group.  Whoever    *)
(* instantiates the module appends to the stream (EventPipeline: the relay).   *)
(*   src/internal/infrastructure/messaging/redis_subscriber.go                 *)
EXTENDS Naturals, Sequences

CONSTANTS Messages,      \* what a stream entry can carry
          Consumers,     \* subscriber loops of the group, one per instance
          ReadCount,     \* COUNT of XREADGROUP
          MaxGroupFaults \* bound: failed creations, lost replies, handler and ack errors, crashes

VARIABLES stream,        \* the entries, oldest first; an entry's id is its index
          created,       \* the consumer group exists
          started,       \* consumer -> its loop is past the creation of the group
          cursor,        \* the group's last-delivered id
          pel,           \* ids delivered to some consumer and not acknowledged
          next, last,    \* consumer -> the ids next..last of its reply are unhandled
          toAck,         \* consumer -> the id whose handler succeeded, or 0
          handlerLog,    \* <<consumer, id>> of every handler run that succeeded
          groupFaults    \* faults so far

groupVars == <<created, started, cursor, pel, next, last, toAck, handlerLog, groupFaults>>

Ids == DOMAIN stream
InHand(c) == next[c]..last[c]

GroupTypeOK ==
    /\ stream \in Seq(Messages)
    /\ created \in BOOLEAN
    /\ started \in [Consumers -> BOOLEAN]
    /\ cursor \in Nat
    /\ pel \subseteq Ids
    /\ next \in [Consumers -> Nat]
    /\ last \in [Consumers -> Nat]
    /\ toAck \in [Consumers -> Nat]
    /\ handlerLog \in Seq(Consumers \X Ids)
    /\ groupFaults \in Nat

\* No subscriber has run yet; a group created with the id 0 starts before the
\* first entry, whenever that is.
GroupInit ==
    /\ created = FALSE
    /\ started = [c \in Consumers |-> FALSE]
    /\ cursor = 0
    /\ pel = {}
    /\ next = [c \in Consumers |-> 1]
    /\ last = [c \in Consumers |-> 0]
    /\ toAck = [c \in Consumers |-> 0]
    /\ handlerLog = <<>>
    /\ groupFaults = 0

GroupFault == /\ groupFaults < MaxGroupFaults
              /\ groupFaults' = groupFaults + 1

\* XGROUP CREATE ... 0 MKSTREAM: done, or BUSYGROUP; the loop starts.
CreateGroup(c) ==
    /\ ~started[c]
    /\ created' = TRUE
    /\ started' = [started EXCEPT ![c] = TRUE]
    /\ UNCHANGED <<stream, cursor, pel, next, last, toAck, handlerLog, groupFaults>>

\* Any other error (it may come after the command took effect) is logged, and the
\* loop starts all the same: nothing in it creates the group again.
CreateGroupError(c) ==
    /\ ~started[c]
    /\ created' \in {created, TRUE}
    /\ started' = [started EXCEPT ![c] = TRUE]
    /\ GroupFault
    /\ UNCHANGED <<stream, cursor, pel, next, last, toAck, handlerLog>>

\* What XREADGROUP with the id ">" hands out: at most ReadCount entries after
\* the group's cursor, which moves to the last of them.
LastNew == IF Len(stream) < cursor + ReadCount THEN Len(stream) ELSE cursor + ReadCount
NewEntries == (cursor + 1)..LastNew

Deliver == /\ NewEntries # {}
           /\ cursor' = LastNew
           /\ pel' = pel \cup NewEntries

\* The loop has nothing in hand; while there is no group, XREADGROUP answers
\* NOGROUP, and the loop sleeps and asks again.
Reading(c) == created /\ started[c] /\ InHand(c) = {} /\ toAck[c] = 0

XReadGroup(c) ==
    /\ Reading(c)
    /\ Deliver
    /\ next' = [next EXCEPT ![c] = cursor + 1]
    /\ last' = [last EXCEPT ![c] = LastNew]
    /\ UNCHANGED <<stream, created, started, toAck, handlerLog, groupFaults>>

\* The reply is lost: the loop sleeps and asks for newer entries, ">" never
\* returns these again.
XReadGroupReplyLost(c) ==
    /\ Reading(c)
    /\ Deliver
    /\ GroupFault
    /\ UNCHANGED <<stream, created, started, next, last, toAck, handlerLog>>

Handle(c) ==
    /\ InHand(c) # {}
    /\ toAck[c] = 0
    /\ handlerLog' = Append(handlerLog, <<c, next[c]>>)
    /\ toAck' = [toAck EXCEPT ![c] = next[c]]
    /\ next' = [next EXCEPT ![c] = @ + 1]
    /\ UNCHANGED <<stream, created, started, cursor, pel, last, groupFaults>>

\* The handler returns an error: logged, not acknowledged, never claimed.
HandleError(c) ==
    /\ InHand(c) # {}
    /\ toAck[c] = 0
    /\ next' = [next EXCEPT ![c] = @ + 1]
    /\ GroupFault
    /\ UNCHANGED <<stream, created, started, cursor, pel, last, toAck, handlerLog>>

XAck(c) ==
    /\ toAck[c] # 0
    /\ pel' = pel \ {toAck[c]}
    /\ toAck' = [toAck EXCEPT ![c] = 0]
    /\ UNCHANGED <<stream, created, started, cursor, next, last, handlerLog, groupFaults>>

XAckError(c) ==
    /\ toAck[c] # 0
    /\ toAck' = [toAck EXCEPT ![c] = 0]
    /\ GroupFault
    /\ UNCHANGED <<stream, created, started, cursor, pel, next, last, handlerLog>>

\* The process dies; the restarted one creates the group and asks for ">" again.
CrashConsumer(c) ==
    /\ started[c]
    /\ started' = [started EXCEPT ![c] = FALSE]
    /\ next' = [next EXCEPT ![c] = last[c] + 1]
    /\ toAck' = [toAck EXCEPT ![c] = 0]
    /\ GroupFault
    /\ UNCHANGED <<stream, created, cursor, pel, last, handlerLog>>

ConsumerStep(c)  == CreateGroup(c) \/ XReadGroup(c) \/ Handle(c) \/ XAck(c)
ConsumerFault(c) == \/ CreateGroupError(c) \/ XReadGroupReplyLost(c)
                    \/ HandleError(c) \/ XAckError(c) \/ CrashConsumer(c)

GroupNext == \E c \in Consumers : ConsumerStep(c) \/ ConsumerFault(c)

-----------------------------------------------------------------------------
(* What must hold                                                             *)

Handled == {handlerLog[i][2] : i \in DOMAIN handlerLog}

\* The loop only ever asks for ">": no crash, lost acknowledgement or error
\* makes an entry go through a handler twice.
EntryHandledAtMostOnce ==
    \A i, j \in DOMAIN handlerLog : handlerLog[i][2] = handlerLog[j][2] => i = j

\* Every subscriber has made its one attempt to create the group, and there is none.
NoGroup == ~created /\ \A c \in Consumers : started[c]

\* Entries that were handed out and are now nobody's work.
Stranded == {i \in 1..cursor : i \notin Handled /\ \A c \in Consumers : i \notin InHand(c)}
=============================================================================
