------------------------------ MODULE SpanPipeline ------------------------------
(* The trace backend: spans go from the requests' queues through the writer to *)
(* a Redis stream, and from there through a consumer to the table.  Each       *)
(* process runs one writer and one consumer of the group.                      *)
(*   src/pkg/observability/trace/backend.go                                    *)
(*   src/internal/repository/system/observabilityTraceRepo.go                  *)
EXTENDS Naturals, Sequences, FiniteSets

CONSTANTS Procs,
          Spans,
          Errors,        \* the spans with status error: the critical ones
          QueueSize,     \* NormalQueueSize, CriticalQueueSize
          BatchSize,     \* DBBatchSize
          ReadCount,     \* StreamReadCount
          MaxEntries,    \* bound: entries of the stream
          MaxSpanFaults  \* bound: faults of each kind

\* A Redis call fails or its reply is lost, a statement fails or its reply is
\* lost, a process is shut down or dies.
SpanFaultKinds == {"redis", "db", "stop"}

ASSUME SpanAssumption ==
    /\ Errors \subseteq Spans
    /\ QueueSize \in Nat \ {0} /\ BatchSize \in Nat \ {0} /\ ReadCount \in Nat \ {0}
    /\ MaxEntries \in Nat /\ MaxSpanFaults \in [SpanFaultKinds -> Nat]

VARIABLES sent,          \* span -> what RecordSpan made of it
          queue,         \* process -> spans in its two channels
          buffer,        \* process -> spans in the buffer of its writer
          fallback,      \* process -> flushToStream has failed
          stream,        \* the spans of the Redis stream, repetitions included
          cursor,        \* last entry delivered to the group
          pending,       \* entries delivered and not acknowledged
          batch,         \* process -> entries in the buffer of its consumer
          stored,        \* process -> its batch is in the table, XACK is due
          table,         \* span -> its row
          spanFaults     \* kind -> faults so far

writer == <<sent, queue, buffer, fallback>>
consumer == <<batch, stored>>
spanVars == <<writer, stream, cursor, pending, consumer, table, spanFaults>>

Entries == 1..MaxEntries

SpanTypeOK ==
    /\ sent \in [Spans -> {"new", "accepted", "dropped", "refused"}]
    /\ queue \in [Procs -> SUBSET Spans] /\ buffer \in [Procs -> SUBSET Spans]
    /\ fallback \in [Procs -> BOOLEAN]
    /\ stream \in Seq(Spans) /\ Len(stream) <= MaxEntries
    /\ cursor \in 0..MaxEntries
    /\ pending \subseteq Entries
    /\ batch \in [Procs -> SUBSET Entries] /\ stored \in [Procs -> BOOLEAN]
    /\ table \in [Spans -> {"absent", "stored", "purged"}]
    /\ spanFaults \in [SpanFaultKinds -> Nat]

SpanInit ==
    /\ sent = [s \in Spans |-> "new"]
    /\ queue = [p \in Procs |-> {}] /\ buffer = [p \in Procs |-> {}]
    /\ fallback = [p \in Procs |-> FALSE]
    /\ stream = <<>> /\ cursor = 0 /\ pending = {}
    /\ batch = [p \in Procs |-> {}] /\ stored = [p \in Procs |-> FALSE]
    /\ table = [s \in Spans |-> "absent"]
    /\ spanFaults = [k \in SpanFaultKinds |-> 0]

SpanFault(k) == /\ spanFaults[k] < MaxSpanFaults[k]
                /\ spanFaults' = [spanFaults EXCEPT ![k] = @ + 1]

NoSpanFault == UNCHANGED spanFaults

-----------------------------------------------------------------------------
(* The writer                                                                 *)

Channel(p, s) == {t \in queue[p] : t \in Errors <=> s \in Errors}

\* enqueue.  A full channel is waited for, or not; then a successful span is
\* dropped and counted, a failed one is refused with an error.  Successful spans
\* may also be sampled out.
RecordSpan(p, s) ==
    /\ sent[s] = "new"
    /\ \/ /\ Cardinality(Channel(p, s)) < QueueSize
          /\ queue' = [queue EXCEPT ![p] = @ \cup {s}]
          /\ sent' = [sent EXCEPT ![s] = "accepted"]
       \/ /\ s \in Errors => Cardinality(Channel(p, s)) >= QueueSize
          /\ sent' = [sent EXCEPT ![s] = IF s \in Errors THEN "refused" ELSE "dropped"]
          /\ UNCHANGED queue
    /\ NoSpanFault
    /\ UNCHANGED <<buffer, fallback, stream, cursor, pending, consumer, table>>

\* Whichever channel the select finds ready, until the buffer is full.
Take(p, s) ==
    /\ s \in queue[p]
    /\ Cardinality(buffer[p]) < BatchSize /\ ~fallback[p]
    /\ queue' = [queue EXCEPT ![p] = @ \ {s}]
    /\ buffer' = [buffer EXCEPT ![p] = @ \cup {s}]
    /\ NoSpanFault
    /\ UNCHANGED <<sent, fallback, stream, cursor, pending, consumer, table>>

\* The spans go in one after the other, in whatever order they came.
AppendAll(spans) ==
    /\ Len(stream) + Cardinality(spans) <= MaxEntries
    /\ \E order \in [1..Cardinality(spans) -> spans] :
         /\ \A s \in spans : \E i \in DOMAIN order : order[i] = s
         /\ stream' = stream \o order

\* One pipeline of XADDs, when the buffer is full or the ticker fires.
FlushToStream(p) ==
    /\ buffer[p] # {} /\ ~fallback[p]
    /\ AppendAll(buffer[p])
    /\ buffer' = [buffer EXCEPT ![p] = {}]
    /\ NoSpanFault
    /\ UNCHANGED <<sent, queue, fallback, cursor, pending, consumer, table>>

\* Faulty: the error is logged and the buffer cleared.
FlushToStreamError_NoFallback(p) ==
    /\ buffer[p] # {} /\ ~fallback[p]
    /\ buffer' = [buffer EXCEPT ![p] = {}]
    /\ SpanFault("redis")
    /\ UNCHANGED <<sent, queue, fallback, stream, cursor, pending, consumer, table>>

\* The pipeline is no transaction: any of its commands may have taken effect.
FlushToStreamError(p) ==
    /\ buffer[p] # {} /\ ~fallback[p]
    /\ \E spans \in SUBSET buffer[p] : AppendAll(spans)
    /\ fallback' = [fallback EXCEPT ![p] = TRUE]
    /\ SpanFault("redis")
    /\ UNCHANGED <<sent, queue, buffer, cursor, pending, consumer, table>>

\* BatchCreateIgnoreDup: a span that has its row keeps it.  A row the clean-up
\* has deleted is inserted again.
Insert(spans) == [s \in Spans |-> IF s \in spans THEN "stored" ELSE table[s]]

FlushToDB(p) ==
    /\ fallback[p]
    /\ table' = Insert(buffer[p])
    /\ buffer' = [buffer EXCEPT ![p] = {}]
    /\ fallback' = [fallback EXCEPT ![p] = FALSE]
    /\ NoSpanFault
    /\ UNCHANGED <<sent, queue, stream, cursor, pending, consumer>>

\* The buffer is cleared all the same.
FlushToDBError(p) ==
    /\ fallback[p]
    /\ table' \in {table, Insert(buffer[p])}
    /\ buffer' = [buffer EXCEPT ![p] = {}]
    /\ fallback' = [fallback EXCEPT ![p] = FALSE]
    /\ SpanFault("db")
    /\ UNCHANGED <<sent, queue, stream, cursor, pending, consumer>>

-----------------------------------------------------------------------------
(* The consumer                                                               *)

Room(p) == Cardinality(batch[p]) < BatchSize /\ ~stored[p]

SpansOf(entries) == {stream[i] : i \in entries}

Deliver(n) == /\ cursor' = cursor + n
              /\ pending' = pending \cup (cursor + 1)..(cursor + n)

Unread == IF Len(stream) - cursor < ReadCount THEN Len(stream) - cursor ELSE ReadCount

\* XREADGROUP of new entries; each goes into the buffer.
ReadNew(p) ==
    /\ Room(p) /\ Unread > 0
    /\ Deliver(Unread)
    /\ batch' = [batch EXCEPT ![p] = @ \cup (cursor + 1)..(cursor + Unread)]
    /\ NoSpanFault
    /\ UNCHANGED <<writer, stream, stored, table>>

\* The reply is lost: the entries are pending and in nobody's buffer.
ReadNewError(p) ==
    /\ Room(p) /\ Unread > 0
    /\ Deliver(Unread)
    /\ SpanFault("redis")
    /\ UNCHANGED <<writer, stream, consumer, table>>

\* Faulty: pending entries are not looked at again.
ClaimTimedOutPending_Never(p, i) == FALSE /\ UNCHANGED spanVars

\* claimTimedOutPending: an entry that is pending for PendingIdle, be it that of
\* a consumer that died or of one that is slow.
ClaimTimedOutPending(p, i) ==
    /\ Room(p)
    /\ i \in pending \ batch[p]
    /\ batch' = [batch EXCEPT ![p] = @ \cup {i}]
    /\ NoSpanFault
    /\ UNCHANGED <<writer, stream, cursor, pending, stored, table>>

Persist(p) ==
    /\ batch[p] # {} /\ ~stored[p]
    /\ table' = Insert(SpansOf(batch[p]))
    /\ stored' = [stored EXCEPT ![p] = TRUE]
    /\ NoSpanFault
    /\ UNCHANGED <<writer, stream, cursor, pending, batch>>

\* Not acknowledged: the entries stay pending and are claimed later.
PersistError(p) ==
    /\ batch[p] # {} /\ ~stored[p]
    /\ table' \in {table, Insert(SpansOf(batch[p]))}
    /\ batch' = [batch EXCEPT ![p] = {}]
    /\ SpanFault("db")
    /\ UNCHANGED <<writer, stream, cursor, pending, stored>>

Leave(p) == /\ batch' = [batch EXCEPT ![p] = {}]
            /\ stored' = [stored EXCEPT ![p] = FALSE]

Acknowledge(p) ==
    /\ stored[p]
    /\ pending' = pending \ batch[p]
    /\ Leave(p)
    /\ NoSpanFault
    /\ UNCHANGED <<writer, stream, cursor, table>>

AcknowledgeError(p) ==
    /\ stored[p]
    /\ pending' \in {pending, pending \ batch[p]}
    /\ Leave(p)
    /\ SpanFault("redis")
    /\ UNCHANGED <<writer, stream, cursor, table>>

-----------------------------------------------------------------------------

\* The process ends and comes back.  On ctx.Done the writer and the consumer
\* flush once more, but with the context that was just cancelled, so neither
\* Redis nor the database is reached: a shutdown loses what a crash loses.
Stop(p) ==
    /\ queue' = [queue EXCEPT ![p] = {}]
    /\ buffer' = [buffer EXCEPT ![p] = {}]
    /\ fallback' = [fallback EXCEPT ![p] = FALSE]
    /\ Leave(p)
    /\ SpanFault("stop")
    /\ UNCHANGED <<sent, stream, cursor, pending, table>>

\* CleanupBeforeByStatus deletes rows of a certain age.
CleanupBeforeByStatus(s) ==
    /\ table[s] = "stored"
    /\ table' = [table EXCEPT ![s] = "purged"]
    /\ NoSpanFault
    /\ UNCHANGED <<writer, stream, cursor, pending, consumer>>

WriterStep(p) ==
    \/ \E s \in Spans : Take(p, s)
    \/ FlushToStream(p) \/ FlushToDB(p)

ConsumerStep(p) == ReadNew(p) \/ Persist(p) \/ Acknowledge(p)

SpanNext ==
    \/ \E p \in Procs, s \in Spans : RecordSpan(p, s)
    \/ \E p \in Procs : WriterStep(p) \/ ConsumerStep(p)
    \/ \E p \in Procs, i \in Entries : ClaimTimedOutPending(p, i)
    \/ \E p \in Procs : \/ FlushToStreamError(p) \/ FlushToDBError(p) \/ ReadNewError(p)
                        \/ PersistError(p) \/ AcknowledgeError(p) \/ Stop(p)
    \/ \E s \in Spans : CleanupBeforeByStatus(s)

SpanSpec == SpanInit /\ [][SpanNext]_spanVars

\* The loop of runConsumer goes on in a process that runs: it reads, writes,
\* acknowledges and claims what stays pending.
SpanFairness ==
    \A p \in Procs : /\ WF_spanVars(ConsumerStep(p))
                     /\ \A i \in Entries : WF_spanVars(ClaimTimedOutPending(p, i))

-----------------------------------------------------------------------------
(* What must hold                                                             *)

InStream(s) == \E i \in DOMAIN stream : stream[i] = s /\ (i > cursor \/ i \in pending)
Held(s) == \E p \in Procs : s \in queue[p] \cup buffer[p]

\* An acknowledged entry has had its row, whichever consumers claimed it from
\* each other; and a span that was accepted is somewhere on its way or stored,
\* unless a process stopped or Redis and the database failed together.
SpansSurvive ==
    /\ \A i \in 1..cursor : i \notin pending => table[stream[i]] # "absent"
    /\ spanFaults["stop"] = 0 /\ (spanFaults["redis"] = 0 \/ spanFaults["db"] = 0) =>
         \A s \in Spans : sent[s] = "accepted" =>
                            Held(s) \/ InStream(s) \/ table[s] # "absent"

\* A span in the stream gets its row, whatever reply is lost or process dies:
\* unlike the event subscribers, this consumer claims what stays pending.
StreamedIsStored ==
    \A s \in Spans : InStream(s) ~> table[s] # "absent"
=============================================================================
