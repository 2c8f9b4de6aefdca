------------------------------ MODULE OutboxRelay ------------------------------
(* The transactional outbox and its relay: business transactions insert rows,  *)
(* every server instance runs a relay loop that takes the Redis lock, reads a  *)
(* batch of pending rows, publishes them one by one to a Redis stream and      *)
(* marks each row.  A clean-up job deletes old rows.                           *)
(*   src/internal/infrastructure/outbox/processor.go                           *)
(*   src/internal/repository/system/outboxRepo.go                              *)
(*   src/pkg/redislock/concurrency_lock.go                                     *)
EXTENDS Naturals, Sequences, FiniteSets

CONSTANTS Events,        \* outbox events
          Relays,        \* server instances, each with one relay loop
          NoRelay,       \* the lock key is absent
          MaxRetries,    \* maxRetries of the relay, passed to both queries
          BatchSize,     \* LIMIT of the pending query
          LockEnabled,   \* Messaging.OutboxRelayLockEnabled
          MaxTime,       \* bound: seconds that created_at can tell apart
          MaxFaults      \* bound: how often each kind of fault happens

\* The kinds of fault the environment may inject: a Redis call that fails or
\* loses its reply, a database call that fails, a lock renewal that fails while
\* its holder runs on, and a process that dies.
FaultKinds == {"redis", "db", "lease", "crash"}

ASSUME OutboxAssumption ==
    /\ NoRelay \notin Relays
    /\ IsFiniteSet(Relays)
    /\ MaxRetries \in Nat \ {0}
    /\ BatchSize \in Nat \ {0}
    /\ LockEnabled \in BOOLEAN
    /\ MaxTime \in Nat
    /\ MaxFaults \in [FaultKinds -> Nat]

VARIABLES status,        \* event -> state of its row
          retry,         \* event -> retry_count
          createdAt,     \* event -> created_at
          now,           \* the second the clock shows
          stream,        \* the Redis stream: every XADD, in order
          pc,            \* relay -> where it is in Process
          batch,         \* relay -> rows it read and has not published yet
          cur,           \* relay -> the row it has published and not yet marked
          lock,          \* the relay whose token the lock key holds
          faults         \* kind -> faults so far

rowVars   == <<status, retry, createdAt>>
relayVars == <<pc, batch, cur>>
vars      == <<status, retry, createdAt, now, stream, pc, batch, cur, lock, faults>>

\* "none": not inserted; "open": inserted by a transaction that is still open,
\* so no other session sees it; "aborted": rolled back; "purged": soft-deleted.
Statuses == {"none", "open", "aborted", "pending", "published", "failed", "purged"}

PCs == {"idle", "fetch", "publish", "markPublished", "markFailed", "unlock"}

Committed == {e \in Events : status[e] \in {"pending", "published", "failed", "purged"}}

Running(r) == pc[r] # "idle"

\* The events the stream carries.
Streamed == {stream[i] : i \in DOMAIN stream}

TypeOK ==
    /\ status \in [Events -> Statuses]
    /\ retry \in [Events -> Nat]
    /\ createdAt \in [Events -> Nat]
    /\ now \in Nat
    /\ stream \in Seq(Events)
    /\ pc \in [Relays -> PCs]
    /\ batch \in [Relays -> SUBSET Events]
    /\ cur \in [Relays -> SUBSET Events]
    /\ lock \in Relays \cup {NoRelay}
    /\ faults \in [FaultKinds -> Nat]

Init ==
    /\ status = [e \in Events |-> "none"]
    /\ retry = [e \in Events |-> 0]
    /\ createdAt = [e \in Events |-> 0]
    /\ now = 0
    /\ stream = <<>>
    /\ pc = [r \in Relays |-> "idle"]
    /\ batch = [r \in Relays |-> {}]
    /\ cur = [r \in Relays |-> {}]
    /\ lock = NoRelay
    /\ faults = [k \in FaultKinds |-> 0]

Fault(k) == /\ faults[k] < MaxFaults[k]
            /\ faults' = [faults EXCEPT ![k] = @ + 1]

NoFault == UNCHANGED faults

-----------------------------------------------------------------------------
(* Business transactions                                                      *)

Tick == /\ now < MaxTime
        /\ now' = now + 1
        /\ UNCHANGED <<rowVars, stream, relayVars, lock, faults>>

\* PublishInTx: the row is inserted, created_at taken, the transaction open.
CreateInTx(e) ==
    /\ status[e] = "none"
    /\ status' = [status EXCEPT ![e] = "open"]
    /\ createdAt' = [createdAt EXCEPT ![e] = now]
    /\ UNCHANGED <<retry, now, stream, relayVars, lock, faults>>

EndTx(e, outcome) ==
    /\ status[e] = "open"
    /\ status' = [status EXCEPT ![e] = outcome]
    /\ UNCHANGED <<retry, createdAt, now, stream, relayVars, lock, faults>>

Commit(e)   == EndTx(e, "pending")
Rollback(e) == EndTx(e, "aborted")

-----------------------------------------------------------------------------
(* The relay loop: one poll tick or notification is one run of Process        *)

Goto(r, l) == pc' = [pc EXCEPT ![r] = l]

\* SET NX with a fresh token.  A relay that finds the key taken returns.
TryLock(r) ==
    /\ pc[r] = "idle"
    /\ IF LockEnabled
         THEN lock = NoRelay /\ lock' = r
         ELSE UNCHANGED lock
    /\ Goto(r, "fetch")
    /\ NoFault
    /\ UNCHANGED <<rowVars, now, stream, batch, cur>>

\* SET NX took effect and its reply was lost: Process returns the error, and
\* the key stays until its TTL runs out, with nobody to renew or release it.
TryLockReplyLost(r) ==
    /\ pc[r] = "idle"
    /\ LockEnabled
    /\ lock = NoRelay
    /\ lock' = r
    /\ Fault("redis")
    /\ UNCHANGED <<rowVars, now, stream, relayVars>>

Eligible == {e \in Events : status[e] = "pending" /\ retry[e] < MaxRetries}

\* ORDER BY created_at ASC LIMIT BatchSize; rows of one second come in any order.
PendingBatches ==
    {b \in SUBSET Eligible :
        /\ Cardinality(b) <= BatchSize
        /\ Cardinality(b) < BatchSize => b = Eligible
        /\ \A e \in b, f \in Eligible \ b : createdAt[e] <= createdAt[f]}

GetPendingEvents(r) ==
    /\ pc[r] = "fetch"
    /\ \E b \in PendingBatches :
         /\ batch' = [batch EXCEPT ![r] = b]
         /\ Goto(r, IF b = {} THEN "unlock" ELSE "publish")
    /\ NoFault
    /\ UNCHANGED <<rowVars, now, stream, cur, lock>>

GetPendingEventsError(r) ==
    /\ pc[r] = "fetch"
    /\ Goto(r, "unlock")
    /\ Fault("db")
    /\ UNCHANGED <<rowVars, now, stream, batch, cur, lock>>

\* The loop takes the rows in the order the query returned them.
Oldest(b) == {e \in b : \A f \in b : createdAt[e] <= createdAt[f]}

Take(r, e) == /\ batch' = [batch EXCEPT ![r] = @ \ {e}]
              /\ cur' = [cur EXCEPT ![r] = {e}]

Publish(r) ==
    /\ pc[r] = "publish"
    /\ \E e \in Oldest(batch[r]) :
         /\ Take(r, e)
         /\ stream' = Append(stream, e)
    /\ Goto(r, "markPublished")
    /\ NoFault
    /\ UNCHANGED <<rowVars, now, lock>>

\* XADD returns an error: it was not executed, or it was and the reply was lost.
PublishError(r) ==
    /\ pc[r] = "publish"
    /\ \E e \in Oldest(batch[r]) :
         /\ Take(r, e)
         /\ stream' \in {stream, Append(stream, e)}
    /\ Goto(r, "markFailed")
    /\ Fault("redis")
    /\ UNCHANGED <<rowVars, now, lock>>

\* The row is done with; Process goes on to the next one or returns.
NextRow(r) == /\ Goto(r, IF batch[r] = {} THEN "unlock" ELSE "publish")
              /\ cur' = [cur EXCEPT ![r] = {}]
              /\ UNCHANGED batch

\* Both updates address the row by event_id alone: the state it has by now does
\* not matter, except that gorm skips a soft-deleted row.
Marked(r) == {e \in cur[r] : status[e] # "purged"}

\* Faulty: the update matches no row.
MarkAsPublished_NoMatch(r) ==
    /\ pc[r] = "markPublished"
    /\ NextRow(r)
    /\ NoFault
    /\ UNCHANGED <<rowVars, now, stream, lock>>

MarkAsPublished(r) ==
    /\ pc[r] = "markPublished"
    /\ status' = [e \in Events |-> IF e \in Marked(r) THEN "published" ELSE status[e]]
    /\ NextRow(r)
    /\ NoFault
    /\ UNCHANGED <<retry, createdAt, now, stream, lock>>

\* Updates(map) sets the columns in the order of their names, and MySQL assigns
\* from left to right: when status is set, retry_count is already one more, and
\* CASE WHEN retry_count + 1 >= ? adds another one.
MarkAsFailed(r) ==
    /\ pc[r] = "markFailed"
    /\ retry' = [e \in Events |-> IF e \in Marked(r) THEN retry[e] + 1 ELSE retry[e]]
    /\ status' = [e \in Events |->
                    IF e \notin Marked(r) THEN status[e]
                    ELSE IF retry'[e] + 1 >= MaxRetries THEN "failed" ELSE "pending"]
    /\ NextRow(r)
    /\ NoFault
    /\ UNCHANGED <<createdAt, now, stream, lock>>

\* Either update fails: the error is logged and the loop goes on.
MarkError(r) ==
    /\ pc[r] \in {"markPublished", "markFailed"}
    /\ NextRow(r)
    /\ Fault("db")
    /\ UNCHANGED <<rowVars, now, stream, lock>>

\* Compare-and-delete: only the key that still holds this relay's token goes.
Unlock(r) ==
    /\ pc[r] = "unlock"
    /\ lock' = IF LockEnabled /\ lock = r THEN NoRelay ELSE lock
    /\ Goto(r, "idle")
    /\ NoFault
    /\ UNCHANGED <<rowVars, now, stream, batch, cur>>

\* The script never ran: renewal has already been stopped, the key times out.
UnlockError(r) ==
    /\ pc[r] = "unlock"
    /\ LockEnabled
    /\ Goto(r, "idle")
    /\ Fault("redis")
    /\ UNCHANGED <<rowVars, now, stream, batch, cur, lock>>

-----------------------------------------------------------------------------
(* Time-outs, crashes and clean-up                                            *)

\* Faulty: no renewal, the key times out under its holder.
LockTimeout_NoRenewal ==
    /\ lock # NoRelay
    /\ lock' = NoRelay
    /\ NoFault
    /\ UNCHANGED <<rowVars, now, stream, relayVars>>

\* Faulty: SET NX without a TTL.
LockTimeout_NoTTL == FALSE /\ UNCHANGED vars

\* The key of a relay that no longer renews it times out.
LockTimeout ==
    /\ lock # NoRelay
    /\ ~Running(lock)
    /\ lock' = NoRelay
    /\ NoFault
    /\ UNCHANGED <<rowVars, now, stream, relayVars>>

\* A renewal fails (or the process is paused past the TTL): autoRenew logs and
\* ends, the holder is not told and goes on with its batch.
LeaseLost ==
    /\ lock # NoRelay
    /\ Running(lock)
    /\ lock' = NoRelay
    /\ Fault("lease")
    /\ UNCHANGED <<rowVars, now, stream, relayVars>>

\* The process dies and is restarted; the lock key stays.
Crash(r) ==
    /\ Running(r)
    /\ Goto(r, "idle")
    /\ batch' = [batch EXCEPT ![r] = {}]
    /\ cur' = [cur EXCEPT ![r] = {}]
    /\ Fault("crash")
    /\ UNCHANGED <<rowVars, now, stream, lock>>

Purge(st) ==
    /\ \E old \in SUBSET {e \in Events : status[e] = st} :
         /\ old # {}
         /\ status' = [e \in Events |-> IF e \in old THEN "purged" ELSE status[e]]
    /\ UNCHANGED <<retry, createdAt, now, stream, relayVars, lock, faults>>

\* Faulty: deletes by age alone.
DeletePublishedBefore_AnyStatus == Purge("pending")

DeletePublishedBefore == Purge("published")
DeleteFailedBefore    == Purge("failed")

-----------------------------------------------------------------------------

RelayStep(r) ==
    \/ TryLock(r)
    \/ GetPendingEvents(r)
    \/ Publish(r)
    \/ MarkAsPublished(r)
    \/ MarkAsFailed(r)
    \/ Unlock(r)

RelayFault(r) ==
    \/ TryLockReplyLost(r)
    \/ GetPendingEventsError(r)
    \/ PublishError(r)
    \/ MarkError(r)
    \/ UnlockError(r)
    \/ Crash(r)

Next ==
    \/ Tick
    \/ \E e \in Events : CreateInTx(e) \/ Commit(e) \/ Rollback(e)
    \/ \E r \in Relays : RelayStep(r) \/ RelayFault(r)
    \/ LockTimeout
    \/ LeaseLost
    \/ DeletePublishedBefore
    \/ DeleteFailedBefore

Spec == Init /\ [][Next]_vars

-----------------------------------------------------------------------------
(* What must hold                                                             *)

\* MarkAsPublished follows a successful XADD whatever crashes, expired locks and
\* failed updates come between: a published row is in the stream.
PublishedIsStreamed == \A e \in Events : status[e] = "published" => e \in Streamed

\* NotifyNewOutboxEvent runs before the commit, and a relay may poll at any
\* moment of the transaction: nothing of a rolled-back one is ever published.
OnlyCommittedIsStreamed == Streamed \subseteq Committed

\* Failed publishes after which a row is given up: one less than maxRetries says,
\* because the CASE of MarkAsFailed sees the counter it has just incremented.
GivenUpAfter == IF MaxRetries > 1 THEN MaxRetries - 1 ELSE 1

\* MarkAsFailed decides by retry_count: no row is given up before GivenUpAfter
\* publishes of it failed, and none stays pending where GetPendingEvents, which
\* compares with maxRetries, cannot see it.
RetriesDecide ==
    \A e \in Events : /\ status[e] = "failed"  => retry[e] >= GivenUpAfter
                      /\ status[e] = "pending" => retry[e] < GivenUpAfter

\* Two relays run Process at once only after a renewal failed under a holder.
OverlapNeedsLostLease ==
    LockEnabled => Cardinality({r \in Relays : Running(r)}) <= 1 + faults["lease"]

\* Compare-and-delete and renewal: while a relay runs, its key leaves it only by
\* its own unlock, its death, or a renewal that failed.
OnlyHolderReleases ==
    [][\A r \in Relays :
         lock = r /\ Running(r) /\ lock' # r
           => pc'[r] = "idle" \/ faults'["lease"] > faults["lease"]]_vars

Abandoned == {e \in Events : status[e] \in {"failed", "purged"} /\ e \notin Streamed}

Delivery == INSTANCE EventDelivery
              WITH MaxAttempts <- GivenUpAfter,
                   accepted <- Committed, log <- stream, attempts <- retry,
                   abandoned <- Abandoned

\* The outbox implements its promise: accepted at commit, delivered at least
\* once, or given up on only after GivenUpAfter failures and no delivery.
ImplementsDelivery == Delivery!Spec
=============================================================================
