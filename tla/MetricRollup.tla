------------------------------ MODULE MetricRollup ------------------------------
(* The metrics backend: requests are counted in memory per minute, flushed to  *)
(* the table by increments, and a daily task sums the minutes of past days up  *)
(* and deletes them.  The 5m rows are handled like the 1m rows, the 1w rows    *)
(* like the 1d rows; both are left out.                                        *)
(*   src/pkg/observability/metrics/backend.go                                  *)
(*   src/internal/repository/system/observabilityMetricRepo.go                 *)
EXTENDS Naturals, FiniteSets, Functions

CONSTANTS Servers,
          Nobody,        \* no owner of the task lock
          DayLength,     \* minutes of a day
          Days,          \* bound: days
          FineRetention, \* FineRetentionDays
          RollupTimes,   \* minutes of the day rollup_cron may name
          MaxRequests,   \* bound: requests counted
          MaxMetricFaults \* bound: faults of each kind

\* A statement fails or its reply is lost, the lease of the task lock is lost, a
\* process dies.
MetricFaultKinds == {"db", "lease", "crash"}

ASSUME MetricRollupAssumption ==
    /\ IsFiniteSet(Servers) /\ Nobody \notin Servers
    /\ DayLength \in Nat \ {0} /\ Days \in Nat \ {0} /\ FineRetention \in Nat \ {0}
    /\ RollupTimes \subseteq 0..(DayLength - 1)
    /\ MaxRequests \in Nat /\ MaxMetricFaults \in [MetricFaultKinds -> Nat]

Minutes == 0..(DayLength * Days - 1)
Dates == 0..(Days - 1)
MinutesOf(d) == (DayLength * d)..(DayLength * d + DayLength - 1)

\* flush is called by the ticker's goroutine and by the task.
Flushers == Servers \X {"ticker", "task"}

VARIABLES now,           \* the minute
          at,            \* the minute of the day at which the task is due
          buckets,       \* process -> minute -> requests counted in memory
          flushing,      \* flusher -> the rows it swapped out, those still to write
          fine,          \* minute -> request_count of its 1m row, 0 for none
          day,           \* day -> request_count of its 1d row, 0 for none
          lease,         \* the process whose token the task lock holds
          task,          \* process -> pc, day it ran last, cutoff, sums
          served,        \* history: minute -> requests
          purged,        \* history: minute -> request_count of the row deleted
          split,         \* history: days summed up after rows of them were deleted
          metricFaults   \* kind -> faults so far

rollup == <<day, lease, task, purged, split>>
metricVars == <<now, at, buckets, flushing, fine, rollup, served, metricFaults>>

Zero == [m \in Minutes |-> 0]
Idle == [rows |-> Zero, left |-> {}]
NoTask == [pc |-> "idle", ran |-> 0, cutoff |-> 0, sum |-> [d \in Dates |-> 0], left |-> {}]

MetricTypeOK ==
    /\ now \in Minutes /\ at \in RollupTimes
    /\ buckets \in [Servers -> [Minutes -> Nat]]
    /\ flushing \in [Flushers -> [rows : [Minutes -> Nat], left : SUBSET Minutes]]
    /\ fine \in [Minutes -> Nat] /\ day \in [Dates -> Nat]
    /\ lease \in Servers \cup {Nobody}
    /\ task \in [Servers -> [pc : {"idle", "flush", "aggregate", "upsert", "delete"},
                             ran : Nat, cutoff : Nat, sum : [Dates -> Nat],
                             left : SUBSET Dates]]
    /\ served \in [Minutes -> Nat] /\ purged \in [Minutes -> Nat] /\ split \subseteq Dates
    /\ metricFaults \in [MetricFaultKinds -> Nat]

MetricInit ==
    /\ now = 0 /\ at \in RollupTimes
    /\ buckets = [p \in Servers |-> Zero]
    /\ flushing = [f \in Flushers |-> Idle]
    /\ fine = Zero /\ day = [d \in Dates |-> 0]
    /\ lease = Nobody
    /\ task = [p \in Servers |-> NoTask]
    /\ served = Zero /\ purged = Zero /\ split = {}
    /\ metricFaults = [k \in MetricFaultKinds |-> 0]

Fault(k) == /\ metricFaults[k] < MaxMetricFaults[k]
            /\ metricFaults' = [metricFaults EXCEPT ![k] = @ + 1]

NoFault == UNCHANGED metricFaults

Plus(f, g) == [m \in Minutes |-> f[m] + g[m]]

\* Requests of minute m that the table does not have yet.
InBucket(m) == [p \in Servers |-> buckets[p][m]]
InFlush(m) == [f \in Flushers |-> IF m \in flushing[f].left THEN flushing[f].rows[m] ELSE 0]
Waiting(m) == SumFunctionOnSet(InBucket(m), Servers) + SumFunctionOnSet(InFlush(m), Flushers)

InMemory(m) == \/ \E p \in Servers : buckets[p][m] > 0
               \/ \E f \in Flushers : flushing[f].rows[m] > 0

\* The task takes less than a minute, and no request waits for days to be flushed.
Tick ==
    /\ now + 1 \in Minutes
    /\ \A p \in Servers : task[p].pc = "idle"
    /\ \A m \in Minutes : InMemory(m) => m + DayLength > now + 1
    /\ now' = now + 1
    /\ NoFault
    /\ UNCHANGED <<at, buckets, flushing, fine, rollup, served>>

-----------------------------------------------------------------------------
(* Counting and flushing                                                      *)

RecordHTTP(p) ==
    /\ SumFunctionOnSet(served, Minutes) < MaxRequests
    /\ buckets' = [buckets EXCEPT ![p] = [@ EXCEPT ![now] = buckets[p][now] + 1]]
    /\ served' = [served EXCEPT ![now] = @ + 1]
    /\ NoFault
    /\ UNCHANGED <<now, at, flushing, fine, rollup>>

Busy(f) == flushing[f].left # {}
Counted(p) == {m \in Minutes : buckets[p][m] > 0}

\* swapBuckets, under the mutex.
SwapBuckets(f) ==
    /\ ~Busy(f) /\ Counted(f[1]) # {}
    /\ flushing' = [flushing EXCEPT ![f] = [rows |-> buckets[f[1]], left |-> Counted(f[1])]]
    /\ buckets' = [buckets EXCEPT ![f[1]] = Zero]

TickerFlush(p) ==
    /\ SwapBuckets(<<p, "ticker">>)
    /\ NoFault
    /\ UNCHANGED <<now, at, fine, rollup, served>>

Without(m, flush) == IF flush.left = {m} THEN Idle
                     ELSE [flush EXCEPT !.left = @ \ {m}]

\* Faulty: the upsert writes the value of the row instead of adding to it.
IncrementRow_Absolute(f, m) ==
    /\ m \in flushing[f].left
    /\ fine' = [fine EXCEPT ![m] = flushing[f].rows[m]]
    /\ flushing' = [flushing EXCEPT ![f] = Without(m, @)]
    /\ NoFault
    /\ UNCHANGED <<now, at, buckets, rollup, served>>

\* IncrementBatch: one statement for each row, in no transaction.
IncrementRow(f, m) ==
    /\ m \in flushing[f].left
    /\ fine' = [fine EXCEPT ![m] = @ + flushing[f].rows[m]]
    /\ flushing' = [flushing EXCEPT ![f] = Without(m, @)]
    /\ NoFault
    /\ UNCHANGED <<now, at, buckets, rollup, served>>

\* mergeBack puts all rows back, also those that were written.
IncrementError(f, m) ==
    /\ m \in flushing[f].left
    /\ fine' \in {fine, [fine EXCEPT ![m] = @ + flushing[f].rows[m]]}
    /\ buckets' = [buckets EXCEPT ![f[1]] = Plus(@, flushing[f].rows)]
    /\ flushing' = [flushing EXCEPT ![f] = Idle]
    /\ Fault("db")
    /\ UNCHANGED <<now, at, rollup, served>>

-----------------------------------------------------------------------------
(* RollupAndCleanup                                                           *)

At(p, pc) == task[p].pc = pc
Ended(p) == [NoTask EXCEPT !.ran = task[p].ran]
GoTo(p, pc) == task' = [task EXCEPT ![p].pc = pc]

\* The cron entry of a process fires; whoever finds the lock taken skips the day.
\* The cutoff carries seconds, so the bucket of its minute lies before it.
BeginTask(p) ==
    /\ At(p, "idle")
    /\ now % DayLength = at /\ now >= DayLength * FineRetention
    /\ task[p].ran < now
    /\ lease = Nobody
    /\ lease' = p
    /\ task' = [task EXCEPT ![p] = [pc |-> "flush", ran |-> now,
                                    cutoff |-> now + 1 - DayLength * FineRetention,
                                    sum |-> NoTask.sum, left |-> {}]]
    /\ NoFault
    /\ UNCHANGED <<now, at, buckets, flushing, fine, day, served, purged, split>>

\* The task flushes first; a failure of this flush is logged and forgotten.
TaskFlush(p) ==
    /\ At(p, "flush") /\ ~Busy(<<p, "task">>)
    /\ IF Counted(p) = {} THEN UNCHANGED <<buckets, flushing>> ELSE SwapBuckets(<<p, "task">>)
    /\ GoTo(p, "aggregate")
    /\ NoFault
    /\ UNCHANGED <<now, at, fine, day, lease, served, purged, split>>

Old(p) == {m \in Minutes : m < task[p].cutoff /\ fine[m] > 0}
Sums(p) == [d \in Dates |-> SumFunctionOnSet(fine, MinutesOf(d) \cap Old(p))]

\* Aggregate sums what is older than the cutoff, whatever else the day had.
Aggregate(p) ==
    /\ At(p, "aggregate") /\ ~Busy(<<p, "task">>)
    /\ task' = [task EXCEPT ![p] = [pc |-> "upsert", ran |-> @.ran, cutoff |-> @.cutoff,
                                    sum |-> Sums(p),
                                    left |-> {d \in Dates : Sums(p)[d] > 0}]]
    /\ split' = split \cup {d \in Dates : /\ Sums(p)[d] > 0
                                          /\ \E m \in MinutesOf(d) : purged[m] > 0}
    /\ NoFault
    /\ UNCHANGED <<now, at, buckets, flushing, fine, day, lease, served, purged>>

\* Faulty: adds to the row, as the flush does.
UpsertAbsolute_Adds(p) ==
    /\ At(p, "upsert")
    /\ \E d \in task[p].left : /\ day' = [day EXCEPT ![d] = @ + task[p].sum[d]]
                               /\ task' = [task EXCEPT ![p].left = @ \ {d}]
    /\ NoFault
    /\ UNCHANGED <<now, at, buckets, flushing, fine, lease, served, purged, split>>

\* UpsertAbsoluteBatch: one statement for each row.
UpsertAbsolute(p) ==
    /\ At(p, "upsert")
    /\ \E d \in task[p].left : /\ day' = [day EXCEPT ![d] = task[p].sum[d]]
                               /\ task' = [task EXCEPT ![p].left = @ \ {d}]
    /\ NoFault
    /\ UNCHANGED <<now, at, buckets, flushing, fine, lease, served, purged, split>>

BeginDelete(p) ==
    /\ At(p, "upsert") /\ task[p].left = {}
    /\ GoTo(p, "delete")
    /\ NoFault
    /\ UNCHANGED <<now, at, buckets, flushing, fine, day, lease, served, purged, split>>

Oldest(minutes) == CHOOSE m \in minutes : \A n \in minutes : m <= n

\* DeleteBeforeByGranularity: batches in the order of the buckets.
DeleteFine(p) ==
    /\ At(p, "delete") /\ Old(p) # {}
    /\ purged' = [purged EXCEPT ![Oldest(Old(p))] = fine[Oldest(Old(p))]]
    /\ fine' = [fine EXCEPT ![Oldest(Old(p))] = 0]
    /\ NoFault
    /\ UNCHANGED <<now, at, buckets, flushing, day, lease, task, served, split>>

EndTask(p) ==
    /\ At(p, "delete") /\ Old(p) = {}
    /\ task' = [task EXCEPT ![p] = Ended(p)]
    /\ lease' = IF lease = p THEN Nobody ELSE lease
    /\ NoFault
    /\ UNCHANGED <<now, at, buckets, flushing, fine, day, served, purged, split>>

\* Any statement of the task fails: it returns.
TaskError(p) ==
    /\ task[p].pc \in {"aggregate", "upsert", "delete"} /\ ~Busy(<<p, "task">>)
    /\ task' = [task EXCEPT ![p] = Ended(p)]
    /\ lease' = IF lease = p THEN Nobody ELSE lease
    /\ Fault("db")
    /\ UNCHANGED <<now, at, buckets, flushing, fine, day, served, purged, split>>

\* A renewal fails under the task, which is not told.
LeaseLost ==
    /\ lease # Nobody
    /\ lease' = Nobody
    /\ Fault("lease")
    /\ UNCHANGED <<now, at, buckets, flushing, fine, day, task, served, purged, split>>

\* What is in memory is lost; Redis forgets the lock before the next day.
Crash(p) ==
    /\ buckets' = [buckets EXCEPT ![p] = Zero]
    /\ flushing' = [f \in Flushers |-> IF f[1] = p THEN Idle ELSE flushing[f]]
    /\ task' = [task EXCEPT ![p] = Ended(p)]
    /\ lease' = IF lease = p THEN Nobody ELSE lease
    /\ Fault("crash")
    /\ UNCHANGED <<now, at, fine, day, served, purged, split>>

MetricNext ==
    \/ Tick
    \/ LeaseLost
    \/ \E p \in Servers : \/ RecordHTTP(p) \/ TickerFlush(p)
                       \/ BeginTask(p) \/ TaskFlush(p) \/ Aggregate(p) \/ UpsertAbsolute(p)
                       \/ BeginDelete(p) \/ DeleteFine(p) \/ EndTask(p)
                       \/ TaskError(p) \/ Crash(p)
    \/ \E f \in Flushers, m \in Minutes : IncrementRow(f, m) \/ IncrementError(f, m)

MetricSpec == MetricInit /\ [][MetricNext]_metricVars

-----------------------------------------------------------------------------
(* What must hold                                                             *)

Total(m) == Waiting(m) + fine[m] + purged[m]

\* Two goroutines of a process swap, write and merge back the same buckets while
\* requests are counted: no request is lost unless a process dies, and none is
\* counted twice unless a flush failed half-way.
CountedOnce ==
    \A m \in Minutes : /\ metricFaults["crash"] = 0 => Total(m) >= served[m]
                       /\ metricFaults["db"] = 0 => Total(m) <= served[m]

\* When the minutes of a day are gone, its 1d row has their sum, however many
\* processes and days ran the task and wherever it failed; but not for a day that
\* was summed up again after some of its minutes had been deleted.
Purged(d) == /\ \E m \in MinutesOf(d) : purged[m] > 0
             /\ \A m \in MinutesOf(d) : fine[m] = 0

DayIsWhole ==
    \A d \in Dates \ split :
      Purged(d) => day[d] = SumFunctionOnSet(purged, MinutesOf(d))
=============================================================================
