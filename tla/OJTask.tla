--------------------------------- MODULE OJTask ---------------------------------
(* OJ task versions, their executions, and everyone who works on them: the     *)
(* operators' requests, the dispatcher's scan workers and the consumers of the *)
(* trigger events.  A version and its execution share an id here: each version *)
(* is created with exactly one execution.                                      *)
(*   src/internal/service/system/ojTaskSvc.go                                  *)
(*   src/internal/service/system/ojTaskDispatcher.go                           *)
(*   src/internal/repository/system/ojTaskRepo.go, ojTaskExecutionRepo.go      *)
EXTENDS Naturals, FiniteSets

CONSTANTS MaxTasks,      \* bound: task versions ever created
          Workers,       \* goroutines that scan, or consume triggers
          Operators,     \* concurrent management requests
          Nobody,        \* no owner of a lock
          NoSnap,        \* no snapshot was persisted
          LockEnabled,   \* Task.DistributedLockEnabled
          MaxTime,       \* bound: the clock
          MaxEdits,      \* bound: edits of one version
          MaxFaults      \* bound: faults of each kind

\* A database call that fails, a commit whose reply is lost, a Redis call that
\* fails or a lease that is lost, a process that dies, a trigger message that is
\* lost or duplicated, and business data that makes the snapshot fail.
FaultKinds == {"db", "commit", "redis", "crash", "message", "data"}

ASSUME OJTaskAssumption ==
    /\ MaxTasks \in Nat \ {0}
    /\ Nobody \notin Workers \cup Operators
    /\ NoSnap \notin Nat
    /\ LockEnabled \in BOOLEAN
    /\ MaxTime \in Nat /\ MaxEdits \in Nat
    /\ MaxFaults \in [FaultKinds -> Nat]

Tasks == 1..MaxTasks

VARIABLES task,          \* oj_tasks: status, mode, root, parent, version, content
          exec,          \* oj_task_executions: status, planned_at
          snap,          \* task -> the content its persisted snapshot was built from
          taskRow,       \* task -> transaction that holds its row lock
          execRow,       \* task -> transaction that holds its execution's row lock
          lease,         \* task -> worker whose token the Redis lock holds
          triggers,      \* task -> trigger messages on their way to a consumer
          now,           \* the clock
          worker,        \* worker -> pc, row, the task struct it loaded, its snapshot
          op,            \* operator -> pc, request, task, requested planned_at
          faults         \* kind -> faults so far

rows == <<task, exec, snap>>
locks == <<taskRow, execRow>>
vars == <<task, exec, snap, taskRow, execRow, lease, triggers, now, worker, op, faults>>

TaskStatuses == {"none", "scheduled", "queued", "executing", "succeeded", "failed", "deleted"}
ExecStatuses == {"none", "scheduled", "queued", "executing", "succeeded", "failed", "cancelled"}
Modes == {"immediate", "scheduled"}
WorkerPCs == {"idle", "lock", "claim", "load", "setExecuting", "preflight", "snapshot",
              "persistExec", "persistTask", "failExec", "failTask", "unlock"}
\* The steps a worker takes on an execution it has claimed.
Claimed == WorkerPCs \ {"idle", "lock", "claim", "unlock"}
Requests == {"create", "revise", "retry", "update", "delete", "executeNow"}

TaskRecord == [status : TaskStatuses, mode : Modes, root : 0..MaxTasks,
               parent : 0..MaxTasks, version : Nat, content : 0..MaxEdits]
NoTask == [status |-> "none", mode |-> "immediate", root |-> 0, parent |-> 0,
           version |-> 0, content |-> 0]

TypeOK ==
    /\ task \in [Tasks -> TaskRecord]
    /\ exec \in [Tasks -> [status : ExecStatuses, planned : Nat]]
    /\ snap \in [Tasks -> Nat \cup {NoSnap}]
    /\ taskRow \in [Tasks -> Workers \cup Operators \cup {Nobody}]
    /\ execRow \in [Tasks -> Workers \cup Operators \cup {Nobody}]
    /\ lease \in [Tasks -> Workers \cup {Nobody}]
    /\ triggers \in [Tasks -> Nat]
    /\ now \in Nat
    /\ worker \in [Workers -> [pc : WorkerPCs, row : 0..MaxTasks, copy : TaskRecord,
                               seen : Nat]]
    /\ op \in [Operators -> [pc : {"idle", "locked", "read"}, req : Requests,
                             on : 0..MaxTasks, plan : Nat]]
    /\ faults \in [FaultKinds -> Nat]

IdleWorker == [pc |-> "idle", row |-> 0, copy |-> NoTask, seen |-> 0]
IdleOp     == [pc |-> "idle", req |-> "create", on |-> 0, plan |-> 0]

Init ==
    /\ task = [t \in Tasks |-> NoTask]
    /\ exec = [t \in Tasks |-> [status |-> "none", planned |-> 0]]
    /\ snap = [t \in Tasks |-> NoSnap]
    /\ taskRow = [t \in Tasks |-> Nobody]
    /\ execRow = [t \in Tasks |-> Nobody]
    /\ lease = [t \in Tasks |-> Nobody]
    /\ triggers = [t \in Tasks |-> 0]
    /\ now = 0
    /\ worker = [w \in Workers |-> IdleWorker]
    /\ op = [o \in Operators |-> IdleOp]
    /\ faults = [k \in FaultKinds |-> 0]

Fault(k) == /\ faults[k] < MaxFaults[k]
            /\ faults' = [faults EXCEPT ![k] = @ + 1]

NoFault == UNCHANGED faults

Free(lockTable, t) == lockTable[t] = Nobody

Exists(t) == task[t].status # "none"

Tick == /\ now < MaxTime
        /\ now' = now + 1
        /\ UNCHANGED <<rows, locks, lease, triggers, worker, op, faults>>

-----------------------------------------------------------------------------
(* Requests that edit a scheduled version in place                            *)

\* validateDraft has checked that execute_at lies in the future; then the
\* transaction locks the task row with SELECT ... FOR UPDATE.
BeginEdit(o) ==
    /\ op[o].pc = "idle"
    /\ \E r \in {"update", "delete", "executeNow"}, t \in Tasks, plan \in 0..(MaxTime + 1) :
         /\ IF r = "update" THEN plan > now ELSE plan = 0
         /\ r = "update" => task[t].content < MaxEdits
         /\ Exists(t) /\ task[t].status # "deleted"
         /\ Free(taskRow, t)
         /\ taskRow' = [taskRow EXCEPT ![t] = o]
         /\ op' = [op EXCEPT ![o] = [pc |-> "locked", req |-> r, on |-> t, plan |-> plan]]
    /\ NoFault
    /\ UNCHANGED <<rows, execRow, lease, triggers, now, worker>>

\* loadEditableScheduledTaskTx.
Editable(t) == /\ task[t].mode = "scheduled"
               /\ task[t].status = "scheduled"
               /\ exec[t].status = "scheduled"

EndEdit(o) == /\ taskRow' = [taskRow EXCEPT ![op[o].on] = Nobody]
              /\ op' = [op EXCEPT ![o] = IdleOp]

\* The execution row is locked as well, the version is checked, and the
\* transaction writes both rows and commits.  EditFails covers the early returns.
Edit(o) ==
    LET t == op[o].on IN
    /\ op[o].pc = "locked"
    /\ Free(execRow, t)
    /\ Editable(t)
    /\ EndEdit(o)

UpdateTask(o) ==
    LET t == op[o].on IN
    /\ op[o].req = "update"
    /\ Edit(o)
    /\ task' = [task EXCEPT ![t].content = @ + 1]
    /\ exec' = [exec EXCEPT ![t].planned = op[o].plan]
    /\ NoFault
    /\ UNCHANGED <<snap, execRow, lease, triggers, now, worker>>

DeleteTask(o) ==
    LET t == op[o].on IN
    /\ op[o].req = "delete"
    /\ Edit(o)
    /\ task' = [task EXCEPT ![t].status = "deleted"]
    /\ exec' = [exec EXCEPT ![t].status = "cancelled"]
    /\ NoFault
    /\ UNCHANGED <<snap, execRow, lease, triggers, now, worker>>

\* The outbox row of the trigger is written in the same transaction.
ExecuteTaskNow(o) ==
    LET t == op[o].on IN
    /\ op[o].req = "executeNow"
    /\ Edit(o)
    /\ task' = [task EXCEPT ![t].status = "queued"]
    /\ exec' = [exec EXCEPT ![t] = [status |-> "queued", planned |-> now]]
    /\ triggers' = [triggers EXCEPT ![t] = @ + 1]
    /\ NoFault
    /\ UNCHANGED <<snap, execRow, lease, now, worker>>

\* Not editable, refused by authorization, or a failed statement: rolled back.
EditFails(o) ==
    /\ op[o].pc = "locked"
    /\ Free(execRow, op[o].on)
    /\ EndEdit(o)
    /\ \/ ~Editable(op[o].on) /\ NoFault
       \/ Editable(op[o].on) /\ Fault("db")
    /\ UNCHANGED <<rows, execRow, lease, triggers, now, worker>>

-----------------------------------------------------------------------------
(* Requests that create a version                                             *)

\* validateDraft has accepted a draft, immediate (plan 0) or planned for the
\* future.  ReviseTask and RetryTask have also looked at the source, before
\* their transaction starts and without a lock.
Draft == {0} \cup (now + 1)..(MaxTime + 1)

ReadSource(o) ==
    /\ op[o].pc = "idle"
    /\ \E r \in {"create", "revise", "retry"}, t \in 0..MaxTasks, plan \in Draft :
         /\ IF r = "create" THEN t = 0
                            ELSE t \in Tasks /\ Exists(t) /\ task[t].status # "deleted"
         /\ r = "retry" => plan = 0 /\ exec[t].status \in {"succeeded", "failed"}
         /\ op' = [op EXCEPT ![o] = [pc |-> "read", req |-> r, on |-> t, plan |-> plan]]
    /\ NoFault
    /\ UNCHANGED <<rows, locks, lease, triggers, now, worker>>

Chain(root) == {t \in Tasks : Exists(t) /\ task[t].root = root}

NextVersionNo(root) ==
    LET latest == CHOOSE t \in Chain(root) : \A u \in Chain(root) :
                                                task[u].version <= task[t].version
    IN task[latest].version + 1

NewId == CHOOSE t \in Tasks : ~Exists(t) /\ \A u \in Tasks : ~Exists(u) => t <= u

\* createTaskVersionTx: version, execution and, if it is due at once, the outbox
\* row of its trigger, in one transaction.
InsertVersion(o, root, parent, version) ==
    LET plan == op[o].plan
        mode == IF plan = 0 THEN "immediate" ELSE "scheduled"
        status == IF plan = 0 THEN "queued" ELSE "scheduled" IN
    /\ op[o].pc = "read"
    /\ task' = [task EXCEPT ![NewId] =
                  [status |-> status, mode |-> mode, root |-> root, parent |-> parent,
                   version |-> version, content |-> 0]]
    /\ exec' = [exec EXCEPT ![NewId] =
                  [status |-> status, planned |-> IF plan = 0 THEN now ELSE plan]]
    /\ triggers' = [triggers EXCEPT ![NewId] = IF plan = 0 THEN 1 ELSE 0]
    /\ op' = [op EXCEPT ![o] = IdleOp]
    /\ NoFault
    /\ UNCHANGED <<snap, locks, lease, now, worker>>

CanInsert == \E t \in Tasks : ~Exists(t)

CreateTask(o) ==
    /\ op[o].req = "create"
    /\ CanInsert
    /\ InsertVersion(o, NewId, 0, 1)

\* GetLatestVersionByRootIDForUpdate locks the rows of the whole chain, so the
\* transaction waits for whoever holds one, and the number it reads is current.
CreateFromSource(o) ==
    LET source == op[o].on
        root == task[source].root IN
    /\ op[o].req \in {"revise", "retry"}
    /\ CanInsert
    /\ \A t \in Chain(root) : Free(taskRow, t)
    /\ InsertVersion(o, root, source, NextVersionNo(root))

\* The request is refused or its transaction fails.
GiveUp(o) ==
    /\ op[o].pc = "read"
    /\ op' = [op EXCEPT ![o] = IdleOp]
    /\ NoFault
    /\ UNCHANGED <<rows, locks, lease, triggers, now, worker>>

-----------------------------------------------------------------------------
(* Workers: dispatchSingleExecution                                           *)

Dispatchable == {"scheduled", "queued"}

At(w, pc) == worker[w].pc = pc
Row(w) == worker[w].row
GoTo(w, pc) == worker' = [worker EXCEPT ![w].pc = pc]
Leave(w)    == worker' = [worker EXCEPT ![w] = IdleWorker]

\* DispatchPendingExecutions: the due rows are read here and dispatched one
\* after the other, so any time may pass before this worker goes on.
ScanDue(w, t) ==
    /\ At(w, "idle")
    /\ exec[t].status \in Dispatchable
    /\ exec[t].planned <= now
    /\ worker' = [worker EXCEPT ![w] = [IdleWorker EXCEPT !.pc = "lock", !.row = t]]
    /\ NoFault
    /\ UNCHANGED <<rows, locks, lease, triggers, now, op>>

\* ExecuteExecutionByID: reads the row whatever its planned_at, and is done if
\* its status is not dispatchable any more.
ConsumeTrigger(w) ==
    /\ At(w, "idle")
    /\ \E t \in Tasks :
         /\ triggers[t] > 0
         /\ triggers' = [triggers EXCEPT ![t] = @ - 1]
         /\ worker' = IF exec[t].status \in Dispatchable
                        THEN [worker EXCEPT ![w] = [IdleWorker EXCEPT !.pc = "lock", !.row = t]]
                        ELSE worker
    /\ NoFault
    /\ UNCHANGED <<rows, locks, lease, now, op>>

\* At-least-once publishing repeats a message; a consumer that dies or returns
\* an error loses it.
TriggerFault ==
    /\ \E t \in Tasks : /\ triggers[t] > 0
                        /\ \E n \in {triggers[t] - 1, triggers[t] + 1} :
                             triggers' = [triggers EXCEPT ![t] = n]
    /\ Fault("message")
    /\ UNCHANGED <<rows, locks, lease, now, worker, op>>

\* A key that is taken means another instance is on it: a no-op.
AcquireLock(w) ==
    LET free == LockEnabled => Free(lease, Row(w)) IN
    /\ At(w, "lock")
    /\ IF free THEN GoTo(w, "claim") ELSE Leave(w)
    /\ lease' = IF free /\ LockEnabled THEN [lease EXCEPT ![Row(w)] = w] ELSE lease
    /\ NoFault
    /\ UNCHANGED <<rows, locks, triggers, now, op>>

AcquireLockError(w) ==
    /\ At(w, "lock")
    /\ LockEnabled
    /\ Leave(w)
    /\ Fault("redis")
    /\ UNCHANGED <<rows, locks, lease, triggers, now, op>>

\* Faulty: the task is read before the claim and the read is not repeated.
ClaimExecution_StaleCopy(w) ==
    LET t == Row(w) IN
    /\ At(w, "claim")
    /\ \/ worker[w].copy = NoTask /\ UNCHANGED exec
          /\ worker' = [worker EXCEPT ![w].copy = task[t]]
       \/ /\ worker[w].copy # NoTask /\ Free(execRow, t) /\ exec[t].status \in Dispatchable
          /\ exec' = [exec EXCEPT ![t].status = "executing"]
          /\ worker' = [worker EXCEPT ![w].pc = "setExecuting"]
       \/ /\ worker[w].copy # NoTask /\ Free(execRow, t) /\ exec[t].status \notin Dispatchable
          /\ UNCHANGED exec
          /\ GoTo(w, "unlock")
    /\ NoFault
    /\ UNCHANGED <<task, snap, locks, lease, triggers, now, op>>

\* UPDATE ... WHERE id = ? AND status IN (scheduled, queued): it waits for the
\* row lock, then takes the row whatever its planned_at is by now.
ClaimExecution(w) ==
    LET t == Row(w)
        claimed == exec[t].status \in Dispatchable IN
    /\ At(w, "claim")
    /\ Free(execRow, t)
    /\ exec' = IF claimed THEN [exec EXCEPT ![t].status = "executing"] ELSE exec
    /\ GoTo(w, IF claimed THEN "load" ELSE "unlock")
    /\ NoFault
    /\ UNCHANGED <<task, snap, locks, lease, triggers, now, op>>

\* The update fails, before or after it took effect.
ClaimExecutionError(w) ==
    LET t == Row(w) IN
    /\ At(w, "claim")
    /\ Free(execRow, t)
    /\ exec' \in {exec, [exec EXCEPT ![t].status = IF @ \in Dispatchable THEN "executing" ELSE @]}
    /\ GoTo(w, "unlock")
    /\ Fault("db")
    /\ UNCHANGED <<task, snap, locks, lease, triggers, now, op>>

LoadRows(w) ==
    /\ At(w, "load")
    /\ worker' = [worker EXCEPT ![w].pc = "setExecuting", ![w].copy = task[Row(w)]]
    /\ NoFault
    /\ UNCHANGED <<rows, locks, lease, triggers, now, op>>

\* gorm's Save writes every column of the struct that was loaded.
Save(w, status) == [task EXCEPT ![Row(w)] = [worker[w].copy EXCEPT !.status = status]]

SetExecuting(w) ==
    /\ At(w, "setExecuting")
    /\ Free(taskRow, Row(w))
    /\ task' = Save(w, "executing")
    /\ GoTo(w, "preflight")
    /\ NoFault
    /\ UNCHANGED <<exec, snap, locks, lease, triggers, now, op>>

\* preFlightCheck runs in a transaction of its own, on the items only.
PreFlightCheck(w) ==
    /\ At(w, "preflight")
    /\ GoTo(w, "snapshot")
    /\ NoFault
    /\ UNCHANGED <<rows, locks, lease, triggers, now, op>>

BuildSnapshot(w) ==
    /\ At(w, "snapshot")
    /\ worker' = [worker EXCEPT ![w].pc = "persistExec", ![w].seen = task[Row(w)].content]
    /\ NoFault
    /\ UNCHANGED <<rows, locks, lease, triggers, now, op>>

\* The transaction inserts the snapshot rows and updates the execution row,
\* which it now holds; nothing is visible before the commit.
PersistExecution(w) ==
    /\ At(w, "persistExec")
    /\ Free(execRow, Row(w))
    /\ execRow' = [execRow EXCEPT ![Row(w)] = w]
    /\ GoTo(w, "persistTask")
    /\ NoFault
    /\ UNCHANGED <<rows, taskRow, lease, triggers, now, op>>

CommitSnapshot(w) ==
    LET t == Row(w) IN
    /\ Free(taskRow, t)
    /\ task' = Save(w, "succeeded")
    /\ exec' = [exec EXCEPT ![t].status = "succeeded"]
    /\ snap' = [snap EXCEPT ![t] = worker[w].seen]
    /\ execRow' = [execRow EXCEPT ![t] = Nobody]
    /\ UNCHANGED <<taskRow, lease, triggers, now, op>>

PersistTask(w) ==
    /\ At(w, "persistTask")
    /\ CommitSnapshot(w)
    /\ GoTo(w, "unlock")
    /\ NoFault

\* The commit took effect and its reply was lost: treated as a failure.
CommitReplyLost(w) ==
    /\ At(w, "persistTask")
    /\ CommitSnapshot(w)
    /\ GoTo(w, "failExec")
    /\ Fault("commit")

RollBack(w) == execRow' = [t \in Tasks |-> IF execRow[t] = w THEN Nobody ELSE execRow[t]]

\* Faulty: the error is returned and the execution is not marked.
AttemptError_NoMark(w) ==
    /\ worker[w].pc \in {"load", "setExecuting", "preflight", "snapshot", "persistExec", "persistTask"}
    /\ RollBack(w)
    /\ GoTo(w, "unlock")
    /\ \/ Fault("db")
       \/ At(w, "snapshot") /\ Fault("data")
    /\ UNCHANGED <<rows, taskRow, lease, triggers, now, op>>

\* Any call after the claim may fail; the attempt then ends in failExecutionAttempt.
AttemptError(w) ==
    /\ worker[w].pc \in {"load", "setExecuting", "preflight", "snapshot", "persistExec", "persistTask"}
    /\ RollBack(w)
    /\ GoTo(w, "failExec")
    /\ \/ Fault("db")
       \/ At(w, "snapshot") /\ Fault("data")
    /\ UNCHANGED <<rows, taskRow, lease, triggers, now, op>>

\* Faulty: puts the execution back for another attempt.
MarkExecutionFailed_Requeues(w) ==
    /\ At(w, "failExec")
    /\ Free(execRow, Row(w))
    /\ exec' = [exec EXCEPT ![Row(w)].status = "queued"]
    /\ GoTo(w, "failTask")
    /\ NoFault
    /\ UNCHANGED <<task, snap, locks, lease, triggers, now, op>>

\* markExecutionFailed: two saves, in no transaction.
MarkExecutionFailed(w) ==
    /\ At(w, "failExec")
    /\ Free(execRow, Row(w))
    /\ exec' = [exec EXCEPT ![Row(w)].status = "failed"]
    /\ GoTo(w, "failTask")
    /\ NoFault
    /\ UNCHANGED <<task, snap, locks, lease, triggers, now, op>>

\* Faulty: forgets the version.
MarkTaskFailed_Skipped(w) ==
    /\ At(w, "failTask")
    /\ GoTo(w, "unlock")
    /\ NoFault
    /\ UNCHANGED <<rows, locks, lease, triggers, now, op>>

MarkTaskFailed(w) ==
    /\ At(w, "failTask")
    /\ Free(taskRow, Row(w))
    /\ task' = [task EXCEPT ![Row(w)].status = "failed"]
    /\ GoTo(w, "unlock")
    /\ NoFault
    /\ UNCHANGED <<exec, snap, locks, lease, triggers, now, op>>

MarkFailedError(w) ==
    /\ worker[w].pc \in {"failExec", "failTask"}
    /\ GoTo(w, "unlock")
    /\ Fault("db")
    /\ UNCHANGED <<rows, locks, lease, triggers, now, op>>

ReleaseLock(w) ==
    /\ At(w, "unlock")
    /\ lease' = [t \in Tasks |-> IF t = Row(w) /\ lease[t] = w THEN Nobody ELSE lease[t]]
    /\ Leave(w)
    /\ NoFault
    /\ UNCHANGED <<rows, locks, triggers, now, op>>

ReleaseLockError(w) ==
    /\ At(w, "unlock")
    /\ LockEnabled
    /\ Leave(w)
    /\ Fault("redis")
    /\ UNCHANGED <<rows, locks, lease, triggers, now, op>>

-----------------------------------------------------------------------------
(* Deadlocks, time-outs, crashes                                              *)

\* An edit locks task then execution, persistExecutionSnapshot execution then
\* task.  InnoDB finds the cycle and rolls one of the two transactions back.
Deadlock(o, w) ==
    /\ op[o].pc = "locked" /\ At(w, "persistTask")
    /\ op[o].on = Row(w)
    /\ execRow[Row(w)] = w
    /\ \/ EndEdit(o) /\ UNCHANGED <<execRow, worker>>
       \/ RollBack(w) /\ GoTo(w, "failExec") /\ UNCHANGED <<taskRow, op>>
    /\ NoFault
    /\ UNCHANGED <<rows, lease, triggers, now>>

HoldsLease(w, t) == Row(w) = t /\ worker[w].pc \notin {"idle", "lock"}

\* Faulty: the key is written without an expiry.
LeaseTimeout_NoTTL == FALSE /\ UNCHANGED vars

\* The key of a worker that is gone expires.
LeaseTimeout ==
    /\ \E t \in Tasks : /\ lease[t] # Nobody
                        /\ ~HoldsLease(lease[t], t)
                        /\ lease' = [lease EXCEPT ![t] = Nobody]
    /\ NoFault
    /\ UNCHANGED <<rows, locks, triggers, now, worker, op>>

\* A renewal fails under a worker, which is not told.
LeaseLost ==
    /\ \E t \in Tasks : /\ lease[t] # Nobody
                        /\ HoldsLease(lease[t], t)
                        /\ lease' = [lease EXCEPT ![t] = Nobody]
    /\ Fault("redis")
    /\ UNCHANGED <<rows, locks, triggers, now, worker, op>>

\* The process dies: its transaction is rolled back, its Redis key stays.
CrashWorker(w) ==
    /\ ~At(w, "idle")
    /\ Leave(w)
    /\ RollBack(w)
    /\ Fault("crash")
    /\ UNCHANGED <<rows, taskRow, lease, triggers, now, op>>

-----------------------------------------------------------------------------

OperatorStep(o) ==
    \/ BeginEdit(o) \/ UpdateTask(o) \/ DeleteTask(o) \/ ExecuteTaskNow(o) \/ EditFails(o)
    \/ ReadSource(o) \/ CreateTask(o) \/ CreateFromSource(o) \/ GiveUp(o)

WorkerStep(w) ==
    \/ AcquireLock(w) \/ ClaimExecution(w) \/ LoadRows(w) \/ SetExecuting(w)
    \/ PreFlightCheck(w) \/ BuildSnapshot(w) \/ PersistExecution(w) \/ PersistTask(w)
    \/ MarkExecutionFailed(w) \/ MarkTaskFailed(w) \/ ReleaseLock(w)

WorkerFault(w) ==
    \/ AcquireLockError(w) \/ ClaimExecutionError(w) \/ CommitReplyLost(w) \/ AttemptError(w)
    \/ MarkFailedError(w) \/ ReleaseLockError(w) \/ CrashWorker(w)

Next ==
    \/ Tick
    \/ \E o \in Operators : OperatorStep(o) \/ \E w \in Workers : Deadlock(o, w)
    \/ \E w \in Workers : \/ \E t \in Tasks : ScanDue(w, t)
                        \/ ConsumeTrigger(w) \/ WorkerStep(w) \/ WorkerFault(w)
    \/ TriggerFault
    \/ LeaseTimeout
    \/ LeaseLost

Spec == Init /\ [][Next]_vars

\* The cron scan keeps coming round and takes every due row; a worker goes on
\* with what it has begun (InnoDB grants a row lock in the order of the requests,
\* hence SF); an open transaction ends; a deadlock is broken; Redis expires keys.
Fairness ==
    /\ \A w \in Workers : /\ SF_vars(WorkerStep(w))
                          /\ \A t \in Tasks : SF_vars(ScanDue(w, t))
    /\ \A o \in Operators : /\ WF_vars(UpdateTask(o) \/ DeleteTask(o) \/ ExecuteTaskNow(o)
                                          \/ EditFails(o))
                            /\ \A w \in Workers : WF_vars(Deadlock(o, w))
    /\ WF_vars(LeaseTimeout)

FairSpec == Spec /\ Fairness

-----------------------------------------------------------------------------
(* What must hold                                                             *)

\* ClaimExecution is where instances meet: with locks disabled or lost, with
\* repeated triggers and overlapping scans, one worker executes a version.
OneExecutor ==
    \A v, w \in Workers :
      worker[v].pc \in Claimed /\ worker[w].pc \in Claimed /\ Row(v) = Row(w) => v = w

\* Workers save whole structs they loaded earlier: no save ever takes back an
\* edit that UpdateTask has committed.
EditsAreKept == [][\A t \in Tasks : task'[t].content >= task[t].content]_vars

\* What becomes of a version, told by its execution, its edits and its snapshot.
States   == [t \in Tasks |-> exec[t].status]
Contents == [t \in Tasks |-> task[t].content]

Version == INSTANCE TaskVersion WITH Versions <- Tasks, NoResult <- NoSnap,
                                     state <- States, content <- Contents, result <- snap

\* Whatever workers, operators, locks and triggers do, a version is taken up once
\* and for good, its snapshot is of what it says, and its content stays from the
\* claim on: saves of whole structs and failures marked twice change nothing more.
ImplementsVersion == Version!Spec

\* DeleteTask never meets an execution half-way: a version is deleted exactly if
\* its execution is cancelled, and neither has a snapshot.
DeletedIsCancelled ==
    \A t \in Tasks : /\ task[t].status = "deleted" <=> exec[t].status = "cancelled"
                     /\ task[t].status = "deleted" => snap[t] = NoSnap

Agree == {<<"none", "none">>, <<"scheduled", "scheduled">>, <<"queued", "queued">>,
          <<"succeeded", "succeeded">>, <<"failed", "failed">>, <<"deleted", "cancelled">>}

\* Concurrent revisions and retries number the versions of a chain 1, 2, ...
\* without a gap or a repetition.
VersionsAreNumbered ==
    \A t \in Tasks :
      Exists(t) => {task[u].version : u \in Chain(task[t].root)} = 1..Cardinality(Chain(task[t].root))

\* What different statements, transactions and calls write of a version agrees:
\* deletion and numbering always; the two status columns when nobody works on the
\* version, but for a lost write.
StatusesAgreeAtRest ==
    /\ DeletedIsCancelled
    /\ VersionsAreNumbered
    /\ faults["db"] + faults["commit"] + faults["crash"] = 0 =>
         \A t \in Tasks : \/ <<task[t].status, exec[t].status>> \in Agree
                          \/ \E w \in Workers : Row(w) = t /\ worker[w].pc \in Claimed

\* An execution that is due is taken up sooner or later, whatever trigger
\* message, lease or worker is lost: the scan backs the trigger up.
DueIsTakenUp ==
    \A t \in Tasks : exec[t].status \in Dispatchable /\ exec[t].planned <= now
                        ~> exec[t].status \notin Dispatchable \/ exec[t].planned > now

Ended(t) == exec[t].status \in {"succeeded", "failed", "cancelled"}

\* An execution under way ends, unless a process died or a failure could not be
\* written down.
ExecutingEnds ==
    \A t \in Tasks : exec[t].status = "executing"
                        ~> Ended(t) \/ faults["crash"] + faults["db"] > 0
=============================================================================
