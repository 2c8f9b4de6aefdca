------------------------------ MODULE OJTaskProofs ------------------------------
(* Proofs about OJTask: who executes, edits, deletes and numbers the versions  *)
(* of a task, and what becomes of each of them (TaskVersion), for any number of *)
(* workers, operators, versions and faults; and about OJAccount with            *)
(* OJDailyStats: whose row, problems and switch are stored after any binds,     *)
(* events and synchronisations.                                                *)
EXTENDS OJTask, OJDailyStats, FiniteSetTheorems, SequenceTheorems, WellFoundedInduction, TLAPS

-----------------------------------------------------------------------------
(* The inductive invariant                                                     *)

Taken == {"executing", "succeeded", "failed"}

\* The steps at which a worker is going to save the struct it loaded.
Copying == {"setExecuting", "preflight", "snapshot", "persistExec", "persistTask"}

\* A version that was not created has no execution and no content.
Unborn == \A t \in Tasks : ~Exists(t) => exec[t].status = "none" /\ task[t].content = 0

\* A worker past its claim works on an execution that nobody can claim, edit or
\* cancel any more.
ClaimedIsTaken ==
    \A w \in Workers : /\ worker[w].pc # "idle" => Row(w) \in Tasks
                       /\ worker[w].pc \in Claimed => exec[Row(w)].status \in Taken
                       /\ worker[w].pc = "failTask" => exec[Row(w)].status = "failed"

\* Two structs of a version that differ in nothing but their status.
SameButStatus(x, y) ==
    /\ x.mode = y.mode /\ x.root = y.root /\ x.parent = y.parent
    /\ x.version = y.version /\ x.content = y.content

\* A struct that is going to be saved is, but for its status, what the row holds.
CopiesAreCurrent ==
    \A w \in Workers :
      worker[w].pc \in Copying => SameButStatus(worker[w].copy, task[Row(w)])

SnapsAreTaken == \A t \in Tasks : exec[t].status \notin Taken => snap[t] = NoSnap

RootsExist == \A t \in Tasks : Exists(t) => task[t].root \in Tasks /\ Exists(task[t].root)

\* An edit under way holds the row of a version that exists and has room for it;
\* a revision or a retry has read a version that exists.
EditsHold ==
    \A o \in Operators :
      /\ op[o].pc = "locked" => /\ op[o].on \in Tasks /\ Exists(op[o].on)
                                /\ taskRow[op[o].on] = o
                                /\ op[o].req = "update" => task[op[o].on].content < MaxEdits
      /\ op[o].pc = "read" /\ op[o].req # "create" => op[o].on \in Tasks /\ Exists(op[o].on)

Unbroken == faults["db"] + faults["commit"] + faults["crash"] = 0

AgreeOrClaimed ==
    \A t \in Tasks : \/ <<task[t].status, exec[t].status>> \in Agree
                     \/ \E w \in Workers : Row(w) = t /\ worker[w].pc \in Claimed

IInv ==
    /\ TypeOK
    /\ Unborn /\ RootsExist /\ VersionsAreNumbered
    /\ ClaimedIsTaken /\ CopiesAreCurrent /\ OneExecutor
    /\ SnapsAreTaken /\ DeletedIsCancelled
    /\ EditsHold
    /\ Unbroken => AgreeOrClaimed

-----------------------------------------------------------------------------
(* What no step but an insertion does to the versions                          *)

\* No version appears, disappears or changes its place in a chain, and none loses
\* content.
ChainsStay ==
    \A t \in Tasks : /\ task'[t].status = "none" <=> task[t].status = "none"
                     /\ task'[t].root = task[t].root
                     /\ task'[t].version = task[t].version
                     /\ task'[t].content >= task[t].content

\* Then the numbering of the chains stays, and every root stays.
LEMMA ChainsStayNumbered ==
    ASSUME VersionsAreNumbered, RootsExist, ChainsStay
    PROVE  VersionsAreNumbered' /\ RootsExist'
<1>1. \A t \in Tasks : Exists(t)' <=> Exists(t)
  BY DEF ChainsStay, Exists
<1>2. \A root : Chain(root)' = Chain(root)
  BY <1>1 DEF ChainsStay, Chain, Exists
<1>3. RootsExist'
  BY <1>1 DEF RootsExist, ChainsStay
<1>4. ASSUME NEW t \in Tasks, Exists(t)'
      PROVE  ({task[u].version : u \in Chain(task[t].root)}
                = 1..Cardinality(Chain(task[t].root)))'
  <2>1. PICK r : r = task[t].root OBVIOUS
  <2>2. task'[t].root = r
    BY <2>1 DEF ChainsStay
  <2>3. PICK C : C = Chain(r) OBVIOUS
  <2>5. \A u \in C : task'[u].version = task[u].version
    BY <2>3 DEF Chain, ChainsStay
  <2>6. {task[u].version : u \in C} = 1..Cardinality(C)
    BY <1>1, <1>4, <2>1, <2>3 DEF VersionsAreNumbered
  <2>7. {task'[u].version : u \in C} = 1..Cardinality(C)
    BY <2>5, <2>6
  <2>8. Chain(task[t].root)' = C
    BY <1>1, <2>2, <2>3, ChainsStay DEF Chain, ChainsStay, Exists
  <2> QED
    BY <2>7, <2>8
<1>5. VersionsAreNumbered'
  BY <1>4 DEF VersionsAreNumbered
<1> QED
  BY <1>3, <1>5

-----------------------------------------------------------------------------
(* Types                                                                       *)

\* A step of a worker that goes on or leaves, and of a budget that is spent,
\* keeps the types of what it writes.
LEMMA GoToIs ==
    ASSUME TypeOK, NEW w \in Workers, NEW pc \in WorkerPCs, GoTo(w, pc)
    PROVE  /\ worker' \in [Workers -> [pc : WorkerPCs, row : 0..MaxTasks, copy : TaskRecord,
                                       seen : Nat]]
           /\ worker'[w].pc = pc /\ worker'[w].row = worker[w].row
           /\ worker'[w].copy = worker[w].copy
           /\ \A v \in Workers \ {w} : worker'[v] = worker[v]
  BY DEF TypeOK, GoTo

LEMMA IdleIsTyped ==
    /\ IdleWorker \in [pc : WorkerPCs, row : 0..MaxTasks, copy : TaskRecord, seen : Nat]
    /\ NoTask \in TaskRecord
    /\ IdleOp \in [pc : {"idle", "locked", "read"}, req : Requests, on : 0..MaxTasks, plan : Nat]
  BY OJTaskAssumption DEF IdleWorker, IdleOp, NoTask, TaskRecord, WorkerPCs, Requests,
     TaskStatuses, Modes

LEMMA LeaveIs ==
    ASSUME TypeOK, NEW w \in Workers, Leave(w)
    PROVE  /\ worker' \in [Workers -> [pc : WorkerPCs, row : 0..MaxTasks, copy : TaskRecord,
                                       seen : Nat]]
           /\ worker'[w].pc = "idle"
           /\ \A v \in Workers \ {w} : worker'[v] = worker[v]
<1>1. IdleWorker.pc = "idle"
  BY DEF IdleWorker
<1> QED
  BY <1>1, IdleIsTyped DEF TypeOK, Leave

LEMMA FaultIs ==
    ASSUME TypeOK, NEW k \in FaultKinds, Fault(k)
    PROVE  /\ faults' \in [FaultKinds -> Nat]
           /\ faults'[k] = faults[k] + 1
           /\ \A j \in FaultKinds : faults'[j] >= faults[j]
  BY DEF TypeOK, Fault

LEMMA RollBackIs ==
    ASSUME TypeOK, NEW w \in Workers, RollBack(w)
    PROVE  execRow' \in [Tasks -> Workers \cup Operators \cup {Nobody}]
  BY DEF TypeOK, RollBack

\* Saving a worker's struct of a version writes its row and no other.
LEMMA SaveIs ==
    ASSUME TypeOK, NEW w \in Workers, Row(w) \in Tasks, NEW s \in TaskStatuses,
           task' = Save(w, s)
    PROVE  /\ task' \in [Tasks -> TaskRecord]
           /\ task'[Row(w)].status = s
           /\ SameButStatus(task'[Row(w)], worker[w].copy)
           /\ \A t \in Tasks \ {Row(w)} : task'[t] = task[t]
<1>1. worker[w].copy \in TaskRecord
  BY DEF TypeOK
<1>2. PICK c : c = [worker[w].copy EXCEPT !.status = s] OBVIOUS
<1>3. c \in TaskRecord /\ c.status = s /\ SameButStatus(c, worker[w].copy)
  BY <1>1, <1>2 DEF TaskRecord, SameButStatus
<1>4. task' = [task EXCEPT ![Row(w)] = c]
  BY <1>2 DEF Save
<1> QED
  BY <1>3, <1>4 DEF TypeOK

-----------------------------------------------------------------------------
(* Insertions                                                                  *)

\* Every non-empty set of naturals has a smallest element.
LEMMA LeastIs ==
    ASSUME NEW S \in SUBSET Nat, S # {}
    PROVE  \E m \in S : \A n \in S : m <= n
<1>1. IsWellFoundedOn(OpToRel(<,Nat), Nat)
  BY NatLessThanWellFounded
<1>2. PICK m \in S : \A n \in S : ~ (<<n, m>> \in OpToRel(<, Nat))
  BY <1>1, WFMin
<1>3. \A n \in S : n < m => <<n, m>> \in OpToRel(<, Nat)
  BY DEF OpToRel
<1>4. \A n \in S : ~(n < m)
  BY <1>2, <1>3, Zenon
<1>5. \A n \in S : m <= n
  BY <1>4
<1> QED
  BY <1>5

LEMMA NewIdIs ==
    ASSUME CanInsert
    PROVE  NewId \in Tasks /\ ~Exists(NewId)
<1> DEFINE S == {t \in Tasks : ~Exists(t)}
<1>1. S \in SUBSET Nat /\ S # {}
  BY OJTaskAssumption DEF CanInsert, Tasks
<1>2. PICK m \in S : \A n \in S : m <= n
  BY <1>1, LeastIs
<1>3. \E t \in Tasks : ~Exists(t) /\ \A u \in Tasks : ~Exists(u) => t <= u
  BY <1>2
<1> QED
  BY <1>3 DEF NewId

LEMMA ChainIsFinite ==
    ASSUME NEW r
    PROVE  IsFiniteSet(Chain(r)) /\ Cardinality(Chain(r)) \in Nat
<1>1. IsFiniteSet(Tasks)
  BY OJTaskAssumption, FS_Interval DEF Tasks
<1>2. Chain(r) \in SUBSET Tasks
  BY DEF Chain
<1>3. IsFiniteSet(Chain(r))
  BY <1>1, <1>2, FS_Subset
<1> QED
  BY <1>3, FS_CardinalityType

\* The number a revision gets is the one after the numbers its chain has.
LEMMA NextVersionIs ==
    ASSUME TypeOK, VersionsAreNumbered, NEW s \in Tasks, Exists(s)
    PROVE  NextVersionNo(task[s].root) = Cardinality(Chain(task[s].root)) + 1
<1>1. PICK r : r = task[s].root OBVIOUS
<1>2. PICK C : C = Chain(r) OBVIOUS
<1>3. PICK n : n = Cardinality(C) OBVIOUS
<1>4. n \in Nat /\ s \in C /\ IsFiniteSet(C)
  BY <1>1, <1>2, <1>3, ChainIsFinite DEF Chain
<1>5. n # 0
  BY <1>3, <1>4, FS_EmptySet
<1>6. {task[u].version : u \in C} = 1..n
  BY <1>1, <1>2, <1>3 DEF VersionsAreNumbered
<1>7. PICK l \in C : task[l].version = n
  BY <1>4, <1>5, <1>6
<1>8. \A u \in C : task[u].version \in 1..n
  BY <1>6
<1>9. \E t \in C : \A u \in C : task[u].version <= task[t].version
  BY <1>4, <1>7, <1>8
<1> DEFINE latest == CHOOSE t \in C : \A u \in C : task[u].version <= task[t].version
<1>10. latest \in C /\ \A u \in C : task[u].version <= task[latest].version
  BY <1>9
<1>11. NextVersionNo(r) = task[latest].version + 1
  BY <1>2 DEF NextVersionNo
<1>12. task[latest].version = n
  <2> HIDE DEF latest
  <2> QED
    BY <1>4, <1>7, <1>8, <1>10
<1> QED
  BY <1>1, <1>2, <1>3, <1>11, <1>12

\* A new version that is the first of its own chain, or the next of a chain whose
\* root exists, keeps the numbering of every chain.
LEMMA InsertNumbers ==
    ASSUME VersionsAreNumbered, RootsExist,
           NEW n \in Tasks, NEW r \in Tasks, ~Exists(n),
           \A t \in Tasks \ {n} : task'[t] = task[t],
           task'[n].status # "none", task'[n].root = r,
           task'[n].version = Cardinality(Chain(r)) + 1,
           {task[u].version : u \in Chain(r)} = 1..Cardinality(Chain(r)),
           r = n \/ Exists(r)
    PROVE  VersionsAreNumbered' /\ RootsExist'
<1>1. \A t \in Tasks : Exists(t)' <=> (t = n \/ Exists(t))
  BY DEF Exists
<1>2. RootsExist'
  BY <1>1 DEF RootsExist, Exists
<1>3. PICK C : C = Chain(r) OBVIOUS
<1>4. PICK c : c = Cardinality(C) OBVIOUS
<1>5. c \in Nat /\ IsFiniteSet(C) /\ n \notin C
  BY <1>3, <1>4, ChainIsFinite DEF Chain
<1>6. Cardinality(C \cup {n}) = c + 1
  BY <1>4, <1>5, FS_AddElement
<1>7. Chain(r)' = C \cup {n}
  BY <1>1, <1>3 DEF Chain, Exists
<1>8. {task'[u].version : u \in C \cup {n}} = 1..(c + 1)
  <2>1. \A u \in C : u # n /\ task'[u].version = task[u].version
    BY <1>3, <1>5 DEF Chain
  <2>2. {task'[u].version : u \in C} = 1..c
    BY <2>1, <1>3, <1>4
  <2>3. {task'[u].version : u \in C \cup {n}} = {task'[u].version : u \in C} \cup {c + 1}
    BY <1>3, <1>4
  <2>4. 1..(c + 1) = 1..c \cup {c + 1}
    BY <1>5
  <2> QED
    BY <2>2, <2>3, <2>4
<1>9. ASSUME NEW t \in Tasks, Exists(t)'
      PROVE  ({task[u].version : u \in Chain(task[t].root)}
                = 1..Cardinality(Chain(task[t].root)))'
  <2>1. CASE task'[t].root = r
    <3>1. Chain(task[t].root)' = C \cup {n}
      BY <2>1, <1>7
    <3> QED
      BY <3>1, <1>6, <1>8
  <2>2. CASE task'[t].root # r
    <3>1. PICK q : q = task[t].root OBVIOUS
    <3>2. Exists(t) /\ task'[t].root = q /\ q # r
      BY <2>2, <1>1, <1>9, <3>1
    <3>3. PICK D : D = Chain(q) OBVIOUS
    <3>4. \A u \in D : u # n /\ task'[u].version = task[u].version
      BY <3>3 DEF Chain
    <3>5. {task[u].version : u \in D} = 1..Cardinality(D)
      BY <3>1, <3>2, <3>3 DEF VersionsAreNumbered
    <3>6. {task'[u].version : u \in D} = 1..Cardinality(D)
      BY <3>4, <3>5
    <3>7. Chain(task[t].root)' = D
      BY <1>1, <3>2, <3>3 DEF Chain, Exists
    <3> QED
      BY <3>6, <3>7
  <2> QED
    BY <2>1, <2>2
<1>10. VersionsAreNumbered'
  BY <1>9 DEF VersionsAreNumbered
<1> QED
  BY <1>2, <1>10

-----------------------------------------------------------------------------
(* What the steps of a worker and of an operator have in common                *)

\* The two status columns of a version, as a step finds or leaves them.
Pair(t) == <<task[t].status, exec[t].status>>

\* A step of worker w that writes at most the rows of the version it works on, and
\* of these only what its position allows.
WorkerWrites(w) ==
    /\ \A v \in Workers \ {w} : worker'[v] = worker[v]
    /\ op' = op /\ taskRow' = taskRow
    /\ \A t \in Tasks : t # Row(w) => /\ task'[t] = task[t] /\ exec'[t] = exec[t]
                                      /\ snap'[t] = snap[t]
    /\ \A t \in Tasks : /\ SameButStatus(task'[t], task[t])
                        /\ task'[t].status = "none" <=> task[t].status = "none"
    \* A worker that has not claimed writes nothing but the claim.
    /\ worker[w].pc \notin Claimed =>
         /\ task' = task /\ snap' = snap
         /\ \A t \in Tasks : \/ exec'[t].status = exec[t].status
                             \/ /\ exec[t].status \in Dispatchable
                                /\ exec'[t].status = "executing"
                                /\ worker'[w].pc \in Claimed \/ ~Unbroken'
    \* A worker that has claimed keeps the execution from everyone else.
    /\ worker[w].pc \in Claimed =>
         /\ exec'[Row(w)].status \in Taken
         /\ task'[Row(w)].status = "deleted" => task[Row(w)].status = "deleted"
         /\ \/ worker'[w].pc \in Claimed
            \/ <<task'[Row(w)].status, exec'[Row(w)].status>> \in Agree
            \/ ~Unbroken'

\* Where that step takes the worker.
WorkerArrives(w) ==
    /\ worker'[w].pc # "idle" => worker'[w].row \in Tasks
    /\ worker'[w].pc \in Claimed =>
         /\ worker'[w].row = Row(w)
         /\ worker[w].pc \in Claimed \/ exec[Row(w)].status \in Dispatchable
         /\ exec'[Row(w)].status \in Taken
         /\ worker'[w].pc = "failTask" => exec'[Row(w)].status = "failed"
    /\ worker'[w].pc \in Copying => SameButStatus(worker'[w].copy, task[Row(w)])

\* Such a step keeps the invariant.
LEMMA WorkerKeeps ==
    ASSUME IInv, TypeOK', Unbroken' => Unbroken, NEW w \in Workers,
           WorkerWrites(w), WorkerArrives(w)
    PROVE  IInv'
<1>1. TypeOK
  BY DEF IInv
<1>2. ChainsStay
  BY <1>1 DEF WorkerWrites, ChainsStay, SameButStatus, TypeOK, TaskRecord
<1>3. VersionsAreNumbered' /\ RootsExist'
  BY <1>2, ChainsStayNumbered DEF IInv
<1>4. OneExecutor'
  <2>1. ASSUME NEW v \in Workers \ {w}, worker[v].pc \in Claimed, worker'[w].pc \in Claimed,
               Row(v) = worker'[w].row
        PROVE  FALSE
    <3>1. exec[Row(v)].status \in Taken
      BY <2>1 DEF IInv, ClaimedIsTaken
    <3>2. worker[w].pc \in Claimed /\ Row(w) = Row(v)
      BY <2>1, <3>1 DEF WorkerArrives, Taken, Dispatchable
    <3> QED
      BY <2>1, <3>2 DEF IInv, OneExecutor
  <2>2. \A v \in Workers \ {w} : worker'[v] = worker[v]
    BY DEF WorkerWrites
  <2> QED
    BY <2>1, <2>2 DEF OneExecutor, IInv, Row
<1>5. \A t \in Tasks : exec[t].status \in Taken => exec'[t].status \in Taken
  BY DEF WorkerWrites, Taken, Dispatchable
\* Whoever else works on a version finds its rows as they were.
<1>6. ASSUME NEW v \in Workers \ {w}, worker[v].pc \in Claimed
      PROVE  /\ worker'[v] = worker[v] /\ Row(v) \in Tasks
             /\ exec'[Row(v)].status = exec[Row(v)].status
             /\ SameButStatus(task'[Row(v)], task[Row(v)])
  <2>1. worker'[v] = worker[v] /\ worker[v].pc # "idle" /\ exec[Row(v)].status \in Taken
    BY <1>6 DEF IInv, ClaimedIsTaken, WorkerWrites, Claimed
  <2>2. Row(v) \in Tasks
    BY <2>1 DEF IInv, ClaimedIsTaken
  <2>3. CASE worker[w].pc \in Claimed
    <3>1. Row(v) # Row(w)
      BY <1>6, <2>3 DEF IInv, OneExecutor
    <3> QED
      BY <2>1, <2>2, <3>1 DEF WorkerWrites
  <2>4. CASE worker[w].pc \notin Claimed
    BY <2>1, <2>2, <2>4 DEF WorkerWrites, Taken, Dispatchable
  <2> QED
    BY <2>3, <2>4
<1>7. ClaimedIsTaken'
  <2>1. ASSUME NEW v \in Workers \ {w}
        PROVE  /\ worker'[v].pc # "idle" => worker'[v].row \in Tasks
               /\ worker'[v].pc \in Claimed => exec'[worker'[v].row].status \in Taken
               /\ worker'[v].pc = "failTask" => exec'[worker'[v].row].status = "failed"
    BY <1>6 DEF IInv, ClaimedIsTaken, WorkerWrites, Row, Claimed, WorkerPCs
  <2>2. /\ worker'[w].pc # "idle" => worker'[w].row \in Tasks
        /\ worker'[w].pc \in Claimed => exec'[worker'[w].row].status \in Taken
        /\ worker'[w].pc = "failTask" => exec'[worker'[w].row].status = "failed"
    BY DEF WorkerArrives, Claimed, WorkerPCs
  <2> QED
    BY <2>1, <2>2 DEF ClaimedIsTaken, Row
<1>8. CopiesAreCurrent'
  <2>1. Copying \subseteq Claimed
    BY DEF Copying, Claimed, WorkerPCs
  <2>2. ASSUME NEW v \in Workers \ {w}, worker'[v].pc \in Copying
        PROVE  SameButStatus(worker'[v].copy, task'[worker'[v].row])
    <3>1. worker'[v] = worker[v] /\ worker[v].pc \in Claimed
      BY <2>1, <2>2 DEF WorkerWrites
    <3>2. SameButStatus(worker[v].copy, task[Row(v)])
      BY <2>2, <3>1 DEF IInv, CopiesAreCurrent
    <3> QED
      BY <1>6, <3>1, <3>2 DEF SameButStatus, Row
  <2>3. ASSUME worker'[w].pc \in Copying
        PROVE  SameButStatus(worker'[w].copy, task'[worker'[w].row])
    <3>1. worker'[w].pc # "idle"
      BY <2>3 DEF Copying
    <3>2. worker'[w].row = Row(w) /\ Row(w) \in Tasks
      BY <2>1, <2>3, <3>1 DEF WorkerArrives
    <3>3. SameButStatus(worker'[w].copy, task[Row(w)])
      BY <2>3 DEF WorkerArrives
    <3>4. SameButStatus(task'[Row(w)], task[Row(w)])
      BY <3>2 DEF WorkerWrites
    <3> QED
      BY <3>2, <3>3, <3>4 DEF SameButStatus
  <2> QED
    BY <2>2, <2>3 DEF CopiesAreCurrent, Row
<1>9. Unborn'
  BY <1>1 DEF IInv, Unborn, WorkerWrites, ClaimedIsTaken, Exists, SameButStatus, Taken, Dispatchable,
     Claimed
<1>10. SnapsAreTaken'
  BY <1>5 DEF IInv, SnapsAreTaken, WorkerWrites
<1>11. DeletedIsCancelled'
  BY DEF IInv, DeletedIsCancelled, SnapsAreTaken, WorkerWrites, ClaimedIsTaken, Taken, Dispatchable
<1>12. EditsHold'
  BY DEF IInv, EditsHold, WorkerWrites, Exists, SameButStatus
<1>13. ASSUME Unbroken' PROVE AgreeOrClaimed'
  <2>1. SUFFICES ASSUME NEW t \in Tasks
                 PROVE  \/ Pair(t)' \in Agree
                        \/ \E v \in Workers : worker'[v].row = t /\ worker'[v].pc \in Claimed
    BY DEF AgreeOrClaimed, Pair, Row
  <2>2. \/ Pair(t) \in Agree
        \/ \E v \in Workers : Row(v) = t /\ worker[v].pc \in Claimed
    BY <1>13 DEF IInv, AgreeOrClaimed, Pair
  <2>3. ASSUME NEW v \in Workers \ {w}, Row(v) = t, worker[v].pc \in Claimed
        PROVE  worker'[v].row = t /\ worker'[v].pc \in Claimed
    BY <2>3 DEF WorkerWrites, Row
  <2>4. CASE worker[w].pc \in Claimed
    <3>1. CASE t = Row(w)
      BY <1>13, <2>4, <3>1 DEF WorkerWrites, WorkerArrives, Pair
    <3>2. CASE t # Row(w)
      BY <2>2, <2>3, <3>2 DEF WorkerWrites, Pair
    <3> QED
      BY <3>1, <3>2
  <2>5. CASE worker[w].pc \notin Claimed
    <3>1. CASE Pair(t)' = Pair(t)
      BY <2>2, <2>3, <2>5, <3>1
    <3>2. CASE Pair(t)' # Pair(t)
      BY <1>13, <2>5, <3>2 DEF WorkerWrites, WorkerArrives, Pair
    <3> QED
      BY <3>1, <3>2
  <2> QED
    BY <2>4, <2>5
<1> QED
  BY <1>3, <1>4, <1>7, <1>8, <1>9, <1>10, <1>11, <1>12, <1>13 DEF IInv

-----------------------------------------------------------------------------
(* The steps of a worker                                                       *)

\* What is neither rows nor places keeps its types, and no fault is taken back.
RestIsTyped ==
    /\ execRow' \in [Tasks -> Workers \cup Operators \cup {Nobody}]
    /\ lease' \in [Tasks -> Workers \cup {Nobody}]
    /\ triggers' \in [Tasks -> Nat] /\ now' \in Nat
    /\ faults' \in [FaultKinds -> Nat]
    /\ Unbroken' => Unbroken

LEMMA SumIsZero == \A a, b, c \in Nat : a + b + c = 0 => a = 0 /\ b = 0 /\ c = 0
  OBVIOUS

\* Unbroken counts three kinds of fault: it ends with the first of these.
LEMMA FaultBreaks ==
    ASSUME TypeOK, NEW k \in FaultKinds, Fault(k)
    PROVE  /\ faults' \in [FaultKinds -> Nat]
           /\ Unbroken' => Unbroken
           /\ k \in {"db", "commit", "crash"} => ~Unbroken'
<1>1. \A j \in FaultKinds : faults[j] \in Nat /\ faults'[j] \in Nat /\ faults'[j] >= faults[j]
  BY FaultIs DEF TypeOK
<1>2. {"db", "commit", "crash"} \subseteq FaultKinds
  BY DEF FaultKinds
<1>3. faults'[k] = faults[k] + 1
  BY FaultIs
<1>4. /\ faults["db"] \in Nat /\ faults["commit"] \in Nat /\ faults["crash"] \in Nat
      /\ faults'["db"] \in Nat /\ faults'["commit"] \in Nat /\ faults'["crash"] \in Nat
      /\ faults'["db"] >= faults["db"] /\ faults'["commit"] >= faults["commit"]
      /\ faults'["crash"] >= faults["crash"]
  BY <1>1, <1>2
<1>5. ASSUME Unbroken' PROVE Unbroken
  <2>1. faults'["db"] + faults'["commit"] + faults'["crash"] = 0
    BY <1>5 DEF Unbroken
  <2>2. faults'["db"] = 0 /\ faults'["commit"] = 0 /\ faults'["crash"] = 0
    BY <1>4, <2>1, SumIsZero
  <2>3. faults["db"] = 0 /\ faults["commit"] = 0 /\ faults["crash"] = 0
    BY <1>4, <2>2
  <2> QED
    BY <2>3 DEF Unbroken
<1>6. ASSUME k \in {"db", "commit", "crash"} PROVE ~Unbroken'
  BY <1>1, <1>3, <1>4, <1>6 DEF Unbroken
<1> QED
  BY <1>5, <1>6, FaultIs

LEMMA NoFaultKeeps ==
    ASSUME TypeOK, NoFault
    PROVE  faults' \in [FaultKinds -> Nat] /\ (Unbroken' => Unbroken)
  BY DEF TypeOK, NoFault, Unbroken

\* A worker that writes no row goes on to the next place, gives up or goes away.
LEMMA MoveKeeps ==
    ASSUME IInv, RestIsTyped, UNCHANGED <<rows, taskRow, op>>,
           NEW w \in Workers, NEW pc \in WorkerPCs, GoTo(w, pc),
           worker[w].pc # "idle",
           pc \in Claimed => worker[w].pc \in Claimed,
           pc \in Copying => worker[w].pc \in Copying,
           pc # "failTask",
           worker[w].pc \in Claimed => pc \in Claimed \/ ~Unbroken'
    PROVE  IInv'
<1>1. TypeOK /\ Row(w) \in Tasks
  BY DEF IInv, ClaimedIsTaken
<1>2. TypeOK'
  BY <1>1, GoToIs DEF TypeOK, RestIsTyped, rows
<1>3. WorkerWrites(w)
  BY <1>1, GoToIs DEF WorkerWrites, rows, SameButStatus, IInv, ClaimedIsTaken, Row
<1>4. WorkerArrives(w)
  BY <1>1, GoToIs DEF WorkerArrives, rows, IInv, ClaimedIsTaken, CopiesAreCurrent, Row
<1> QED
  BY <1>2, <1>3, <1>4, WorkerKeeps DEF RestIsTyped

LEMMA LeaveKeeps ==
    ASSUME IInv, RestIsTyped, UNCHANGED <<rows, taskRow, op>>,
           NEW w \in Workers, Leave(w),
           worker[w].pc \in Claimed => ~Unbroken'
    PROVE  IInv'
<1>1. TypeOK
  BY DEF IInv
<1>2. TypeOK'
  BY <1>1, LeaveIs DEF TypeOK, RestIsTyped, rows
<1>3. WorkerWrites(w)
  BY <1>1, LeaveIs DEF WorkerWrites, rows, SameButStatus, IInv, ClaimedIsTaken, Row
<1>4. WorkerArrives(w)
  BY <1>1, LeaveIs DEF WorkerArrives, Claimed, Copying
<1> QED
  BY <1>2, <1>3, <1>4, WorkerKeeps DEF RestIsTyped

LEMMA PlacesAre ==
    /\ Claimed = {"load", "setExecuting", "preflight", "snapshot", "persistExec", "persistTask",
                  "failExec", "failTask"}
    /\ Claimed \subseteq WorkerPCs
    /\ Copying \subseteq Claimed
  BY DEF Claimed, Copying, WorkerPCs

\* Taking, keeping and giving back the Redis lock.
LEMMA LeasingKeeps ==
    ASSUME IInv, NEW w \in Workers,
           \/ AcquireLock(w) \/ AcquireLockError(w) \/ ReleaseLock(w) \/ ReleaseLockError(w)
    PROVE  IInv'
<1>1. TypeOK
  BY DEF IInv
<1>2. worker[w].pc \in {"lock", "unlock"} /\ UNCHANGED <<rows, taskRow, op>>
  BY DEF AcquireLock, AcquireLockError, ReleaseLock, ReleaseLockError, At, locks
<1>3. worker[w].pc \notin Claimed /\ "claim" \in WorkerPCs /\ "claim" \notin Claimed
      /\ "claim" \notin Copying
  BY <1>2 DEF Claimed, WorkerPCs, Copying
<1>4. Row(w) \in Tasks
  BY <1>2 DEF IInv, ClaimedIsTaken
<1>5. faults' \in [FaultKinds -> Nat] /\ (Unbroken' => Unbroken)
  BY <1>1, NoFaultKeeps, FaultBreaks
     DEF AcquireLock, AcquireLockError, ReleaseLock, ReleaseLockError, FaultKinds
<1>6. lease' \in [Tasks -> Workers \cup {Nobody}]
  BY <1>1, <1>4 DEF AcquireLock, AcquireLockError, ReleaseLock, ReleaseLockError, TypeOK
<1>7. RestIsTyped
  BY <1>1, <1>5, <1>6 DEF RestIsTyped, AcquireLock, AcquireLockError, ReleaseLock,
     ReleaseLockError, TypeOK, locks
<1>8. GoTo(w, "claim") \/ Leave(w)
  BY DEF AcquireLock, AcquireLockError, ReleaseLock, ReleaseLockError
<1>9. CASE GoTo(w, "claim")
  BY <1>2, <1>3, <1>7, <1>9, MoveKeeps
<1>10. CASE Leave(w)
  BY <1>2, <1>3, <1>7, <1>10, LeaveKeeps
<1> QED
  BY <1>8, <1>9, <1>10

\* The steps after the claim that write no row of a version: they go on, they end
\* the attempt, or they give up, and then a fault is counted.
LEMMA GoingOnKeeps ==
    ASSUME IInv, NEW w \in Workers,
           \/ PreFlightCheck(w) \/ PersistExecution(w) \/ AttemptError(w) \/ MarkFailedError(w)
           \/ \E o \in Operators : Deadlock(o, w) /\ GoTo(w, "failExec") /\ UNCHANGED <<taskRow, op>>
    PROVE  IInv'
<1>1. TypeOK
  BY DEF IInv
<1>2. worker[w].pc \in Claimed
  BY PlacesAre DEF PreFlightCheck, PersistExecution, AttemptError, MarkFailedError, Deadlock, At
<1>3. Row(w) \in Tasks
  BY <1>2, PlacesAre DEF IInv, ClaimedIsTaken
<1>4. UNCHANGED <<rows, taskRow, op>>
  BY DEF PreFlightCheck, PersistExecution, AttemptError, MarkFailedError, Deadlock, locks
<1>5. faults' \in [FaultKinds -> Nat] /\ (Unbroken' => Unbroken)
  BY <1>1, NoFaultKeeps, FaultBreaks
     DEF PreFlightCheck, PersistExecution, AttemptError, MarkFailedError, Deadlock, FaultKinds
<1>6. execRow' \in [Tasks -> Workers \cup Operators \cup {Nobody}]
  BY <1>1, <1>3, RollBackIs
     DEF PreFlightCheck, PersistExecution, AttemptError, MarkFailedError, Deadlock, TypeOK, locks
<1>7. RestIsTyped
  BY <1>1, <1>5, <1>6
     DEF RestIsTyped, PreFlightCheck, PersistExecution, AttemptError, MarkFailedError, Deadlock,
         TypeOK, locks
<1>8. PICK pc \in WorkerPCs :
         /\ GoTo(w, pc) /\ pc # "failTask"
         /\ pc \in Copying => worker[w].pc \in Copying
         /\ pc \in Claimed \/ ~Unbroken'
  <2>1. "snapshot" \in Claimed /\ "persistTask" \in Claimed /\ "failExec" \in Claimed
        /\ "failExec" \notin Copying /\ "unlock" \notin Copying /\ "unlock" \in WorkerPCs
    BY PlacesAre DEF Copying, WorkerPCs
  <2>2. CASE PreFlightCheck(w)
    BY <2>1, <2>2, PlacesAre DEF PreFlightCheck, At, Copying
  <2>3. CASE PersistExecution(w)
    BY <2>1, <2>3, PlacesAre DEF PersistExecution, At, Copying
  <2>4. CASE AttemptError(w)
    BY <2>1, <2>4, PlacesAre DEF AttemptError
  <2>5. CASE MarkFailedError(w)
    BY <1>1, <2>1, <2>5, FaultBreaks DEF MarkFailedError, FaultKinds
  <2>6. CASE GoTo(w, "failExec")
    BY <2>1, <2>6, PlacesAre
  <2> QED
    BY <2>2, <2>3, <2>4, <2>5, <2>6
<1>9. worker[w].pc # "idle"
  BY <1>2 DEF Claimed
<1> QED
  BY <1>2, <1>4, <1>7, <1>8, <1>9, MoveKeeps

LEMMA CrashKeeps ==
    ASSUME IInv, NEW w \in Workers, CrashWorker(w)
    PROVE  IInv'
<1>1. TypeOK
  BY DEF IInv
<1>2. UNCHANGED <<rows, taskRow, op>> /\ Leave(w)
  BY DEF CrashWorker
<1>3. faults' \in [FaultKinds -> Nat] /\ (Unbroken' => Unbroken) /\ ~Unbroken'
  BY <1>1, FaultBreaks DEF CrashWorker, FaultKinds
<1>4. RestIsTyped
  BY <1>1, <1>3, RollBackIs DEF RestIsTyped, CrashWorker, TypeOK
<1> QED
  BY <1>2, <1>3, <1>4, LeaveKeeps

\* The steps that read a row: the struct that will be saved, and the content the
\* snapshot is built from.
LEMMA ReadingKeeps ==
    ASSUME IInv, NEW w \in Workers, LoadRows(w) \/ BuildSnapshot(w)
    PROVE  IInv'
<1>1. TypeOK
  BY DEF IInv
<1>2. worker[w].pc \in {"load", "snapshot"}
  BY DEF LoadRows, BuildSnapshot, At
<1>3. worker[w].pc \in Claimed /\ worker[w].pc # "idle"
  BY <1>2, PlacesAre
<1>4. Row(w) \in Tasks /\ exec[Row(w)].status \in Taken
  BY <1>3 DEF IInv, ClaimedIsTaken
<1>5. UNCHANGED <<rows, locks, lease, triggers, now, op, faults>>
  BY DEF LoadRows, BuildSnapshot, NoFault
<1>6. task[Row(w)] \in TaskRecord /\ task[Row(w)].content \in Nat
  BY <1>1, <1>4, OJTaskAssumption DEF TypeOK, TaskRecord
<1>7. /\ worker' \in [Workers -> [pc : WorkerPCs, row : 0..MaxTasks, copy : TaskRecord, seen : Nat]]
      /\ worker'[w].pc \in {"setExecuting", "persistExec"} /\ worker'[w].row = Row(w)
      /\ \A v \in Workers \ {w} : worker'[v] = worker[v]
  <2>1. "setExecuting" \in WorkerPCs /\ "persistExec" \in WorkerPCs
    BY DEF WorkerPCs
  <2>2. CASE LoadRows(w)
    <3>1. PICK c : c = task[Row(w)] OBVIOUS
    <3>2. PICK r : r = [worker[w] EXCEPT !.pc = "setExecuting", !.copy = c] OBVIOUS
    <3>3. /\ r \in [pc : WorkerPCs, row : 0..MaxTasks, copy : TaskRecord, seen : Nat]
          /\ r.pc = "setExecuting" /\ r.row = worker[w].row
      BY <1>1, <1>6, <2>1, <3>1, <3>2 DEF TypeOK
    <3>4. worker' = [worker EXCEPT ![w] = r]
      BY <1>1, <2>2, <3>1, <3>2 DEF LoadRows, TypeOK
    <3> QED
      BY <1>1, <3>3, <3>4 DEF TypeOK, Row
  <2>3. CASE BuildSnapshot(w)
    <3>1. PICK c : c = task[Row(w)].content OBVIOUS
    <3>2. PICK r : r = [worker[w] EXCEPT !.pc = "persistExec", !.seen = c] OBVIOUS
    <3>3. /\ r \in [pc : WorkerPCs, row : 0..MaxTasks, copy : TaskRecord, seen : Nat]
          /\ r.pc = "persistExec" /\ r.row = worker[w].row
      BY <1>1, <1>6, <2>1, <3>1, <3>2 DEF TypeOK
    <3>4. worker' = [worker EXCEPT ![w] = r]
      BY <1>1, <2>3, <3>1, <3>2 DEF BuildSnapshot, TypeOK
    <3> QED
      BY <1>1, <3>3, <3>4 DEF TypeOK, Row
  <2> QED
    BY <2>2, <2>3
<1>8. SameButStatus(worker'[w].copy, task[Row(w)])
  <2>1. CASE LoadRows(w)
    <3>1. worker'[w].copy = task[Row(w)]
      BY <1>1, <2>1 DEF LoadRows, TypeOK
    <3> QED
      BY <3>1 DEF SameButStatus
  <2>2. CASE BuildSnapshot(w)
    <3>1. worker'[w].copy = worker[w].copy /\ worker[w].pc \in Copying
      BY <1>1, <2>2 DEF BuildSnapshot, TypeOK, At, Copying
    <3> QED
      BY <3>1 DEF IInv, CopiesAreCurrent
  <2> QED
    BY <2>1, <2>2
<1>9. TypeOK'
  BY <1>1, <1>5, <1>7 DEF TypeOK, rows, locks
<1>10. WorkerWrites(w)
  BY <1>3, <1>4, <1>5, <1>7, PlacesAre DEF WorkerWrites, rows, locks, SameButStatus
<1>11. WorkerArrives(w)
  BY <1>3, <1>4, <1>5, <1>7, <1>8 DEF WorkerArrives, rows
<1>12. Unbroken' => Unbroken
  BY <1>5 DEF Unbroken
<1> QED
  BY <1>9, <1>10, <1>11, <1>12, WorkerKeeps

\* The claim: the execution is taken from whoever might have claimed, edited or
\* cancelled it, in one statement.
LEMMA ClaimKeeps ==
    ASSUME IInv, NEW w \in Workers, ClaimExecution(w) \/ ClaimExecutionError(w)
    PROVE  IInv'
<1>1. TypeOK /\ worker[w].pc = "claim"
  BY DEF IInv, ClaimExecution, ClaimExecutionError, At
<1>2. Row(w) \in Tasks /\ worker[w].pc \notin Claimed
  BY <1>1, PlacesAre DEF IInv, ClaimedIsTaken
<1>3. UNCHANGED <<task, snap, locks, lease, triggers, now, op>>
  BY DEF ClaimExecution, ClaimExecutionError
<1>4. faults' \in [FaultKinds -> Nat] /\ (Unbroken' => Unbroken)
  BY <1>1, NoFaultKeeps, FaultBreaks DEF ClaimExecution, ClaimExecutionError, FaultKinds
<1>5. \/ exec' = exec
      \/ /\ exec[Row(w)].status \in Dispatchable
         /\ exec' = [exec EXCEPT ![Row(w)].status = "executing"]
  <2>1. PICK e : e = exec[Row(w)] OBVIOUS
  <2>2. e.status \notin Dispatchable => [exec EXCEPT ![Row(w)].status = e.status] = exec
    BY <1>1, <1>2, <2>1 DEF TypeOK
  <2> QED
    BY <2>1, <2>2 DEF ClaimExecution, ClaimExecutionError
<1>6. /\ exec' \in [Tasks -> [status : ExecStatuses, planned : Nat]]
      /\ \A t \in Tasks : t # Row(w) => exec'[t] = exec[t]
      /\ \A t \in Tasks : \/ exec'[t].status = exec[t].status
                          \/ /\ exec[t].status \in Dispatchable
                             /\ exec'[t].status = "executing" /\ t = Row(w)
  BY <1>1, <1>2, <1>5 DEF TypeOK, ExecStatuses
<1>7. PICK pc \in {"load", "unlock"} :
         /\ GoTo(w, pc)
         /\ pc = "load" => exec[Row(w)].status \in Dispatchable /\ exec'[Row(w)].status = "executing"
         /\ pc = "unlock" => exec' = exec \/ ~Unbroken'
  <2>1. CASE ClaimExecution(w)
    BY <1>1, <1>2, <2>1 DEF ClaimExecution, TypeOK
  <2>2. CASE ClaimExecutionError(w)
    BY <1>1, <2>2, FaultBreaks DEF ClaimExecutionError, FaultKinds
  <2> QED
    BY <2>1, <2>2
<1>8. pc \in WorkerPCs /\ pc \notin Copying /\ pc # "failTask" /\ pc # "idle"
      /\ (pc \in Claimed <=> pc = "load")
  BY <1>7, PlacesAre DEF WorkerPCs, Copying
<1>9. TypeOK'
  BY <1>1, <1>3, <1>4, <1>6, <1>7, <1>8, GoToIs DEF TypeOK, locks
<1>10. worker'[w].pc = pc /\ worker'[w].row = Row(w) /\ \A v \in Workers \ {w} : worker'[v] = worker[v]
  BY <1>1, <1>7, <1>8, GoToIs DEF Row
<1>11. WorkerWrites(w)
  BY <1>2, <1>3, <1>6, <1>7, <1>8, <1>10 DEF WorkerWrites, locks, SameButStatus
<1>12. WorkerArrives(w)
  BY <1>2, <1>7, <1>8, <1>10 DEF WorkerArrives, Taken
<1> QED
  BY <1>4, <1>9, <1>11, <1>12, WorkerKeeps

\* The saves of a worker that has claimed: each leaves both rows in a state that
\* says so, or goes on to mark the failure.
LEMMA SavingKeeps ==
    ASSUME IInv, NEW w \in Workers,
           \/ SetExecuting(w) \/ PersistTask(w) \/ CommitReplyLost(w)
           \/ MarkExecutionFailed(w) \/ MarkTaskFailed(w)
    PROVE  /\ IInv'
           /\ \A t \in Tasks : task'[t].content >= task[t].content
<1>1. TypeOK
  BY DEF IInv
<1>2. worker[w].pc \in {"setExecuting", "persistTask", "failExec", "failTask"}
  BY DEF SetExecuting, PersistTask, CommitReplyLost, MarkExecutionFailed, MarkTaskFailed, At
<1>3. worker[w].pc \in Claimed /\ worker[w].pc # "idle"
  BY <1>2, PlacesAre
<1>4. /\ Row(w) \in Tasks /\ exec[Row(w)].status \in Taken
      /\ worker[w].pc = "failTask" => exec[Row(w)].status = "failed"
      /\ worker[w].pc \in Copying => SameButStatus(worker[w].copy, task[Row(w)])
  BY <1>3 DEF IInv, ClaimedIsTaken, CopiesAreCurrent
<1>5. Exists(Row(w))
  BY <1>4 DEF IInv, Unborn, Taken
<1>6. PICK pc \in {"preflight", "unlock", "failExec", "failTask"} : GoTo(w, pc)
  BY DEF SetExecuting, PersistTask, CommitReplyLost, MarkExecutionFailed, MarkTaskFailed
<1>7. pc \in WorkerPCs
  BY <1>6 DEF WorkerPCs
<1>8. /\ worker'[w].pc = pc /\ worker'[w].row = Row(w) /\ worker'[w].copy = worker[w].copy
      /\ \A v \in Workers \ {w} : worker'[v] = worker[v]
  BY <1>1, <1>6, <1>7, GoToIs DEF Row
<1>9. faults' \in [FaultKinds -> Nat] /\ (Unbroken' => Unbroken)
  BY <1>1, NoFaultKeeps, FaultBreaks
     DEF SetExecuting, PersistTask, CommitReplyLost, MarkExecutionFailed, MarkTaskFailed, FaultKinds
<1>10. UNCHANGED <<taskRow, lease, triggers, now, op>>
  BY DEF SetExecuting, PersistTask, CommitReplyLost, MarkExecutionFailed, MarkTaskFailed, locks,
     CommitSnapshot
<1>11. execRow' \in [Tasks -> Workers \cup Operators \cup {Nobody}]
  BY <1>1 DEF TypeOK, SetExecuting, PersistTask, CommitReplyLost, MarkExecutionFailed, MarkTaskFailed,
     locks, CommitSnapshot
<1>12. /\ task' \in [Tasks -> TaskRecord]
       /\ task'[Row(w)].status \in {"executing", "succeeded", "failed", task[Row(w)].status}
       /\ worker[w].pc = "failTask" => task'[Row(w)].status = "failed"
       /\ worker[w].pc = "persistTask" => task'[Row(w)].status = "succeeded"
       /\ SameButStatus(task'[Row(w)], task[Row(w)])
       /\ \A t \in Tasks : t # Row(w) => task'[t] = task[t]
  <2>0. {"executing", "succeeded", "failed"} \subseteq TaskStatuses
    BY DEF TaskStatuses
  <2>1. CASE SetExecuting(w)
    <3>1. worker[w].pc \in Copying /\ worker[w].pc = "setExecuting"
      BY <2>1 DEF SetExecuting, At, Copying
    <3> QED
      BY <1>1, <1>4, <2>0, <2>1, <3>1, SaveIs DEF SetExecuting, SameButStatus
  <2>2. CASE PersistTask(w) \/ CommitReplyLost(w)
    <3>1. worker[w].pc \in Copying /\ worker[w].pc = "persistTask"
      BY <2>2 DEF PersistTask, CommitReplyLost, At, Copying
    <3> QED
      BY <1>1, <1>4, <2>0, <2>2, <3>1, SaveIs DEF PersistTask, CommitReplyLost, CommitSnapshot,
         SameButStatus
  <2>3. CASE MarkExecutionFailed(w)
    BY <1>1, <2>3 DEF MarkExecutionFailed, SameButStatus, TypeOK, At
  <2>4. CASE MarkTaskFailed(w)
    <3>1. task[Row(w)] \in TaskRecord /\ worker[w].pc = "failTask"
      BY <1>1, <1>4, <2>4 DEF TypeOK, MarkTaskFailed, At
    <3>2. PICK r : r = [task[Row(w)] EXCEPT !.status = "failed"] OBVIOUS
    <3>3. r \in TaskRecord /\ r.status = "failed" /\ SameButStatus(r, task[Row(w)])
      BY <2>0, <3>1, <3>2 DEF TaskRecord, SameButStatus
    <3>4. task' = [task EXCEPT ![Row(w)] = r]
      BY <2>4, <3>2 DEF MarkTaskFailed
    <3> QED
      BY <1>1, <1>4, <3>1, <3>3, <3>4 DEF TypeOK
  <2> QED
    BY <2>1, <2>2, <2>3, <2>4
<1>13. /\ exec' \in [Tasks -> [status : ExecStatuses, planned : Nat]]
       /\ exec'[Row(w)].status \in Taken
       /\ worker[w].pc = "persistTask" => exec'[Row(w)].status = "succeeded"
       /\ pc = "failTask" \/ worker[w].pc = "failTask" => exec'[Row(w)].status = "failed"
       /\ \A t \in Tasks : t # Row(w) => exec'[t] = exec[t]
  <2>1. CASE SetExecuting(w) \/ MarkTaskFailed(w)
    <3>1. pc # "failTask"
      BY <1>1, <1>8, <2>1, GoToIs DEF SetExecuting, MarkTaskFailed, WorkerPCs
    <3> QED
      BY <1>1, <1>4, <2>1, <3>1 DEF SetExecuting, MarkTaskFailed, TypeOK, At
  <2>2. CASE PersistTask(w) \/ CommitReplyLost(w)
    <3>1. exec' = [exec EXCEPT ![Row(w)].status = "succeeded"] /\ worker[w].pc = "persistTask"
      BY <2>2 DEF PersistTask, CommitReplyLost, CommitSnapshot, At
    <3>2. pc # "failTask"
      BY <1>1, <1>8, <2>2, GoToIs DEF PersistTask, CommitReplyLost, WorkerPCs
    <3> QED
      BY <1>1, <1>4, <3>1, <3>2 DEF TypeOK, ExecStatuses, Taken
  <2>3. CASE MarkExecutionFailed(w)
    <3>1. exec' = [exec EXCEPT ![Row(w)].status = "failed"] /\ worker[w].pc = "failExec"
      BY <2>3 DEF MarkExecutionFailed, At
    <3> QED
      BY <1>1, <1>4, <3>1 DEF TypeOK, ExecStatuses, Taken
  <2> QED
    BY <2>1, <2>2, <2>3
<1>14. /\ snap' \in [Tasks -> Nat \cup {NoSnap}]
       /\ \A t \in Tasks : t # Row(w) => snap'[t] = snap[t]
  BY <1>1 DEF TypeOK, SetExecuting, PersistTask, CommitReplyLost, MarkExecutionFailed, MarkTaskFailed,
     CommitSnapshot
<1>15. TypeOK'
  BY <1>1, <1>6, <1>7, <1>9, <1>10, <1>11, <1>12, <1>13, <1>14, GoToIs DEF TypeOK
<1>16. pc \in Claimed \/ worker[w].pc \in {"persistTask", "failTask"}
  BY <1>1, <1>8, GoToIs, PlacesAre
     DEF SetExecuting, PersistTask, CommitReplyLost, MarkExecutionFailed, MarkTaskFailed, At, WorkerPCs
<1>17. pc \in Claimed \/ <<task'[Row(w)].status, exec'[Row(w)].status>> \in Agree
  BY <1>12, <1>13, <1>16 DEF Agree
<1>18. WorkerWrites(w)
  <2>1. task'[Row(w)].status # "none"
    BY <1>5, <1>12 DEF Exists
  <2> QED
    BY <1>3, <1>5, <1>8, <1>10, <1>12, <1>13, <1>14, <1>17, <2>1
       DEF WorkerWrites, SameButStatus, Exists
<1>19. WorkerArrives(w)
  <2>1. pc \in Copying => worker[w].pc \in Copying
    BY <1>1, <1>6, <1>8, GoToIs
       DEF SetExecuting, PersistTask, CommitReplyLost, MarkExecutionFailed, MarkTaskFailed, At, Copying,
           WorkerPCs
  <2> QED
    BY <1>3, <1>4, <1>8, <1>13, <2>1 DEF WorkerArrives
<1>20. IInv'
  BY <1>9, <1>15, <1>18, <1>19, WorkerKeeps
<1>21. \A t \in Tasks : task'[t].content = task[t].content /\ task[t].content \in Nat
  BY <1>1, <1>12, OJTaskAssumption DEF SameButStatus, TypeOK, TaskRecord
<1> QED
  BY <1>20, <1>21

\* A scan or a trigger takes an idle worker to a version that exists.
LEMMA TakingUpKeeps ==
    ASSUME IInv, NEW w \in Workers, ConsumeTrigger(w) \/ \E t \in Tasks : ScanDue(w, t)
    PROVE  IInv'
<1>1. TypeOK /\ worker[w].pc = "idle"
  BY DEF IInv, ConsumeTrigger, ScanDue, At
<1>2. UNCHANGED <<rows, locks, lease, now, op, faults>>
  BY DEF ConsumeTrigger, ScanDue, NoFault
<1>3. triggers' \in [Tasks -> Nat]
  <2>1. CASE ConsumeTrigger(w)
    <3>1. PICK t \in Tasks : triggers[t] > 0 /\ triggers' = [triggers EXCEPT ![t] = @ - 1]
      BY <2>1 DEF ConsumeTrigger
    <3>2. triggers[t] \in Nat /\ triggers[t] - 1 \in Nat
      BY <1>1, <3>1 DEF TypeOK
    <3> QED
      BY <1>1, <3>1, <3>2 DEF TypeOK
  <2>2. CASE \E t \in Tasks : ScanDue(w, t)
    BY <1>1, <2>2 DEF TypeOK, ScanDue
  <2> QED
    BY <2>1, <2>2
<1>4. PICK t \in Tasks : \/ worker' = worker
                         \/ worker' = [worker EXCEPT ![w] = [IdleWorker EXCEPT !.pc = "lock", !.row = t]]
  BY DEF ConsumeTrigger, ScanDue
<1>5. PICK r : r = [IdleWorker EXCEPT !.pc = "lock", !.row = t] OBVIOUS
<1>6. /\ r \in [pc : WorkerPCs, row : 0..MaxTasks, copy : TaskRecord, seen : Nat]
      /\ r.pc = "lock" /\ r.row = t
  <2>1. t \in 0..MaxTasks /\ "lock" \in WorkerPCs
    BY OJTaskAssumption DEF Tasks, WorkerPCs
  <2> QED
    BY <1>5, <2>1, IdleIsTyped DEF IdleWorker
<1>7. "lock" \notin Claimed /\ "idle" \notin Claimed /\ "lock" \notin Copying /\ "idle" \notin Copying
  BY DEF Claimed, Copying
<1>8. /\ worker' \in [Workers -> [pc : WorkerPCs, row : 0..MaxTasks, copy : TaskRecord, seen : Nat]]
      /\ worker'[w].pc = "idle" \/ (worker'[w].pc = "lock" /\ worker'[w].row = t)
      /\ \A v \in Workers \ {w} : worker'[v] = worker[v]
  <2>1. CASE worker' = worker
    BY <1>1, <2>1 DEF TypeOK
  <2>2. CASE worker' = [worker EXCEPT ![w] = r]
    BY <1>1, <1>6, <2>2 DEF TypeOK
  <2> QED
    BY <1>4, <1>5, <2>1, <2>2
<1>9. TypeOK'
  BY <1>1, <1>2, <1>3, <1>8 DEF TypeOK, rows, locks
<1>10. WorkerWrites(w)
  BY <1>1, <1>2, <1>7, <1>8 DEF WorkerWrites, rows, locks, SameButStatus
<1>11. WorkerArrives(w)
  BY <1>7, <1>8 DEF WorkerArrives
<1>12. Unbroken' => Unbroken
  BY <1>2 DEF Unbroken
<1> QED
  BY <1>9, <1>10, <1>11, <1>12, WorkerKeeps

-----------------------------------------------------------------------------
(* The steps of the clock, the messages and the leases                         *)

\* A step that moves no worker and no operator and writes no row.
LEMMA OutsideKeeps ==
    ASSUME IInv, Tick \/ TriggerFault \/ LeaseTimeout \/ LeaseLost
    PROVE  IInv'
<1>1. TypeOK
  BY DEF IInv
<1>2. UNCHANGED <<rows, locks, worker, op>>
  BY DEF Tick, TriggerFault, LeaseTimeout, LeaseLost
<1>3. faults' \in [FaultKinds -> Nat] /\ (Unbroken' => Unbroken)
  BY <1>1, NoFaultKeeps, FaultBreaks DEF Tick, TriggerFault, LeaseTimeout, LeaseLost, FaultKinds, NoFault
<1>4. triggers' \in [Tasks -> Nat]
  <2>1. CASE TriggerFault
    BY <1>1, <2>1 DEF TypeOK, TriggerFault
  <2>2. CASE Tick \/ LeaseTimeout \/ LeaseLost
    BY <1>1, <2>2 DEF TypeOK, Tick, LeaseTimeout, LeaseLost
  <2> QED
    BY <2>1, <2>2
<1>5. lease' \in [Tasks -> Workers \cup {Nobody}] /\ now' \in Nat
  <2>1. CASE LeaseTimeout \/ LeaseLost
    <3>1. PICK t \in Tasks : lease' = [lease EXCEPT ![t] = Nobody]
      BY <2>1 DEF LeaseTimeout, LeaseLost
    <3> QED
      BY <1>1, <2>1, <3>1 DEF TypeOK, LeaseTimeout, LeaseLost
  <2>2. CASE Tick \/ TriggerFault
    BY <1>1, <2>2 DEF TypeOK, Tick, TriggerFault
  <2> QED
    BY <2>1, <2>2
<1>6. TypeOK'
  BY <1>1, <1>2, <1>3, <1>4, <1>5 DEF TypeOK, rows, locks
<1>7. /\ Unborn' /\ RootsExist' /\ ClaimedIsTaken' /\ OneExecutor' /\ SnapsAreTaken'
      /\ DeletedIsCancelled' /\ EditsHold'
  BY <1>2 DEF IInv, Unborn, RootsExist, ClaimedIsTaken, OneExecutor, SnapsAreTaken,
     DeletedIsCancelled, EditsHold, rows, locks, Exists, Row
<1>8. CopiesAreCurrent'
  BY <1>2 DEF IInv, CopiesAreCurrent, SameButStatus, rows, Row
<1>9. VersionsAreNumbered'
  <2>1. ChainsStay
    BY <1>1, <1>2 DEF ChainsStay, rows, TypeOK, TaskRecord
  <2> QED
    BY <2>1, ChainsStayNumbered DEF IInv
<1>10. Unbroken' => AgreeOrClaimed'
  BY <1>2, <1>3 DEF IInv, AgreeOrClaimed, rows, Row
<1> QED
  BY <1>6, <1>7, <1>8, <1>9, <1>10 DEF IInv

-----------------------------------------------------------------------------
(* The steps of an operator                                                    *)

\* What every request leaves as it was.
LEMMA OperatorKeeps ==
    ASSUME IInv, NEW o \in Operators,
           UNCHANGED <<snap, execRow, lease, now, worker>>,
           faults' \in [FaultKinds -> Nat], Unbroken' => Unbroken,
           task' \in [Tasks -> TaskRecord],
           exec' \in [Tasks -> [status : ExecStatuses, planned : Nat]],
           triggers' \in [Tasks -> Nat],
           taskRow' \in [Tasks -> Workers \cup Operators \cup {Nobody}],
           op' \in [Operators -> [pc : {"idle", "locked", "read"}, req : Requests,
                                  on : 0..MaxTasks, plan : Nat]],
           VersionsAreNumbered' /\ RootsExist',
           \* Only an execution nobody has taken is touched, and both rows agree.
           \A t \in Tasks : \/ task'[t] = task[t] /\ exec'[t].status = exec[t].status
                            \/ /\ exec[t].status \notin Taken /\ exec'[t].status \notin Taken
                               /\ Pair(t)' \in Agree /\ task'[t].status # "none",
           \* No version disappears, and its row is held by who edits it.
           \A t \in Tasks : Exists(t) => task'[t].status # "none",
           EditsHold'
    PROVE  IInv'
<1>1. TypeOK
  BY DEF IInv
<1>2. TypeOK'
  BY <1>1 DEF TypeOK
<1>3. ClaimedIsTaken' /\ OneExecutor'
  <2>1. ASSUME NEW w \in Workers
        PROVE  /\ worker[w].pc # "idle" => Row(w) \in Tasks
               /\ worker[w].pc \in Claimed => exec'[Row(w)].status = exec[Row(w)].status
               /\ worker[w].pc = "failTask" => exec'[Row(w)].status = exec[Row(w)].status
    BY PlacesAre DEF IInv, ClaimedIsTaken
  <2> QED
    BY <2>1 DEF IInv, ClaimedIsTaken, OneExecutor, Row
<1>4. CopiesAreCurrent'
  <2>1. ASSUME NEW w \in Workers, worker[w].pc \in Copying
        PROVE  task'[Row(w)] = task[Row(w)]
    <3>1. worker[w].pc \in Claimed /\ worker[w].pc # "idle"
      BY <2>1, PlacesAre
    <3> QED
      BY <3>1 DEF IInv, ClaimedIsTaken
  <2> QED
    BY <2>1 DEF IInv, CopiesAreCurrent, Row
<1>5. Unborn'
  BY DEF IInv, Unborn, Exists
<1>6. SnapsAreTaken'
  BY DEF IInv, SnapsAreTaken
<1>7. DeletedIsCancelled'
  BY DEF IInv, DeletedIsCancelled, SnapsAreTaken, Agree, Pair
<1>8. Unbroken' => AgreeOrClaimed'
  BY DEF IInv, AgreeOrClaimed, Pair, Row
<1> QED
  BY <1>2, <1>3, <1>4, <1>5, <1>6, <1>7, <1>8 DEF IInv

\* An edit that ends frees the row it holds and no row another edit holds.
LEMMA EndEditIs ==
    ASSUME IInv, NEW o \in Operators, op[o].pc = "locked", EndEdit(o)
    PROVE  /\ op[o].on \in Tasks /\ Exists(op[o].on)
           /\ taskRow' \in [Tasks -> Workers \cup Operators \cup {Nobody}]
           /\ op' \in [Operators -> [pc : {"idle", "locked", "read"}, req : Requests,
                                     on : 0..MaxTasks, plan : Nat]]
           /\ op'[o].pc = "idle"
           /\ \A p \in Operators \ {o} : op'[p] = op[p]
           /\ \A p \in Operators \ {o} :
                op[p].pc = "locked" => op[p].on # op[o].on /\ taskRow'[op[p].on] = p
<1>1. TypeOK
  BY DEF IInv
<1>2. op[o].on \in Tasks /\ Exists(op[o].on) /\ taskRow[op[o].on] = o
  BY DEF IInv, EditsHold
<1>3. IdleOp.pc = "idle"
  BY DEF IdleOp
<1>4. /\ op' \in [Operators -> [pc : {"idle", "locked", "read"}, req : Requests,
                                on : 0..MaxTasks, plan : Nat]]
      /\ op'[o].pc = "idle"
      /\ \A p \in Operators \ {o} : op'[p] = op[p]
  BY <1>1, <1>3, IdleIsTyped DEF TypeOK, EndEdit
<1>5. PICK n : n = op[o].on OBVIOUS
<1>6. taskRow' = [taskRow EXCEPT ![n] = Nobody]
  BY <1>5 DEF EndEdit
<1>7. taskRow' \in [Tasks -> Workers \cup Operators \cup {Nobody}]
  BY <1>1, <1>6 DEF TypeOK
<1>8. ASSUME NEW p \in Operators \ {o}, op[p].pc = "locked"
      PROVE  op[p].on # n /\ taskRow'[op[p].on] = p
  <2>1. op[p].on \in Tasks /\ taskRow[op[p].on] = p
    BY <1>8 DEF IInv, EditsHold
  <2> QED
    BY <1>1, <1>2, <1>5, <1>6, <2>1 DEF TypeOK
<1> QED
  BY <1>2, <1>4, <1>5, <1>7, <1>8

\* An edit that ends, with what it wrote into its own version.
LEMMA EndingKeeps ==
    ASSUME IInv, NEW o \in Operators, op[o].pc = "locked", EndEdit(o),
           UNCHANGED <<snap, execRow, lease, now, worker>>, NoFault \/ Fault("db"),
           task' \in [Tasks -> TaskRecord],
           exec' \in [Tasks -> [status : ExecStatuses, planned : Nat]],
           triggers' \in [Tasks -> Nat],
           \A t \in Tasks : t # op[o].on => task'[t] = task[t] /\ exec'[t] = exec[t],
           ChainsStay,
           \/ task'[op[o].on] = task[op[o].on] /\ exec'[op[o].on].status = exec[op[o].on].status
           \/ /\ exec[op[o].on].status \notin Taken /\ exec'[op[o].on].status \notin Taken
              /\ <<task'[op[o].on].status, exec'[op[o].on].status>> \in Agree
    PROVE  IInv'
<1>1. TypeOK
  BY DEF IInv
<1>2. faults' \in [FaultKinds -> Nat] /\ (Unbroken' => Unbroken)
  BY <1>1, NoFaultKeeps, FaultBreaks DEF FaultKinds
<1>3. VersionsAreNumbered' /\ RootsExist'
  BY ChainsStayNumbered DEF IInv
<1>4. \A t \in Tasks : Exists(t) => task'[t].status # "none"
  BY DEF ChainsStay, Exists
<1>5. EditsHold'
  <2>1. ASSUME NEW p \in Operators
        PROVE  /\ op'[p].pc = "locked" =>
                    /\ op'[p].on \in Tasks /\ task'[op'[p].on].status # "none"
                    /\ taskRow'[op'[p].on] = p
                    /\ op'[p].req = "update" => task'[op'[p].on].content < MaxEdits
               /\ op'[p].pc = "read" /\ op'[p].req # "create" =>
                    op'[p].on \in Tasks /\ task'[op'[p].on].status # "none"
    <3>1. CASE p = o
      BY <3>1, EndEditIs
    <3>2. CASE p # o
      <4>1. op'[p] = op[p]
        BY <3>2, EndEditIs
      <4>2. ASSUME op[p].pc = "locked"
            PROVE  /\ op[p].on \in Tasks /\ task'[op[p].on].status # "none"
                   /\ taskRow'[op[p].on] = p
                   /\ op[p].req = "update" => task'[op[p].on].content < MaxEdits
        <5>1. op[p].on # op[o].on /\ taskRow'[op[p].on] = p
          BY <3>2, <4>2, EndEditIs
        <5>2. op[p].on \in Tasks /\ Exists(op[p].on)
              /\ (op[p].req = "update" => task[op[p].on].content < MaxEdits)
          BY <4>2 DEF IInv, EditsHold
        <5> QED
          BY <1>4, <5>1, <5>2
      <4>3. ASSUME op[p].pc = "read", op[p].req # "create"
            PROVE  op[p].on \in Tasks /\ task'[op[p].on].status # "none"
        BY <1>4, <4>3 DEF IInv, EditsHold
      <4> QED
        BY <4>1, <4>2, <4>3
    <3> QED
      BY <3>1, <3>2
  <2> QED
    BY <2>1 DEF EditsHold, Exists
<1>6. \A t \in Tasks : \/ task'[t] = task[t] /\ exec'[t].status = exec[t].status
                       \/ /\ exec[t].status \notin Taken /\ exec'[t].status \notin Taken
                          /\ Pair(t)' \in Agree /\ task'[t].status # "none"
  <2>1. op[o].on \in Tasks /\ task'[op[o].on].status # "none"
    BY <1>4, EndEditIs
  <2> QED
    BY <2>1 DEF Pair
<1> QED
  BY <1>2, <1>3, <1>4, <1>5, <1>6, OperatorKeeps, EndEditIs

\* Editing, deleting and executing a version at once.
LEMMA EditingKeeps ==
    ASSUME IInv, NEW o \in Operators,
           UpdateTask(o) \/ DeleteTask(o) \/ ExecuteTaskNow(o)
    PROVE  IInv' /\ ChainsStay
<1>1. TypeOK
  BY DEF IInv
<1>2. PICK t : t = op[o].on OBVIOUS
<1>3. op[o].pc = "locked" /\ Editable(t) /\ EndEdit(o)
  BY <1>2 DEF UpdateTask, DeleteTask, ExecuteTaskNow, Edit
<1>4. /\ t \in Tasks /\ Exists(t)
      /\ op[o].req = "update" => task[t].content < MaxEdits
  BY <1>2, <1>3 DEF IInv, EditsHold
<1>5. task[t].status = "scheduled" /\ exec[t].status = "scheduled"
  BY <1>3 DEF Editable
<1>6. task[t] \in TaskRecord /\ exec[t] \in [status : ExecStatuses, planned : Nat]
      /\ triggers[t] \in Nat /\ op[o].plan \in Nat /\ now \in Nat
  BY <1>1, <1>4 DEF TypeOK
<1>7. PICK c, s, e :
         /\ c \in TaskRecord /\ c.status = s /\ c.root = task[t].root /\ c.version = task[t].version
         /\ c.content >= task[t].content
         /\ e \in [status : ExecStatuses, planned : Nat]
         /\ <<s, e.status>> \in {<<"scheduled", "scheduled">>, <<"deleted", "cancelled">>,
                                 <<"queued", "queued">>}
         /\ task' = [task EXCEPT ![t] = c] /\ exec' = [exec EXCEPT ![t] = e]
  <2>1. CASE UpdateTask(o)
    <3>1. PICK c : c = [task[t] EXCEPT !.content = @ + 1] OBVIOUS
    <3>2. PICK e : e = [exec[t] EXCEPT !.planned = op[o].plan] OBVIOUS
    <3>3. task[t].content + 1 \in 0..MaxEdits /\ task[t].content \in Nat
      BY <1>4, <1>6, <2>1, OJTaskAssumption DEF UpdateTask, TaskRecord
    <3>4. /\ c \in TaskRecord /\ c.status = "scheduled" /\ c.root = task[t].root
          /\ c.version = task[t].version /\ c.content >= task[t].content
      BY <1>5, <1>6, <3>1, <3>3 DEF TaskRecord
    <3>5. e \in [status : ExecStatuses, planned : Nat] /\ e.status = "scheduled"
      BY <1>5, <1>6, <3>2
    <3>6. task' = [task EXCEPT ![t] = c] /\ exec' = [exec EXCEPT ![t] = e]
      BY <1>2, <2>1, <3>1, <3>2 DEF UpdateTask
    <3> QED
      BY <3>4, <3>5, <3>6
  <2>2. CASE DeleteTask(o)
    <3>1. PICK c : c = [task[t] EXCEPT !.status = "deleted"] OBVIOUS
    <3>2. PICK e : e = [exec[t] EXCEPT !.status = "cancelled"] OBVIOUS
    <3>3. /\ c \in TaskRecord /\ c.status = "deleted" /\ c.root = task[t].root
          /\ c.version = task[t].version /\ c.content >= task[t].content
      BY <1>6, <3>1 DEF TaskRecord, TaskStatuses
    <3>4. e \in [status : ExecStatuses, planned : Nat] /\ e.status = "cancelled"
      BY <1>6, <3>2 DEF ExecStatuses
    <3>5. task' = [task EXCEPT ![t] = c] /\ exec' = [exec EXCEPT ![t] = e]
      BY <1>2, <2>2, <3>1, <3>2 DEF DeleteTask
    <3> QED
      BY <3>3, <3>4, <3>5
  <2>3. CASE ExecuteTaskNow(o)
    <3>1. PICK c : c = [task[t] EXCEPT !.status = "queued"] OBVIOUS
    <3>2. PICK e : e = [status |-> "queued", planned |-> now] OBVIOUS
    <3>3. /\ c \in TaskRecord /\ c.status = "queued" /\ c.root = task[t].root
          /\ c.version = task[t].version /\ c.content >= task[t].content
      BY <1>6, <3>1 DEF TaskRecord, TaskStatuses
    <3>4. e \in [status : ExecStatuses, planned : Nat] /\ e.status = "queued"
      BY <1>6, <3>2 DEF ExecStatuses
    <3>5. task' = [task EXCEPT ![t] = c] /\ exec' = [exec EXCEPT ![t] = e]
      BY <1>2, <2>3, <3>1, <3>2 DEF ExecuteTaskNow
    <3> QED
      BY <3>3, <3>4, <3>5
  <2> QED
    BY <2>1, <2>2, <2>3
<1>8. task' \in [Tasks -> TaskRecord] /\ exec' \in [Tasks -> [status : ExecStatuses, planned : Nat]]
  BY <1>1, <1>7 DEF TypeOK
<1>9. task'[t] = c /\ exec'[t] = e /\ c.status # "none" /\ e.status \notin Taken
      /\ <<c.status, e.status>> \in Agree
  BY <1>1, <1>4, <1>7 DEF TypeOK, Taken, Agree
<1>10. \A u \in Tasks : u # t => task'[u] = task[u] /\ exec'[u] = exec[u]
  BY <1>1, <1>7 DEF TypeOK
<1>11. \A u \in Tasks : task[u].content >= task[u].content
  BY <1>1, OJTaskAssumption DEF TypeOK, TaskRecord
<1>12. ChainsStay
  BY <1>4, <1>7, <1>9, <1>10, <1>11 DEF ChainsStay, Exists
<1>13. triggers' \in [Tasks -> Nat]
  BY <1>1, <1>2, <1>4, <1>6 DEF TypeOK, UpdateTask, DeleteTask, ExecuteTaskNow
<1>14. UNCHANGED <<snap, execRow, lease, now, worker>> /\ NoFault
  BY DEF UpdateTask, DeleteTask, ExecuteTaskNow
<1>15. exec[t].status \notin Taken
  BY <1>5 DEF Taken
<1>16. IInv'
  BY <1>2, <1>3, <1>8, <1>9, <1>10, <1>12, <1>13, <1>14, <1>15, EndingKeeps
<1> QED
  BY <1>12, <1>16

\* An edit that is rolled back, by an error or as the victim of a deadlock.
LEMMA EndingOnlyKeeps ==
    ASSUME IInv, NEW o \in Operators,
           \/ EditFails(o)
           \/ \E w \in Workers : Deadlock(o, w) /\ EndEdit(o) /\ UNCHANGED <<execRow, worker>>
    PROVE  IInv'
<1>1. TypeOK
  BY DEF IInv
<1>2. op[o].pc = "locked" /\ EndEdit(o) /\ (NoFault \/ Fault("db"))
  BY DEF EditFails, Deadlock
<1>3. UNCHANGED <<rows, execRow, lease, triggers, now, worker>>
  BY DEF EditFails, Deadlock
<1>4. ChainsStay
  BY <1>1, <1>3, OJTaskAssumption DEF ChainsStay, rows, TypeOK, TaskRecord
<1> QED
  BY <1>1, <1>2, <1>3, <1>4, EndingKeeps DEF TypeOK, rows

\* A request that begins, or a draft that is given up, writes nothing yet.
LEMMA BeginningKeeps ==
    ASSUME IInv, NEW o \in Operators, BeginEdit(o) \/ ReadSource(o) \/ GiveUp(o)
    PROVE  IInv'
<1>1. TypeOK
  BY DEF IInv
<1>2. UNCHANGED <<rows, execRow, lease, triggers, now, worker>> /\ NoFault
  BY DEF BeginEdit, ReadSource, GiveUp, locks
<1>3. PICK q : /\ q \in [pc : {"idle", "locked", "read"}, req : Requests, on : 0..MaxTasks, plan : Nat]
               /\ op' = [op EXCEPT ![o] = q]
               /\ q.pc = "locked" =>
                    /\ q.on \in Tasks /\ Exists(q.on) /\ taskRow[q.on] = Nobody
                    /\ taskRow' = [taskRow EXCEPT ![q.on] = o]
                    /\ q.req = "update" => task[q.on].content < MaxEdits
               /\ q.pc # "locked" => taskRow' = taskRow
               /\ q.pc = "read" /\ q.req # "create" => q.on \in Tasks /\ Exists(q.on)
  <2>1. CASE BeginEdit(o)
    <3>1. PICK r \in {"update", "delete", "executeNow"}, t \in Tasks, plan \in 0..(MaxTime + 1) :
            /\ r = "update" => task[t].content < MaxEdits
            /\ Exists(t) /\ Free(taskRow, t)
            /\ taskRow' = [taskRow EXCEPT ![t] = o]
            /\ op' = [op EXCEPT ![o] = [pc |-> "locked", req |-> r, on |-> t, plan |-> plan]]
      BY <2>1 DEF BeginEdit
    <3>2. PICK q : q = [pc |-> "locked", req |-> r, on |-> t, plan |-> plan] OBVIOUS
    <3>3. q \in [pc : {"idle", "locked", "read"}, req : Requests, on : 0..MaxTasks, plan : Nat]
      BY <3>2, OJTaskAssumption DEF Requests, Tasks
    <3> QED
      BY <3>1, <3>2, <3>3 DEF Free
  <2>2. CASE ReadSource(o)
    <3>1. PICK r \in {"create", "revise", "retry"}, t \in 0..MaxTasks, plan \in Draft :
            /\ r # "create" => t \in Tasks /\ Exists(t)
            /\ op' = [op EXCEPT ![o] = [pc |-> "read", req |-> r, on |-> t, plan |-> plan]]
      BY <2>2 DEF ReadSource
    <3>2. plan \in Nat
      BY <1>1, OJTaskAssumption DEF Draft, TypeOK
    <3>3. PICK q : q = [pc |-> "read", req |-> r, on |-> t, plan |-> plan] OBVIOUS
    <3>4. q \in [pc : {"idle", "locked", "read"}, req : Requests, on : 0..MaxTasks, plan : Nat]
      BY <3>2, <3>3 DEF Requests
    <3>5. taskRow' = taskRow
      BY <2>2 DEF ReadSource, locks
    <3>6. op' = [op EXCEPT ![o] = q] /\ q.pc = "read" /\ q.req = r /\ q.on = t
      BY <3>1, <3>3
    <3> QED
      BY <3>1, <3>4, <3>5, <3>6
  <2>3. CASE GiveUp(o)
    <3>1. taskRow' = taskRow /\ op' = [op EXCEPT ![o] = IdleOp] /\ IdleOp.pc = "idle"
      BY <2>3 DEF GiveUp, locks, IdleOp
    <3> QED
      BY <3>1, IdleIsTyped
  <2> QED
    BY <2>1, <2>2, <2>3
<1>4. /\ op' \in [Operators -> [pc : {"idle", "locked", "read"}, req : Requests,
                                on : 0..MaxTasks, plan : Nat]]
      /\ op'[o] = q /\ \A p \in Operators \ {o} : op'[p] = op[p]
  BY <1>1, <1>3 DEF TypeOK
<1>5. /\ taskRow' \in [Tasks -> Workers \cup Operators \cup {Nobody}]
      /\ \A t \in Tasks : taskRow[t] # Nobody => taskRow'[t] = taskRow[t]
      /\ q.pc = "locked" => taskRow'[q.on] = o
  BY <1>1, <1>3 DEF TypeOK
<1>6. EditsHold'
  <2>1. ASSUME NEW p \in Operators
        PROVE  /\ op'[p].pc = "locked" =>
                    /\ op'[p].on \in Tasks /\ task[op'[p].on].status # "none"
                    /\ taskRow'[op'[p].on] = p
                    /\ op'[p].req = "update" => task[op'[p].on].content < MaxEdits
               /\ op'[p].pc = "read" /\ op'[p].req # "create" =>
                    op'[p].on \in Tasks /\ task[op'[p].on].status # "none"
    <3>1. CASE p = o
      BY <1>3, <1>4, <1>5, <3>1 DEF Exists
    <3>2. CASE p # o
      <4>1. op'[p] = op[p] /\ p # Nobody
        BY <1>4, <3>2, OJTaskAssumption
      <4> QED
        BY <1>5, <4>1 DEF IInv, EditsHold, Exists
    <3> QED
      BY <3>1, <3>2
  <2> QED
    BY <1>2, <2>1 DEF EditsHold, Exists, rows
<1>7. VersionsAreNumbered' /\ RootsExist'
  <2>1. ChainsStay
    BY <1>1, <1>2, OJTaskAssumption DEF ChainsStay, rows, TypeOK, TaskRecord
  <2> QED
    BY <2>1, ChainsStayNumbered DEF IInv
<1>8. faults' \in [FaultKinds -> Nat] /\ (Unbroken' => Unbroken)
  BY <1>1, <1>2, NoFaultKeeps
<1>9. task' = task /\ exec' = exec /\ snap' = snap /\ triggers' = triggers
  BY <1>2 DEF rows
<1> QED
  BY <1>1, <1>2, <1>4, <1>5, <1>6, <1>7, <1>8, <1>9, OperatorKeeps DEF TypeOK, Exists

\* A version that is created: the first of a chain of its own, or the next of the
\* chain of its source.
LEMMA CreatingKeeps ==
    ASSUME IInv, NEW o \in Operators, CreateTask(o) \/ CreateFromSource(o)
    PROVE  /\ IInv'
           /\ \A t \in Tasks : task'[t].content >= task[t].content
<1>1. TypeOK
  BY DEF IInv
<1>2. PICK n : n = NewId OBVIOUS
<1>3. n \in Tasks /\ ~Exists(n)
  BY <1>2, NewIdIs DEF CreateTask, CreateFromSource
<1>4. PICK r, parent, version :
        /\ InsertVersion(o, r, parent, version)
        /\ r \in Tasks /\ parent \in 0..MaxTasks /\ version \in Nat
        /\ version = Cardinality(Chain(r)) + 1
        /\ {task[u].version : u \in Chain(r)} = 1..Cardinality(Chain(r))
        /\ r = n \/ Exists(r)
  <2>1. CASE CreateTask(o)
    <3>1. Chain(n) = {}
      BY <1>3 DEF Chain, IInv, RootsExist
    <3>2. Cardinality(Chain(n)) = 0
      BY <3>1, FS_EmptySet
    <3>3. 1..Cardinality(Chain(n)) = {} /\ {task[u].version : u \in Chain(n)} = {}
      BY <3>1, <3>2
    <3>4. InsertVersion(o, n, 0, 1) /\ 0 \in 0..MaxTasks
      BY <1>2, <2>1, OJTaskAssumption DEF CreateTask
    <3>5. 1 = Cardinality(Chain(n)) + 1 /\ 1 \in Nat
      BY <3>2
    <3> QED
      BY <1>3, <3>2, <3>3, <3>4, <3>5
  <2>2. CASE CreateFromSource(o)
    <3>1. PICK s : s = op[o].on OBVIOUS
    <3>2. op[o].pc = "read" /\ op[o].req # "create"
      BY <2>2 DEF CreateFromSource, InsertVersion
    <3>3. s \in Tasks /\ Exists(s)
      BY <3>1, <3>2 DEF IInv, EditsHold
    <3>4. PICK r : r = task[s].root OBVIOUS
    <3>5. r \in Tasks /\ Exists(r) /\ s \in 0..MaxTasks
      BY <3>3, <3>4, OJTaskAssumption DEF IInv, RootsExist, Tasks
    <3>6. NextVersionNo(r) = Cardinality(Chain(r)) + 1
      BY <1>1, <3>3, <3>4, NextVersionIs DEF IInv
    <3>7. Cardinality(Chain(r)) + 1 \in Nat
      BY ChainIsFinite
    <3>8. {task[u].version : u \in Chain(r)} = 1..Cardinality(Chain(r))
      BY <3>3, <3>4 DEF IInv, VersionsAreNumbered
    <3>9. InsertVersion(o, r, s, NextVersionNo(r))
      BY <2>2, <3>1, <3>4 DEF CreateFromSource
    <3> QED
      BY <3>5, <3>6, <3>7, <3>8, <3>9
  <2> QED
    BY <2>1, <2>2
<1>5. op[o].plan \in Nat /\ now \in Nat
  BY <1>1 DEF TypeOK
<1>6. PICK c, e :
        /\ c \in TaskRecord /\ c.status # "none" /\ c.root = r /\ c.version = version /\ c.content = 0
        /\ e \in [status : ExecStatuses, planned : Nat]
        /\ e.status = c.status /\ c.status \in {"queued", "scheduled"}
        /\ task' = [task EXCEPT ![n] = c] /\ exec' = [exec EXCEPT ![n] = e]
  <2>1. PICK status \in {"queued", "scheduled"} :
          status = IF op[o].plan = 0 THEN "queued" ELSE "scheduled"
    OBVIOUS
  <2>2. PICK mode \in Modes : mode = IF op[o].plan = 0 THEN "immediate" ELSE "scheduled"
    BY DEF Modes
  <2>3. PICK c : c = [status |-> status, mode |-> mode, root |-> r, parent |-> parent,
                      version |-> version, content |-> 0]
    OBVIOUS
  <2>4. PICK e : e = [status |-> status, planned |-> IF op[o].plan = 0 THEN now ELSE op[o].plan]
    OBVIOUS
  <2>5. r \in 0..MaxTasks /\ 0 \in 0..MaxEdits
    BY <1>4, OJTaskAssumption DEF Tasks
  <2>6. /\ c \in TaskRecord /\ c.status = status /\ c.root = r /\ c.version = version
        /\ c.content = 0 /\ status # "none"
    BY <1>4, <2>1, <2>2, <2>3, <2>5 DEF TaskRecord, TaskStatuses
  <2>7. e \in [status : ExecStatuses, planned : Nat] /\ e.status = status
    BY <1>5, <2>1, <2>4 DEF ExecStatuses
  <2>8. task' = [task EXCEPT ![n] = c] /\ exec' = [exec EXCEPT ![n] = e]
    BY <1>2, <1>4, <2>1, <2>2, <2>3, <2>4 DEF InsertVersion
  <2> QED
    BY <2>1, <2>6, <2>7, <2>8
<1>7. task' \in [Tasks -> TaskRecord] /\ exec' \in [Tasks -> [status : ExecStatuses, planned : Nat]]
  BY <1>1, <1>6 DEF TypeOK
<1>8. task'[n] = c /\ exec'[n] = e
  BY <1>1, <1>3, <1>6 DEF TypeOK
<1>9. \A t \in Tasks : t # n => task'[t] = task[t] /\ exec'[t] = exec[t]
  BY <1>1, <1>6 DEF TypeOK
<1>10. VersionsAreNumbered' /\ RootsExist'
  BY <1>3, <1>4, <1>6, <1>8, <1>9, InsertNumbers DEF IInv
<1>11. exec[n].status = "none" /\ task[n].content = 0
  BY <1>3 DEF IInv, Unborn
<1>12. \A t \in Tasks : task'[t].content >= task[t].content
  <2>1. \A t \in Tasks : task[t].content >= task[t].content
    BY <1>1, OJTaskAssumption DEF TypeOK, TaskRecord
  <2> QED
    BY <1>6, <1>8, <1>9, <1>11, <2>1
<1>13. \A t \in Tasks : Exists(t) => t # n /\ task'[t].status # "none"
  BY <1>3, <1>9 DEF Exists
<1>14. /\ op' \in [Operators -> [pc : {"idle", "locked", "read"}, req : Requests,
                                 on : 0..MaxTasks, plan : Nat]]
       /\ op'[o].pc = "idle" /\ \A p \in Operators \ {o} : op'[p] = op[p]
  <2>1. op' = [op EXCEPT ![o] = IdleOp] /\ IdleOp.pc = "idle"
    BY <1>4 DEF InsertVersion, IdleOp
  <2> QED
    BY <1>1, <2>1, IdleIsTyped DEF TypeOK
<1>15. UNCHANGED <<snap, execRow, lease, now, worker, taskRow>> /\ NoFault
  BY <1>4 DEF InsertVersion, locks
<1>16. triggers' \in [Tasks -> Nat]
  BY <1>1, <1>4 DEF TypeOK, InsertVersion
<1>17. EditsHold'
  <2>1. ASSUME NEW p \in Operators
        PROVE  /\ op'[p].pc = "locked" =>
                    /\ op'[p].on \in Tasks /\ task'[op'[p].on].status # "none"
                    /\ taskRow[op'[p].on] = p
                    /\ op'[p].req = "update" => task'[op'[p].on].content < MaxEdits
               /\ op'[p].pc = "read" /\ op'[p].req # "create" =>
                    op'[p].on \in Tasks /\ task'[op'[p].on].status # "none"
    <3>1. CASE p = o
      BY <1>14, <3>1
    <3>2. CASE p # o
      <4>1. op'[p] = op[p]
        BY <1>14, <3>2
      <4> QED
        BY <1>9, <1>13, <4>1 DEF IInv, EditsHold
    <3> QED
      BY <3>1, <3>2
  <2> QED
    BY <1>15, <2>1 DEF EditsHold, Exists
<1>18. faults' \in [FaultKinds -> Nat] /\ (Unbroken' => Unbroken)
  BY <1>1, <1>15, NoFaultKeeps
<1>19. \A t \in Tasks : \/ task'[t] = task[t] /\ exec'[t].status = exec[t].status
                        \/ /\ exec[t].status \notin Taken /\ exec'[t].status \notin Taken
                           /\ Pair(t)' \in Agree /\ task'[t].status # "none"
  BY <1>6, <1>8, <1>9, <1>11 DEF Pair, Taken, Agree
<1>20. taskRow' \in [Tasks -> Workers \cup Operators \cup {Nobody}]
  BY <1>1, <1>15 DEF TypeOK
<1>21. IInv'
  BY <1>7, <1>10, <1>13, <1>14, <1>15, <1>16, <1>17, <1>18, <1>19, <1>20, OperatorKeeps
<1> QED
  BY <1>12, <1>21

-----------------------------------------------------------------------------
(* The theorems                                                                *)

LEMMA InitIsFine == ASSUME Init PROVE IInv
<1>1. TypeOK
  BY IdleIsTyped, OJTaskAssumption DEF Init, TypeOK, ExecStatuses
<1>2. \A t \in Tasks : task[t] = NoTask /\ exec[t].status = "none" /\ snap[t] = NoSnap
  BY DEF Init
<1>3. NoTask.status = "none" /\ NoTask.content = 0
  BY DEF NoTask
<1>4. \A t \in Tasks : ~Exists(t)
  BY <1>2, <1>3 DEF Exists
<1>5. \A w \in Workers : worker[w].pc = "idle"
  BY DEF Init, IdleWorker
<1>6. Unborn /\ RootsExist /\ VersionsAreNumbered /\ SnapsAreTaken
  BY <1>2, <1>3, <1>4 DEF Unborn, RootsExist, VersionsAreNumbered, SnapsAreTaken
<1>7. ClaimedIsTaken /\ CopiesAreCurrent /\ OneExecutor
  BY <1>5 DEF ClaimedIsTaken, CopiesAreCurrent, OneExecutor, Claimed, Copying
<1>8. DeletedIsCancelled /\ AgreeOrClaimed
  BY <1>2, <1>3 DEF DeletedIsCancelled, AgreeOrClaimed, Agree
<1>9. EditsHold
  BY DEF Init, EditsHold, IdleOp
<1> QED
  BY <1>1, <1>6, <1>7, <1>8, <1>9 DEF IInv

\* Every step keeps the invariant and takes no content away.
LEMMA StepKeeps ==
    ASSUME IInv, [Next]_vars
    PROVE  IInv' /\ \A t \in Tasks : task'[t].content >= task[t].content
<1>1. TypeOK
  BY DEF IInv
<1>2. \A t \in Tasks : task[t].content >= task[t].content
  BY <1>1, OJTaskAssumption DEF TypeOK, TaskRecord
<1>3. CASE UNCHANGED vars
  <2>1. ChainsStay
    BY <1>2, <1>3 DEF ChainsStay, vars, rows
  <2>2. VersionsAreNumbered'
    BY <2>1, ChainsStayNumbered DEF IInv
  <2>3. IInv'
    BY <1>3, <2>2 DEF IInv, vars, rows, locks, TypeOK, Unborn, RootsExist, ClaimedIsTaken,
       CopiesAreCurrent, OneExecutor, SnapsAreTaken, DeletedIsCancelled, EditsHold, Unbroken,
       AgreeOrClaimed, Exists, Row, SameButStatus
  <2> QED
    BY <1>2, <1>3, <2>3 DEF vars, rows
<1>4. ASSUME NEW o \in Operators, OperatorStep(o) \/ \E w \in Workers : Deadlock(o, w)
      PROVE  IInv' /\ \A t \in Tasks : task'[t].content >= task[t].content
  <2>1. CASE UpdateTask(o) \/ DeleteTask(o) \/ ExecuteTaskNow(o)
    BY <2>1, EditingKeeps DEF ChainsStay
  <2>2. CASE CreateTask(o) \/ CreateFromSource(o)
    BY <2>2, CreatingKeeps
  <2>3. CASE BeginEdit(o) \/ ReadSource(o) \/ GiveUp(o)
    BY <1>2, <2>3, BeginningKeeps DEF BeginEdit, ReadSource, GiveUp, rows
  <2>4. CASE EditFails(o)
    BY <1>2, <2>4, EndingOnlyKeeps DEF EditFails, rows
  <2>5. CASE \E w \in Workers : Deadlock(o, w)
    <3>1. PICK w \in Workers : Deadlock(o, w)
      BY <2>5
    <3>2. task' = task
      BY <3>1 DEF Deadlock, rows
    <3>3. \/ EndEdit(o) /\ UNCHANGED <<execRow, worker>>
          \/ GoTo(w, "failExec") /\ UNCHANGED <<taskRow, op>>
      BY <3>1 DEF Deadlock
    <3>4. IInv'
      BY <3>1, <3>3, EndingOnlyKeeps, GoingOnKeeps
    <3> QED
      BY <1>2, <3>2, <3>4
  <2> QED
    BY <1>4, <2>1, <2>2, <2>3, <2>4, <2>5 DEF OperatorStep
<1>5. ASSUME NEW w \in Workers,
             \/ \E t \in Tasks : ScanDue(w, t)
             \/ ConsumeTrigger(w) \/ WorkerStep(w) \/ WorkerFault(w)
      PROVE  IInv' /\ \A t \in Tasks : task'[t].content >= task[t].content
  <2>1. CASE ConsumeTrigger(w) \/ \E t \in Tasks : ScanDue(w, t)
    BY <1>2, <2>1, TakingUpKeeps DEF ConsumeTrigger, ScanDue, rows
  <2>2. CASE AcquireLock(w) \/ AcquireLockError(w) \/ ReleaseLock(w) \/ ReleaseLockError(w)
    BY <1>2, <2>2, LeasingKeeps DEF AcquireLock, AcquireLockError, ReleaseLock, ReleaseLockError, rows
  <2>3. CASE ClaimExecution(w) \/ ClaimExecutionError(w)
    BY <1>2, <2>3, ClaimKeeps DEF ClaimExecution, ClaimExecutionError
  <2>4. CASE LoadRows(w) \/ BuildSnapshot(w)
    BY <1>2, <2>4, ReadingKeeps DEF LoadRows, BuildSnapshot, rows
  <2>5. CASE PreFlightCheck(w) \/ PersistExecution(w) \/ AttemptError(w) \/ MarkFailedError(w)
    BY <1>2, <2>5, GoingOnKeeps DEF PreFlightCheck, PersistExecution, AttemptError, MarkFailedError, rows
  <2>6. CASE CrashWorker(w)
    BY <1>2, <2>6, CrashKeeps DEF CrashWorker, rows
  <2>7. CASE \/ SetExecuting(w) \/ PersistTask(w) \/ CommitReplyLost(w)
             \/ MarkExecutionFailed(w) \/ MarkTaskFailed(w)
    BY <1>2, <2>7, SavingKeeps
  <2> QED
    BY <1>5, <2>1, <2>2, <2>3, <2>4, <2>5, <2>6, <2>7 DEF WorkerStep, WorkerFault
<1>6. CASE Tick \/ TriggerFault \/ LeaseTimeout \/ LeaseLost
  BY <1>2, <1>6, OutsideKeeps DEF Tick, TriggerFault, LeaseTimeout, LeaseLost, rows
<1> QED
  BY <1>3, <1>4, <1>5, <1>6 DEF Next

\* Whatever the operators, workers, messages and faults do, the invariant holds.
LEMMA InvariantHolds == Spec => []IInv
<1>1. Init => IInv
  BY InitIsFine
<1>2. IInv /\ [Next]_vars => IInv'
  BY StepKeeps
<1> QED
  BY <1>1, <1>2, PTL DEF Spec

\* ExecuteTask and its dispatcher keep the types of what they write (the rows of
\* oj_tasks and oj_task_executions, the locks and the requests).
THEOREM TasksAreTyped == Spec => []TypeOK
<1>1. IInv => TypeOK
  BY DEF IInv
<1> QED
  BY <1>1, InvariantHolds, PTL

\* No two workers execute a version: the conditional update of ClaimExecution
\* decides, with the Redis lock disabled, lost or expired as well as with it.
THEOREM ExecutorsExclude == Spec => []OneExecutor
<1>1. IInv => OneExecutor
  BY DEF IInv
<1> QED
  BY <1>1, InvariantHolds, PTL

\* A version is deleted exactly if its execution is cancelled, chains are numbered
\* without gap or repetition, and at rest both status columns agree unless a write
\* was lost.
THEOREM RowsAgree == Spec => []StatusesAgreeAtRest
<1>1. IInv => StatusesAgreeAtRest
  BY DEF IInv, StatusesAgreeAtRest, AgreeOrClaimed, Unbroken
<1> QED
  BY <1>1, InvariantHolds, PTL

\* The save of a whole struct by a worker never takes back what UpdateTask
\* committed.
THEOREM NoEditIsLost == Spec => EditsAreKept
<1>1. IInv /\ [Next]_vars => [\A t \in Tasks : task'[t].content >= task[t].content]_vars
  BY StepKeeps
<1> QED
  BY <1>1, InvariantHolds, PTL DEF Spec, EditsAreKept

-----------------------------------------------------------------------------
(* The tasks implement TaskVersion                                             *)

Attempting == {"load", "setExecuting", "preflight", "snapshot", "persistExec", "persistTask"}

\* Until its attempt ends the execution of a worker is under way, even if the
\* reply of its commit was lost nobody has declared it failed yet, and what its
\* snapshot was built from is what the version says.
AttemptFits(w) ==
    /\ worker[w].pc \in Attempting => exec[Row(w)].status = "executing"
    /\ worker[w].pc = "failExec" => exec[Row(w)].status \in {"executing", "succeeded"}
    /\ worker[w].pc \in {"persistExec", "persistTask"} => worker[w].seen = task[Row(w)].content

\* A version succeeds with a snapshot, and every snapshot is of what the version
\* says, now and for good.
SnapshotFits(t) ==
    /\ exec[t].status = "succeeded" => snap[t] # NoSnap
    /\ snap[t] # NoSnap => snap[t] = task[t].content

SnapshotsAreOfTheVersion == \A t \in Tasks : SnapshotFits(t)

VInv == (\A w \in Workers : AttemptFits(w)) /\ SnapshotsAreOfTheVersion

\* A version whose rows a step leaves as they were, but for a status that
\* TaskVersion does not tell.
Untouched(t) == exec'[t].status = exec[t].status /\ task'[t].content = task[t].content

LEMMA KeptAttemptFits ==
    ASSUME NEW w \in Workers, AttemptFits(w), worker'[w] = worker[w],
           worker[w].pc \in Claimed => Untouched(Row(w))
    PROVE  AttemptFits(w)'
<1>1. Attempting \subseteq Claimed /\ "failExec" \in Claimed
      /\ "persistExec" \in Claimed /\ "persistTask" \in Claimed
  BY PlacesAre DEF Attempting
<1> QED
  BY <1>1 DEF AttemptFits, Untouched, Row

LEMMA KeptSnapshotFits ==
    ASSUME NEW t \in Tasks, SnapshotFits(t), Untouched(t), snap'[t] = snap[t]
    PROVE  SnapshotFits(t)'
BY DEF SnapshotFits, Untouched

\* Whatever worker w does with the version it has claimed, and to whatever version
\* nobody has claimed, the others go on with theirs.
LEMMA OtherAttemptsFit ==
    ASSUME IInv, VInv, NEW w \in Workers,
           \A v \in Workers \ {w} : worker'[v] = worker[v],
           \A t \in Tasks : \/ Untouched(t)
                            \/ exec[t].status \notin Taken
                            \/ t = Row(w) /\ worker[w].pc \in Claimed
    PROVE  \A v \in Workers \ {w} : AttemptFits(v)'
<1> SUFFICES ASSUME NEW v \in Workers \ {w} PROVE AttemptFits(v)'
  OBVIOUS
<1>1. ASSUME worker[v].pc \in Claimed PROVE Untouched(Row(v))
  <2>1. Row(v) \in Tasks /\ exec[Row(v)].status \in Taken
    BY <1>1, PlacesAre DEF IInv, ClaimedIsTaken
  <2>2. worker[w].pc \in Claimed => Row(v) # Row(w)
    BY <1>1 DEF IInv, OneExecutor
  <2> QED
    BY <2>1, <2>2
<1> QED
  BY <1>1, KeptAttemptFits DEF VInv

-----------------------------------------------------------------------------

LEMMA VersionInit == ASSUME Init PROVE Version!Init /\ VInv
<1>1. NoTask.content = 0 /\ IdleWorker.pc = "idle"
  BY DEF NoTask, IdleWorker
<1>2. Version!Init
  BY <1>1 DEF Init, Version!Init, States, Contents
<1>3. VInv
  BY <1>1 DEF Init, VInv, AttemptFits, SnapshotsAreOfTheVersion, SnapshotFits, Attempting
<1> QED
  BY <1>2, <1>3

\* Nothing that TaskVersion tells changes.
LEMMA VersionStays ==
    ASSUME snap' = snap, \A t \in Tasks : Untouched(t)
    PROVE  UNCHANGED Version!versionVars
<1>1. States' = States /\ Contents' = Contents
  BY DEF Untouched, States, Contents
<1> QED
  BY <1>1 DEF Version!versionVars

\* The execution of t goes a step along its life.
LEMMA VersionMoves ==
    ASSUME NEW t \in Tasks, <<exec[t].status, exec'[t].status>> \in Version!Lifecycle,
           \A u \in Tasks : /\ task'[u].content = task[u].content
                            /\ u # t => exec'[u].status = exec[u].status,
           snap' = IF exec'[t].status = "succeeded" THEN [snap EXCEPT ![t] = task[t].content]
                                                    ELSE snap
    PROVE  Version!Next
<1>1. States[t] = exec[t].status /\ States'[t] = exec'[t].status
  BY DEF States
<1>2. States' = [States EXCEPT ![t] = States'[t]]
  BY DEF States
<1>3. Contents' = Contents /\ Contents[t] = task[t].content
  BY DEF Contents
<1>4. Version!Move(t)
  <2>1. exec'[t].status # exec[t].status
    BY DEF Version!Lifecycle
  <2> QED
    BY <1>1, <1>2, <1>3, <2>1 DEF Version!Move
<1> QED
  BY <1>4 DEF Version!Next

-----------------------------------------------------------------------------
(* The steps of a worker                                                       *)

\* A worker that writes no row: it is on its way, gives up, or goes away.
LEMMA QuietWorker ==
    ASSUME IInv, VInv, NEW w \in Workers, UNCHANGED rows,
           \A v \in Workers \ {w} : worker'[v] = worker[v],
           AttemptFits(w)'
    PROVE  VInv' /\ UNCHANGED Version!versionVars
<1>1. \A t \in Tasks : Untouched(t) /\ snap'[t] = snap[t]
  BY DEF rows, Untouched
<1>2. \A v \in Workers : AttemptFits(v)'
  BY <1>1, OtherAttemptsFit
<1>3. \A t \in Tasks : SnapshotFits(t)'
  BY <1>1, KeptSnapshotFits DEF VInv, SnapshotsAreOfTheVersion
<1>4. snap' = snap
  BY DEF rows
<1> QED
  BY <1>1, <1>2, <1>3, <1>4, VersionStays DEF VInv, SnapshotsAreOfTheVersion

\* Every step of a worker that writes no row, before, during and after an attempt.
LEMMA QuietSteps ==
    ASSUME IInv, VInv, NEW w \in Workers,
           \/ ConsumeTrigger(w) \/ \E t \in Tasks : ScanDue(w, t)
           \/ AcquireLock(w) \/ AcquireLockError(w) \/ ReleaseLock(w) \/ ReleaseLockError(w)
           \/ LoadRows(w) \/ PreFlightCheck(w) \/ BuildSnapshot(w) \/ PersistExecution(w)
           \/ AttemptError(w) \/ MarkFailedError(w) \/ CrashWorker(w)
           \/ \E o \in Operators : Deadlock(o, w) /\ GoTo(w, "failExec")
    PROVE  VInv' /\ UNCHANGED Version!versionVars
<1>1. TypeOK /\ AttemptFits(w)
  BY DEF IInv, VInv
<1>2. UNCHANGED rows
  BY DEF ConsumeTrigger, ScanDue, AcquireLock, AcquireLockError, ReleaseLock, ReleaseLockError,
     LoadRows, PreFlightCheck, BuildSnapshot, PersistExecution, AttemptError, MarkFailedError,
     CrashWorker, Deadlock
<1>3. CASE \/ ConsumeTrigger(w) \/ \E t \in Tasks : ScanDue(w, t)
           \/ AcquireLock(w) \/ AcquireLockError(w) \/ ReleaseLock(w) \/ ReleaseLockError(w)
           \/ MarkFailedError(w) \/ CrashWorker(w)
  <2>1. /\ worker'[w].pc \in {"idle", "lock", "claim", "unlock"}
        /\ \A v \in Workers \ {w} : worker'[v] = worker[v]
    <3>1. CASE ConsumeTrigger(w) \/ \E t \in Tasks : ScanDue(w, t)
      <4>1. worker[w].pc = "idle"
        BY <3>1 DEF ConsumeTrigger, ScanDue, At
      <4>2. PICK t \in Tasks :
              \/ worker' = worker
              \/ worker' = [worker EXCEPT ![w] = [IdleWorker EXCEPT !.pc = "lock", !.row = t]]
        BY <3>1 DEF ConsumeTrigger, ScanDue
      <4>3. [IdleWorker EXCEPT !.pc = "lock", !.row = t].pc = "lock"
        BY DEF IdleWorker
      <4> QED
        BY <1>1, <4>1, <4>2, <4>3 DEF TypeOK
    <3>2. CASE Leave(w)
      BY <1>1, <3>2, LeaveIs
    <3>3. CASE GoTo(w, "claim") \/ GoTo(w, "unlock")
      <4>1. "claim" \in WorkerPCs /\ "unlock" \in WorkerPCs
        BY DEF WorkerPCs
      <4> QED
        BY <1>1, <3>3, <4>1, GoToIs
    <3> QED
      BY <1>3, <3>1, <3>2, <3>3
         DEF AcquireLock, AcquireLockError, ReleaseLock, ReleaseLockError, MarkFailedError, CrashWorker
  <2>2. AttemptFits(w)'
    BY <2>1 DEF AttemptFits, Attempting
  <2> QED
    BY <1>2, <2>1, <2>2, QuietWorker
<1>4. CASE \/ LoadRows(w) \/ PreFlightCheck(w) \/ PersistExecution(w) \/ AttemptError(w)
           \/ BuildSnapshot(w) \/ \E o \in Operators : Deadlock(o, w) /\ GoTo(w, "failExec")
  <2>1. worker[w].pc \in Attempting
    BY <1>4 DEF LoadRows, PreFlightCheck, BuildSnapshot, PersistExecution, AttemptError, Deadlock, At,
       Attempting
  <2>2. exec[Row(w)].status = "executing" /\ exec' = exec /\ task' = task
    BY <1>1, <1>2, <2>1 DEF AttemptFits, rows
  <2>3. /\ worker'[w].row = Row(w) /\ worker'[w].pc # "idle"
        /\ worker'[w].pc \in {"persistExec", "persistTask"} => worker'[w].seen = task[Row(w)].content
        /\ \A v \in Workers \ {w} : worker'[v] = worker[v]
    BY <1>1, <1>4 DEF AttemptFits, TypeOK, LoadRows, PreFlightCheck, BuildSnapshot, PersistExecution,
       AttemptError, Deadlock, GoTo, At, Row
  <2>4. AttemptFits(w)'
    BY <2>2, <2>3 DEF AttemptFits, Row
  <2> QED
    BY <1>2, <2>3, <2>4, QuietWorker
<1> QED
  BY <1>3, <1>4

\* The claim takes a version nobody has taken.
LEMMA ClaimTakes ==
    ASSUME IInv, VInv, NEW w \in Workers, ClaimExecution(w) \/ ClaimExecutionError(w)
    PROVE  VInv' /\ [Version!Next]_(Version!versionVars)
<1>1. TypeOK /\ worker[w].pc = "claim" /\ Row(w) \in Tasks
  BY DEF IInv, ClaimedIsTaken, ClaimExecution, ClaimExecutionError, At
<1>2. task' = task /\ snap' = snap
  BY DEF ClaimExecution, ClaimExecutionError
<1>3. PICK e : e = exec[Row(w)] OBVIOUS
<1>4. \/ exec' = exec
      \/ e.status \in Dispatchable /\ exec' = [exec EXCEPT ![Row(w)].status = "executing"]
  <2>1. e.status \notin Dispatchable => [exec EXCEPT ![Row(w)].status = e.status] = exec
    BY <1>1, <1>3 DEF TypeOK
  <2> QED
    BY <1>3, <2>1 DEF ClaimExecution, ClaimExecutionError
<1>5. /\ worker'[w].pc \in {"load", "unlock"} /\ worker'[w].row = Row(w)
      /\ worker'[w].pc = "load" => exec'[Row(w)].status = "executing"
      /\ \A v \in Workers \ {w} : worker'[v] = worker[v]
  <2>1. "load" \in WorkerPCs /\ "unlock" \in WorkerPCs
    BY DEF WorkerPCs
  <2>2. CASE ClaimExecution(w)
    <3>1. PICK pc \in {"load", "unlock"} :
            /\ GoTo(w, pc)
            /\ pc = "load" => exec' = [exec EXCEPT ![Row(w)].status = "executing"]
      BY <2>2 DEF ClaimExecution
    <3> QED
      BY <1>1, <2>1, <3>1, GoToIs DEF Row, TypeOK
  <2>3. CASE ClaimExecutionError(w)
    <3>1. GoTo(w, "unlock")
      BY <2>3 DEF ClaimExecutionError
    <3> QED
      BY <1>1, <2>1, <3>1, GoToIs DEF Row
  <2> QED
    BY <2>2, <2>3
<1>6. \A t \in Tasks : \/ exec'[t].status = exec[t].status
                       \/ /\ t = Row(w) /\ exec[t].status \in Dispatchable
                          /\ exec'[t].status = "executing"
  BY <1>1, <1>3, <1>4 DEF TypeOK
<1>7. \A v \in Workers : AttemptFits(v)'
  <2>1. \A v \in Workers \ {w} : AttemptFits(v)'
    <3>1. \A t \in Tasks : Untouched(t) \/ exec[t].status \notin Taken
      BY <1>2, <1>6 DEF Untouched, Taken, Dispatchable
    <3> QED
      BY <1>5, <3>1, OtherAttemptsFit
  <2>2. AttemptFits(w)'
    BY <1>5 DEF AttemptFits, Attempting, Row
  <2> QED
    BY <2>1, <2>2
<1>8. \A t \in Tasks : SnapshotFits(t)'
  BY <1>2, <1>6 DEF VInv, SnapshotsAreOfTheVersion, SnapshotFits
<1>9. CASE \A t \in Tasks : exec'[t].status = exec[t].status
  BY <1>2, <1>7, <1>8, <1>9, VersionStays DEF VInv, SnapshotsAreOfTheVersion, Untouched
<1>10. CASE \E t \in Tasks : exec'[t].status # exec[t].status
  <2>1. exec[Row(w)].status \in Dispatchable /\ exec'[Row(w)].status = "executing"
    BY <1>6, <1>10
  <2>2. <<exec[Row(w)].status, exec'[Row(w)].status>> \in Version!Lifecycle
    BY <2>1 DEF Dispatchable, Version!Lifecycle
  <2>3. Version!Next
    BY <1>1, <1>2, <1>6, <2>1, <2>2, VersionMoves
  <2> QED
    BY <1>7, <1>8, <2>3 DEF VInv, SnapshotsAreOfTheVersion
<1> QED
  BY <1>9, <1>10

\* The saves of an attempt: the struct that was loaded says what the version says,
\* and the snapshot is committed while the execution is under way.
LEMMA SavesMove ==
    ASSUME IInv, VInv, NEW w \in Workers,
           \/ SetExecuting(w) \/ PersistTask(w) \/ CommitReplyLost(w)
           \/ MarkExecutionFailed(w) \/ MarkTaskFailed(w)
    PROVE  VInv' /\ [Version!Next]_(Version!versionVars)
<1>1. TypeOK /\ AttemptFits(w)
  BY DEF IInv, VInv
<1>2. worker[w].pc \in {"setExecuting", "persistTask", "failExec", "failTask"}
  BY DEF SetExecuting, PersistTask, CommitReplyLost, MarkExecutionFailed, MarkTaskFailed, At
<1>3. worker[w].pc \in Claimed /\ Row(w) \in Tasks
  BY <1>2, PlacesAre DEF IInv, ClaimedIsTaken
<1>4. \A t \in Tasks : task'[t].content = task[t].content
  <2>1. CASE SetExecuting(w) \/ PersistTask(w) \/ CommitReplyLost(w)
    <3>1. worker[w].pc \in Copying
      BY <2>1 DEF SetExecuting, PersistTask, CommitReplyLost, At, Copying
    <3>2. worker[w].copy.content = task[Row(w)].content
      BY <3>1 DEF IInv, CopiesAreCurrent, SameButStatus
    <3>3. \E s \in TaskStatuses : task' = Save(w, s)
      BY <2>1 DEF SetExecuting, PersistTask, CommitReplyLost, CommitSnapshot, TaskStatuses
    <3> QED
      BY <1>1, <1>3, <3>2, <3>3, SaveIs DEF SameButStatus
  <2>2. CASE MarkExecutionFailed(w)
    BY <2>2 DEF MarkExecutionFailed
  <2>3. CASE MarkTaskFailed(w)
    <3>1. PICK n : n = Row(w) OBVIOUS
    <3>2. task' = [task EXCEPT ![n].status = "failed"] /\ task \in [Tasks -> TaskRecord]
      BY <1>1, <2>3, <3>1 DEF MarkTaskFailed, TypeOK
    <3> QED
      BY <3>2 DEF TaskRecord
  <2> QED
    BY <2>1, <2>2, <2>3
<1>5. PICK pc \in {"preflight", "unlock", "failExec", "failTask"} :
         /\ GoTo(w, pc)
         /\ pc = "preflight" => SetExecuting(w)
         /\ pc = "failExec" => CommitReplyLost(w)
  BY DEF SetExecuting, PersistTask, CommitReplyLost, MarkExecutionFailed, MarkTaskFailed
<1>6. /\ worker'[w].pc = pc /\ worker'[w].row = Row(w)
      /\ \A v \in Workers \ {w} : worker'[v] = worker[v]
  <2>1. pc \in WorkerPCs
    BY <1>5 DEF WorkerPCs
  <2> QED
    BY <1>1, <1>5, <2>1, GoToIs DEF Row
<1>7. /\ \A t \in Tasks \ {Row(w)} : exec'[t] = exec[t] /\ snap'[t] = snap[t]
      /\ exec'[Row(w)].status =
           CASE worker[w].pc = "persistTask" -> "succeeded"
             [] worker[w].pc = "failExec" -> "failed"
             [] OTHER -> exec[Row(w)].status
      /\ snap' = IF worker[w].pc = "persistTask" THEN [snap EXCEPT ![Row(w)] = worker[w].seen]
                                                 ELSE snap
  <2>1. PICK n : n = Row(w) OBVIOUS
  <2>2. exec \in [Tasks -> [status : ExecStatuses, planned : Nat]] /\ snap \in [Tasks -> Nat \cup {NoSnap}]
    BY <1>1 DEF TypeOK
  <2>3. CASE SetExecuting(w) \/ MarkTaskFailed(w)
    BY <2>3 DEF SetExecuting, MarkTaskFailed, At
  <2>4. CASE PersistTask(w) \/ CommitReplyLost(w)
    <3>1. /\ worker[w].pc = "persistTask"
          /\ exec' = [exec EXCEPT ![n].status = "succeeded"]
          /\ snap' = [snap EXCEPT ![n] = worker[w].seen]
      BY <2>1, <2>4 DEF PersistTask, CommitReplyLost, CommitSnapshot, At
    <3> QED
      BY <1>3, <2>1, <2>2, <3>1
  <2>5. CASE MarkExecutionFailed(w)
    <3>1. /\ worker[w].pc = "failExec" /\ snap' = snap
          /\ exec' = [exec EXCEPT ![n].status = "failed"]
      BY <2>1, <2>5 DEF MarkExecutionFailed, At
    <3> QED
      BY <1>3, <2>1, <2>2, <3>1
  <2> QED
    BY <2>3, <2>4, <2>5
<1>8. worker[w].pc = "persistTask" =>
        exec[Row(w)].status = "executing" /\ worker[w].seen = task[Row(w)].content
  BY <1>1 DEF AttemptFits, Attempting
<1>9. \A v \in Workers : AttemptFits(v)'
  <2>1. \A v \in Workers \ {w} : AttemptFits(v)'
    BY <1>3, <1>4, <1>6, <1>7, OtherAttemptsFit DEF Untouched
  <2>2. ASSUME pc = "preflight" PROVE exec'[Row(w)].status = "executing"
    <3>1. worker[w].pc = "setExecuting"
      BY <1>5, <2>2 DEF SetExecuting, At
    <3> QED
      BY <1>1, <1>7, <3>1 DEF AttemptFits, Attempting
  <2>3. ASSUME pc = "failExec" PROVE exec'[Row(w)].status = "succeeded"
    <3>1. worker[w].pc = "persistTask"
      BY <1>5, <2>3 DEF CommitReplyLost, At
    <3> QED
      BY <1>7, <3>1
  <2>4. AttemptFits(w)'
    BY <1>6, <2>2, <2>3 DEF AttemptFits, Attempting, Row
  <2> QED
    BY <2>1, <2>4
<1>10. \A t \in Tasks : SnapshotFits(t)'
  <2>1. ASSUME NEW t \in Tasks, t # Row(w) PROVE SnapshotFits(t)'
    BY <1>4, <1>7, <2>1, KeptSnapshotFits DEF VInv, SnapshotsAreOfTheVersion, Untouched
  <2>2. ASSUME NEW t \in Tasks, t = Row(w) PROVE SnapshotFits(t)'
    <3>1. SnapshotFits(t) /\ task'[t].content = task[t].content /\ task[t].content \in Nat
      BY <1>1, <1>4, OJTaskAssumption DEF VInv, SnapshotsAreOfTheVersion, TypeOK, TaskRecord
    <3>2. CASE worker[w].pc = "persistTask"
      <4>1. snap'[t] = task[t].content
        BY <1>1, <1>7, <1>8, <2>2, <3>2 DEF TypeOK
      <4>2. snap'[t] # NoSnap /\ snap'[t] = task'[t].content
        BY <3>1, <4>1, OJTaskAssumption
      <4> QED
        BY <4>2 DEF SnapshotFits
    <3>3. CASE worker[w].pc # "persistTask"
      <4>1. snap' = snap /\ (exec'[t].status = "succeeded" => exec[t].status = "succeeded")
        BY <1>7, <2>2, <3>3
      <4> QED
        BY <3>1, <4>1 DEF SnapshotFits
    <3> QED
      BY <3>2, <3>3
  <2> QED
    BY <2>1, <2>2
<1>11. VInv'
  BY <1>9, <1>10 DEF VInv, SnapshotsAreOfTheVersion
<1>12. CASE worker[w].pc \in {"persistTask", "failExec"}
  <2>1. <<exec[Row(w)].status, exec'[Row(w)].status>> \in Version!Lifecycle
    BY <1>1, <1>7, <1>8, <1>12 DEF AttemptFits, Version!Lifecycle
  <2>2. snap' = IF exec'[Row(w)].status = "succeeded"
                  THEN [snap EXCEPT ![Row(w)] = task[Row(w)].content] ELSE snap
    BY <1>7, <1>8, <1>12
  <2>3. Version!Next
    BY <1>3, <1>4, <1>7, <2>1, <2>2, VersionMoves
  <2> QED
    BY <1>11, <2>3
<1>13. CASE worker[w].pc \in {"setExecuting", "failTask"}
  <2>1. snap' = snap /\ \A t \in Tasks : Untouched(t)
    BY <1>4, <1>7, <1>13 DEF Untouched
  <2> QED
    BY <1>11, <2>1, VersionStays
<1> QED
  BY <1>2, <1>11, <1>12, <1>13

-----------------------------------------------------------------------------
(* The steps of an operator                                                    *)

\* A request touches no version that a worker has claimed, so every attempt goes
\* on as before, and only versions that have no snapshot.
LEMMA RequestTouches ==
    ASSUME IInv, VInv, UNCHANGED <<snap, worker>>,
           \A t \in Tasks : \/ Untouched(t)
                            \/ exec[t].status \notin Taken /\ exec'[t].status \notin Taken
    PROVE  VInv'
<1>1. ASSUME NEW w \in Workers PROVE AttemptFits(w)'
  <2>1. ASSUME worker[w].pc \in Claimed PROVE Untouched(Row(w))
    BY <2>1, PlacesAre DEF IInv, ClaimedIsTaken
  <2> QED
    BY <2>1, KeptAttemptFits DEF VInv
<1>2. ASSUME NEW t \in Tasks PROVE SnapshotFits(t)'
  <2>1. CASE Untouched(t)
    BY <2>1, KeptSnapshotFits DEF VInv, SnapshotsAreOfTheVersion
  <2>2. CASE exec[t].status \notin Taken /\ exec'[t].status \notin Taken
    BY <2>2 DEF IInv, SnapsAreTaken, SnapshotFits, Taken
  <2> QED
    BY <2>1, <2>2
<1> QED
  BY <1>1, <1>2 DEF VInv, SnapshotsAreOfTheVersion

\* A request that writes no row: it begins, is given up, fails, or gives way to a
\* worker in a deadlock.
LEMMA QuietRequests ==
    ASSUME IInv, VInv, UNCHANGED <<rows, worker>>
    PROVE  VInv' /\ UNCHANGED Version!versionVars
<1>1. snap' = snap /\ \A t \in Tasks : Untouched(t)
  BY DEF rows, Untouched
<1> QED
  BY <1>1, RequestTouches, VersionStays

\* An edit in place, a deletion and an immediate execution find the version waiting
\* for its time.
LEMMA RequestsMove ==
    ASSUME IInv, VInv, NEW o \in Operators, UpdateTask(o) \/ DeleteTask(o) \/ ExecuteTaskNow(o)
    PROVE  VInv' /\ [Version!Next]_(Version!versionVars)
<1>1. PICK n : n = op[o].on OBVIOUS
<1>2. op[o].pc = "locked" /\ exec[n].status = "scheduled"
  BY <1>1 DEF UpdateTask, DeleteTask, ExecuteTaskNow, Edit, Editable
<1>3. n \in Tasks
  BY <1>1, <1>2 DEF IInv, EditsHold
<1>4. /\ task \in [Tasks -> TaskRecord] /\ exec \in [Tasks -> [status : ExecStatuses, planned : Nat]]
      /\ UNCHANGED <<snap, worker>>
  BY DEF IInv, TypeOK, UpdateTask, DeleteTask, ExecuteTaskNow
<1>5. CASE UpdateTask(o)
  <2>1. /\ task' = [task EXCEPT ![n].content = @ + 1]
        /\ exec' = [exec EXCEPT ![n].planned = op[o].plan]
    BY <1>1, <1>5 DEF UpdateTask
  <2>2. /\ \A t \in Tasks : exec'[t].status = exec[t].status
        /\ \A t \in Tasks : task'[t].content = IF t = n THEN task[t].content + 1 ELSE task[t].content
    BY <1>3, <1>4, <2>1 DEF TaskRecord
  <2>3. VInv'
    BY <1>2, <1>4, <2>2, RequestTouches DEF Untouched, Taken
  <2>4. States' = States /\ Contents' = [Contents EXCEPT ![n] = @ + 1] /\ States[n] = "scheduled"
    BY <1>2, <1>3, <2>2 DEF States, Contents
  <2>5. Version!Next
    BY <1>3, <1>4, <2>4 DEF Version!Next, Version!Edit
  <2> QED
    BY <2>3, <2>5
<1>6. CASE DeleteTask(o) \/ ExecuteTaskNow(o)
  <2>1. /\ \A t \in Tasks : task'[t].content = task[t].content
        /\ \A t \in Tasks : t # n => exec'[t].status = exec[t].status
        /\ exec'[n].status \in {"cancelled", "queued"}
    <3>1. CASE DeleteTask(o)
      <4>1. /\ task' = [task EXCEPT ![n].status = "deleted"]
            /\ exec' = [exec EXCEPT ![n].status = "cancelled"]
        BY <1>1, <3>1 DEF DeleteTask
      <4> QED
        BY <1>3, <1>4, <4>1 DEF TaskRecord
    <3>2. CASE ExecuteTaskNow(o)
      <4>1. /\ task' = [task EXCEPT ![n].status = "queued"]
            /\ exec' = [exec EXCEPT ![n] = [status |-> "queued", planned |-> now]]
        BY <1>1, <3>2 DEF ExecuteTaskNow
      <4> QED
        BY <1>3, <1>4, <4>1 DEF TaskRecord
    <3> QED
      BY <1>6, <3>1, <3>2
  <2>2. VInv'
    BY <1>2, <1>4, <2>1, RequestTouches DEF Untouched, Taken
  <2>3. <<exec[n].status, exec'[n].status>> \in Version!Lifecycle
    BY <1>2, <2>1 DEF Version!Lifecycle
  <2>4. Version!Next
    BY <1>3, <1>4, <2>1, <2>3, VersionMoves
  <2> QED
    BY <2>2, <2>4
<1> QED
  BY <1>5, <1>6

\* A version that is created.
LEMMA CreationMoves ==
    ASSUME IInv, VInv, NEW o \in Operators, CreateTask(o) \/ CreateFromSource(o)
    PROVE  VInv' /\ [Version!Next]_(Version!versionVars)
<1>1. PICK n : n = NewId OBVIOUS
<1>2. n \in Tasks /\ ~Exists(n)
  BY <1>1, NewIdIs DEF CreateTask, CreateFromSource
<1>3. exec[n].status = "none" /\ task[n].content = 0
  BY <1>2 DEF IInv, Unborn
<1>4. /\ task \in [Tasks -> TaskRecord] /\ exec \in [Tasks -> [status : ExecStatuses, planned : Nat]]
  BY DEF IInv, TypeOK
<1>5. PICK r, parent, version : InsertVersion(o, r, parent, version)
  BY DEF CreateTask, CreateFromSource
<1>6. UNCHANGED <<snap, worker>>
  BY <1>5 DEF InsertVersion
<1>7. /\ \A t \in Tasks : task'[t].content = task[t].content
      /\ \A t \in Tasks : t # n => exec'[t].status = exec[t].status
      /\ exec'[n].status \in {"queued", "scheduled"}
  <2>1. PICK c, e : /\ task' = [task EXCEPT ![n] = c] /\ exec' = [exec EXCEPT ![n] = e]
                    /\ c.content = 0 /\ e.status \in {"queued", "scheduled"}
    <3>1. PICK status \in {"queued", "scheduled"} :
            status = IF op[o].plan = 0 THEN "queued" ELSE "scheduled"
      OBVIOUS
    <3>2. PICK c : c = [status |-> status, mode |-> IF op[o].plan = 0 THEN "immediate" ELSE "scheduled",
                        root |-> r, parent |-> parent, version |-> version, content |-> 0]
      OBVIOUS
    <3>3. PICK e : e = [status |-> status, planned |-> IF op[o].plan = 0 THEN now ELSE op[o].plan]
      OBVIOUS
    <3>4. task' = [task EXCEPT ![n] = c] /\ exec' = [exec EXCEPT ![n] = e]
      BY <1>1, <1>5, <3>1, <3>2, <3>3 DEF InsertVersion
    <3>5. c.content = 0 /\ e.status = status
      BY <3>2, <3>3
    <3> QED
      BY <3>1, <3>4, <3>5
  <2> QED
    BY <1>2, <1>3, <1>4, <2>1
<1>8. VInv'
  BY <1>3, <1>6, <1>7, RequestTouches DEF Untouched, Taken
<1>9. <<exec[n].status, exec'[n].status>> \in Version!Lifecycle
  BY <1>3, <1>7 DEF Version!Lifecycle
<1>10. Version!Next
  BY <1>2, <1>6, <1>7, <1>9, VersionMoves
<1> QED
  BY <1>8, <1>10

-----------------------------------------------------------------------------

\* Every step is a step of TaskVersion, or none that it tells.
LEMMA VersionStep ==
    ASSUME IInv, VInv, [Next]_vars
    PROVE  VInv' /\ [Version!Next]_(Version!versionVars)
<1>1. CASE UNCHANGED vars \/ Tick \/ TriggerFault \/ LeaseTimeout \/ LeaseLost
  BY <1>1, QuietRequests DEF vars, Tick, TriggerFault, LeaseTimeout, LeaseLost, rows
<1>2. ASSUME NEW o \in Operators, OperatorStep(o)
      PROVE  VInv' /\ [Version!Next]_(Version!versionVars)
  <2>1. CASE BeginEdit(o) \/ EditFails(o) \/ ReadSource(o) \/ GiveUp(o)
    BY <2>1, QuietRequests DEF BeginEdit, EditFails, ReadSource, GiveUp
  <2> QED
    BY <1>2, <2>1, RequestsMove, CreationMoves DEF OperatorStep
<1>3. ASSUME NEW o \in Operators, NEW w \in Workers, Deadlock(o, w)
      PROVE  VInv' /\ [Version!Next]_(Version!versionVars)
  <2>1. CASE UNCHANGED worker
    BY <1>3, <2>1, QuietRequests DEF Deadlock
  <2>2. CASE GoTo(w, "failExec")
    BY <1>3, <2>2, QuietSteps
  <2> QED
    BY <1>3, <2>1, <2>2 DEF Deadlock
<1>4. ASSUME NEW w \in Workers, \/ \E t \in Tasks : ScanDue(w, t)
                                \/ ConsumeTrigger(w) \/ WorkerStep(w) \/ WorkerFault(w)
      PROVE  VInv' /\ [Version!Next]_(Version!versionVars)
  BY <1>4, QuietSteps, ClaimTakes, SavesMove DEF WorkerStep, WorkerFault
<1> QED
  BY <1>1, <1>2, <1>3, <1>4 DEF Next

\* What workers, operators, locks and triggers do to a version is what TaskVersion
\* says becomes of it: ClaimExecution takes it up once and for good, no whole-row
\* save takes an edit back, and persistExecutionSnapshot stores a snapshot of what
\* the version says from the claim on.
THEOREM TasksImplementVersion == Spec => ImplementsVersion
<1>1. Init => VInv /\ Version!Init
  BY VersionInit
<1>2. IInv /\ VInv /\ [Next]_vars => VInv' /\ [Version!Next]_(Version!versionVars)
  BY VersionStep
<1> QED
  BY <1>1, <1>2, InvariantHolds, PTL DEF Spec, ImplementsVersion, Version!Spec

\* A version that has succeeded has its snapshot (persistExecutionSnapshot commits
\* both or neither), and a snapshot is never of other content than the version's,
\* not even that of a version declared failed after its commit.
THEOREM SnapshotsStayTrue == Spec => []SnapshotsAreOfTheVersion
<1>1. Init => VInv
  BY VersionInit
<1>2. IInv /\ VInv /\ [Next]_vars => VInv'
  BY VersionStep
<1>3. VInv => SnapshotsAreOfTheVersion
  BY DEF VInv
<1> QED
  BY <1>1, <1>2, <1>3, InvariantHolds, PTL DEF Spec

-----------------------------------------------------------------------------
(* The account at a judge: the inductive invariant                             *)

OneBind == \A r, s \in Binds : req[r] # Idle /\ req[s] # Idle => r = s

OneLive == \A i, j \in Live : i = j

LiveIsBound == \A i \in Live : details[i].account = bound

FactsAreTheirs == \A f \in facts : details[f[1]].live => f[2] = details[f[1]].account

\* Who asks or is about to write has found no row of another account, or is going
\* to delete it with his transaction.
BindFits ==
    \A r \in Binds :
        req[r].pc \in {"ask", "write"} /\ (platform # "lanqiao" \/ ~req[r].reset) =>
            \A i \in Live : details[i].account = req[r].account

\* Who is about to write has read the row that is there.
WriteFits == \A r \in Binds : req[r].pc = "write" => platform # "lanqiao" /\ req[r].into = Found

ClearFits == \A r \in Binds : req[r].pc = "clear" => req[r].account = bound

SyncFits == sync # Idle /\ sync.pc = "write" /\ Current => sync.into = sync.id

FreshFits == sync # Idle /\ sync.pc = "store" => \A p \in sync.fresh : p[1] = sync.account

\* The switch says "invalid" for the account bound, or is about to be turned on.
SwitchFits ==
    ~broken /\ disabled = "invalid" /\ (\A r \in Binds : req[r].pc # "clear") => bound \notin good

SwitchIsLanqiaos == platform # "lanqiao" => disabled = "no"

RowFits == /\ OneBind /\ OneLive /\ LiveIsBound /\ FactsAreTheirs
           /\ BindFits /\ WriteFits /\ ClearFits

WhatFits == RowFits /\ SyncFits /\ SwitchFits

AccountIInv == /\ AccountTypeOK /\ SwitchIsLanqiaos /\ FreshFits
               /\ ~crossed => WhatFits

-----------------------------------------------------------------------------
(* Rows.                                                                       *)

LEMMA RowsAreNumbered ==
    ASSUME AccountTypeOK
    PROVE  /\ Len(details) \in Nat /\ DOMAIN details = 1..Len(details)
           /\ \A i \in 1..Len(details) : details[i] \in DetailRecords
           /\ Live \subseteq 1..Len(details)
BY DEF AccountTypeOK, Live

LEMMA DeletedRows ==
    ASSUME AccountTypeOK
    PROVE  /\ Deleted \in Seq(DetailRecords) /\ Len(Deleted) = Len(details)
           /\ DOMAIN Deleted = 1..Len(details)
           /\ \A i \in 1..Len(details) : Deleted[i].live = FALSE
<1>. USE RowsAreNumbered
<1>. DEFINE row(i) == [details[i] EXCEPT !.live = FALSE]
<1>1. \A i \in 1..Len(details) : row(i) \in DetailRecords /\ row(i).live = FALSE
  BY DEF DetailRecords
<1>2. Deleted = [i \in 1..Len(details) |-> row(i)]
  BY DEF Deleted
<1>. HIDE DEF row
<1>3. Deleted \in [1..Len(details) -> DetailRecords]
  BY <1>1, <1>2
<1>. QED
  BY <1>1, <1>2, <1>3, SeqDef

LEMMA PutRows ==
    ASSUME NEW table \in Seq(DetailRecords), NEW into \in Nat, into <= Len(table),
           NEW a \in Accounts, NEW n \in 0..MaxSolved
    PROVE  /\ Put(table, into, a, n) \in Seq(DetailRecords)
           /\ Len(Put(table, into, a, n)) = IF into = NoRow THEN Len(table) + 1 ELSE Len(table)
           /\ Put(table, into, a, n)[IF into = NoRow THEN Len(table) + 1 ELSE into]
                = [account |-> a, passed |-> n, live |-> TRUE]
           /\ \A i \in 1..Len(table) : i # into => Put(table, into, a, n)[i] = table[i]
<1>. DEFINE row == [account |-> a, passed |-> n, live |-> TRUE]
<1>1. row \in DetailRecords
  BY DEF DetailRecords
<1>2. Put(table, into, a, n) = IF into = NoRow THEN Append(table, row) ELSE [table EXCEPT ![into] = row]
  BY DEF Put
<1>. HIDE DEF row
<1>3. CASE into = NoRow
  BY <1>1, <1>2, <1>3 DEF row
<1>4. CASE into # NoRow
  <2>1. into \in 1..Len(table)
    BY <1>4 DEF NoRow
  <2>. QED
    BY <1>1, <1>2, <1>4, <2>1 DEF row
<1>. QED
  BY <1>3, <1>4

LEMMA PutGrows ==
    ASSUME NEW table \in Seq(DetailRecords), Len(table) = Len(details),
           NEW into \in Nat, into <= Len(details), NEW a \in Accounts, NEW n \in 0..MaxSolved
    PROVE  /\ Put(table, into, a, n) \in Seq(DetailRecords)
           /\ Len(Put(table, into, a, n)) \in Nat
           /\ Len(details) <= Len(Put(table, into, a, n))
           /\ PutInto(into) \in 1..Len(Put(table, into, a, n))
<1>1. Len(table) \in Nat /\ into <= Len(table)
  OBVIOUS
<1>2. /\ Put(table, into, a, n) \in Seq(DetailRecords)
      /\ Len(Put(table, into, a, n)) = IF into = NoRow THEN Len(table) + 1 ELSE Len(table)
  BY <1>1, PutRows
<1>. HIDE DEF Put
<1>3. CASE into = NoRow
  <2>1. Len(Put(table, into, a, n)) = Len(details) + 1
    BY <1>2, <1>3
  <2>. QED
    BY <1>1, <1>2, <1>3, <2>1 DEF PutInto
<1>4. CASE into # NoRow
  <2>1. Len(Put(table, into, a, n)) = Len(details)
    BY <1>2, <1>4
  <2>. QED
    BY <1>1, <1>2, <1>4, <2>1 DEF PutInto, NoRow
<1>. QED
  BY <1>3, <1>4

LEMMA FoundIsLive ==
    ASSUME AccountTypeOK
    PROVE  /\ Live = {} => Found = NoRow
           /\ Live # {} => Found \in Live
           /\ Found \in Nat /\ Found <= Len(details)
           /\ Found # NoRow => Found \in Live
<1>. USE RowsAreNumbered
<1>1. ASSUME Live # {} PROVE Found \in Live
  <2>1. Live \subseteq Nat
    OBVIOUS
  <2>2. PICK m \in Live : \A n \in Live : ~ (<<n, m>> \in OpToRel(<, Nat))
    BY <1>1, <2>1, NatLessThanWellFounded, WFMin
  <2>3. \A n \in Live : n < m => <<n, m>> \in OpToRel(<, Nat)
    BY <2>1 DEF OpToRel
  <2>4. \A n \in Live : ~(n < m)
    BY <2>2, <2>3, Zenon
  <2>5. \A n \in Live : m <= n
    BY <2>1, <2>4
  <2>. QED
    BY <1>1, <2>5 DEF Found
<1>2. Live = {} => Found = NoRow
  BY DEF Found
<1>. QED
  BY <1>1, <1>2 DEF NoRow

LEMMA OnlyOneIsFound ==
    ASSUME AccountTypeOK, OneLive, NEW i \in Live
    PROVE  Found = i
BY FoundIsLive DEF OneLive

-----------------------------------------------------------------------------
(* The types.                                                                  *)

FactsOf(n) == (1..n) \X Accounts \X (1..MaxSolved)

LEMMA AccountTypes ==
    AccountTypeOK <=>
      /\ platform \in {"leetcode", "luogu", "lanqiao"}
      /\ judge \in [Accounts -> 0..MaxSolved] /\ good \subseteq Accounts
      /\ details \in Seq(DetailRecords)
      /\ facts \subseteq FactsOf(Len(details))
      /\ binding \subseteq SUBSET Problems /\ refresh \subseteq {"refresh", "reset"}
      /\ req \in [Binds -> {Idle} \cup BindRecords]
      /\ \A r \in Binds : req[r] # Idle => req[r].into <= Len(details)
      /\ sync \in {Idle} \cup SyncRecords
      /\ sync # Idle => sync.id \in 1..Len(details)
      /\ sync # Idle /\ sync.pc = "write" => sync.into <= Len(details)
      /\ handler \in {Idle} \cup HandlerRecords
      /\ handler # Idle => handler.id \in 1..Len(details)
      /\ seen \subseteq Problems /\ lost \subseteq Problems
      /\ fails \in 0..Threshold - 1
      /\ disabled \in {"no", "failing", "invalid"}
      /\ bound \in Accounts \cup {NoAccount}
      /\ crossed \in BOOLEAN /\ broken \in BOOLEAN /\ ops \in 0..MaxOps
<1>1. details \in Seq(DetailRecords) => DOMAIN details = 1..Len(details)
  OBVIOUS
<1>. QED
  BY <1>1 DEF AccountTypeOK, FactsOf

LEMMA AccountTypesNext ==
    AccountTypeOK' <=>
      /\ platform' \in {"leetcode", "luogu", "lanqiao"}
      /\ judge' \in [Accounts -> 0..MaxSolved] /\ good' \subseteq Accounts
      /\ details' \in Seq(DetailRecords)
      /\ facts' \subseteq FactsOf(Len(details'))
      /\ binding' \subseteq SUBSET Problems /\ refresh' \subseteq {"refresh", "reset"}
      /\ req' \in [Binds -> {Idle} \cup BindRecords]
      /\ \A r \in Binds : req'[r] # Idle => req'[r].into <= Len(details')
      /\ sync' \in {Idle} \cup SyncRecords
      /\ sync' # Idle => sync'.id \in 1..Len(details')
      /\ sync' # Idle /\ sync'.pc = "write" => sync'.into <= Len(details')
      /\ handler' \in {Idle} \cup HandlerRecords
      /\ handler' # Idle => handler'.id \in 1..Len(details')
      /\ seen' \subseteq Problems /\ lost' \subseteq Problems
      /\ fails' \in 0..Threshold - 1
      /\ disabled' \in {"no", "failing", "invalid"}
      /\ bound' \in Accounts \cup {NoAccount}
      /\ crossed' \in BOOLEAN /\ broken' \in BOOLEAN /\ ops' \in 0..MaxOps
<1>1. details' \in Seq(DetailRecords) => DOMAIN details' = 1..Len(details')
  OBVIOUS
<1>. QED
  BY <1>1 DEF AccountTypeOK, FactsOf

LEMMA AccountInitIsTyped == AccountInit => AccountTypeOK
<1>. SUFFICES ASSUME AccountInit PROVE AccountTypeOK
  OBVIOUS
<1>1. details \in Seq(DetailRecords) /\ judge \in [Accounts -> 0..MaxSolved]
  BY OJAccountAssumption DEF AccountInit
<1>2. req \in [Binds -> {Idle} \cup BindRecords] /\ \A r \in Binds : req[r] = Idle
  BY DEF AccountInit
<1>3. fails \in 0..Threshold - 1 /\ ops \in 0..MaxOps
  BY OJAccountAssumption DEF AccountInit
<1>. QED
  BY <1>1, <1>2, <1>3, AccountTypes DEF AccountInit

\* What the judge tells are problems of the account.
LEMMA ToldAreProblems ==
    ASSUME AccountTypeOK, NEW a \in Accounts
    PROVE  /\ All(a) \subseteq Problems /\ Newest(a) \subseteq Problems /\ Told(a) \subseteq Problems
           /\ \A p \in All(a) : p[1] = a
           /\ \A p \in Newest(a) : p[1] = a
           /\ \A p \in Told(a) : p[1] = a
<1>1. judge[a] \in 0..MaxSolved /\ MaxSolved \in Nat
  BY AccountTypes, OJAccountAssumption
<1>2. All(a) \subseteq Problems /\ \A p \in All(a) : p[1] = a
  BY <1>1 DEF All, Problems
<1>. QED
  BY <1>2 DEF Newest, Told

LEMMA FactsAreTyped ==
    ASSUME NEW n \in Nat, NEW id \in 1..n, NEW problems \in SUBSET Problems
    PROVE  /\ Facts(id, problems) \subseteq FactsOf(n)
           /\ \A f \in Facts(id, problems) : f[1] = id /\ \E p \in problems : f[2] = p[1]
BY DEF Facts, FactsOf, Problems

\* A batch is stored whole or not at all.
LEMMA BatchIsFacts ==
    ASSUME NEW n \in Nat, facts \subseteq FactsOf(n), NEW id \in 1..n,
           NEW problems \in SUBSET Problems, NEW part \in SUBSET problems
    PROVE  /\ WithBatch(id, part) \subseteq facts \cup Facts(id, problems)
           /\ WithBatch(id, part) \subseteq FactsOf(n)
<1>1. Facts(id, part) \subseteq Facts(id, problems)
  BY DEF Facts
<1>. QED
  BY <1>1, FactsAreTyped DEF WithBatch

LEMMA RolledBackAreProblems ==
    ASSUME lost \subseteq Problems, NEW problems \in SUBSET Problems, RollsBack(problems)
    PROVE  lost' \subseteq Problems /\ Counted
BY DEF RollsBack

LEMMA FactsGrow ==
    ASSUME NEW n \in Nat, NEW m \in Nat, n <= m
    PROVE  FactsOf(n) \subseteq FactsOf(m)
BY DEF FactsOf

LEMMA AccountStepIsTyped ==
    ASSUME AccountTypeOK, AccountNext
    PROVE  AccountTypeOK'
<1>a. /\ platform \in {"leetcode", "luogu", "lanqiao"}
      /\ judge \in [Accounts -> 0..MaxSolved] /\ good \subseteq Accounts
      /\ details \in Seq(DetailRecords)
      /\ facts \subseteq FactsOf(Len(details))
      /\ binding \subseteq SUBSET Problems /\ refresh \subseteq {"refresh", "reset"}
      /\ req \in [Binds -> {Idle} \cup BindRecords]
      /\ \A r \in Binds : req[r] # Idle => req[r].into <= Len(details)
      /\ sync \in {Idle} \cup SyncRecords
      /\ sync # Idle => sync.id \in 1..Len(details)
      /\ sync # Idle /\ sync.pc = "write" => sync.into <= Len(details)
      /\ handler \in {Idle} \cup HandlerRecords
      /\ handler # Idle => handler.id \in 1..Len(details)
      /\ seen \subseteq Problems /\ lost \subseteq Problems
      /\ fails \in 0..Threshold - 1
      /\ disabled \in {"no", "failing", "invalid"}
      /\ bound \in Accounts \cup {NoAccount}
      /\ crossed \in BOOLEAN /\ broken \in BOOLEAN /\ ops \in 0..MaxOps
  BY AccountTypes
<1>b. /\ MaxSolved \in Nat /\ Threshold \in Nat \ {0} /\ MaxOps \in Nat /\ Len(details) \in Nat
  BY OJAccountAssumption, RowsAreNumbered
<1>c. Counted => ops' \in 0..MaxOps
  BY <1>a, <1>b DEF Counted
<1>. USE <1>a, <1>b, <1>c, AccountTypesNext DEF outside, tables, events, redis, switch, ghosts
<1>1. ASSUME NEW a \in Accounts, Solve(a)
      PROVE  AccountTypeOK'
  BY <1>1 DEF Solve
<1>2. ASSUME NEW a \in Accounts, Revoke(a)
      PROVE  AccountTypeOK'
  BY <1>2 DEF Revoke
\* A bind comes to its next step.
<1>3. ASSUME NEW r \in Binds, NEW x \in {Idle} \cup BindRecords, req' = [req EXCEPT ![r] = x],
             x # Idle => x.into <= Len(details'), Len(details') \in Nat, Len(details) <= Len(details')
      PROVE  /\ req' \in [Binds -> {Idle} \cup BindRecords]
             /\ \A s \in Binds : req'[s] # Idle => req'[s].into <= Len(details')
  <2>1. \A s \in Binds : req[s] # Idle => req[s].into \in Nat
    BY DEF BindRecords
  <2>. QED
    BY <1>3, <2>1
<1>4. ASSUME NEW r \in Binds, NEW a \in Accounts, BindBegins(r, a)
      PROVE  AccountTypeOK'
  <2>. DEFINE changes == Found # NoRow /\ details[Found].account # a
              again == CASE platform = "leetcode" -> Found = NoRow \/ changes
                         [] platform = "luogu"    -> TRUE
                         [] OTHER                 -> changes
              x == [pc |-> "ask", account |-> a, into |-> NoRow, total |-> 0, reset |-> again]
  <2>0. again \in BOOLEAN /\ req' = [req EXCEPT ![r] = x]
    BY <1>4 DEF BindBegins
  <2>. HIDE DEF again
  <2>1. req' = [req EXCEPT ![r] = x] /\ x \in BindRecords /\ x.into = 0
    BY <2>0 DEF BindRecords, NoRow
  <2>2. details' \in Seq(DetailRecords) /\ Len(details') = Len(details)
    BY <1>4, DeletedRows DEF BindBegins
  <2>. HIDE DEF x
  <2>3. /\ req' \in [Binds -> {Idle} \cup BindRecords]
        /\ \A s \in Binds : req'[s] # Idle => req'[s].into <= Len(details')
    BY <1>3, <2>1, <2>2
  <2>. QED
    BY <1>4, <2>2, <2>3 DEF BindBegins
<1>5. ASSUME NEW r \in Binds, BindPublishes(r)
      PROVE  AccountTypeOK'
  <2>. DEFINE x == [pc |-> "write", account |-> req[r].account, into |-> Found,
                    total |-> judge[req[r].account], reset |-> req[r].reset]
  <2>1. req[r] \in BindRecords
    BY <1>5 DEF BindPublishes
  <2>2. req[r].account \in Accounts /\ All(req[r].account) \in SUBSET Problems
    BY <2>1, ToldAreProblems DEF BindRecords
  <2>3. x \in BindRecords /\ x.into <= Len(details)
    BY <2>1, <2>2, FoundIsLive DEF BindRecords
  <2>4. req' = [req EXCEPT ![r] = x] /\ details' = details
    BY <1>5 DEF BindPublishes
  <2>. HIDE DEF x
  <2>5. /\ req' \in [Binds -> {Idle} \cup BindRecords]
        /\ \A s \in Binds : req'[s] # Idle => req'[s].into <= Len(details')
    BY <1>3, <2>3, <2>4
  <2>6. binding' \subseteq SUBSET Problems
    BY <1>5, <2>2 DEF BindPublishes
  <2>. QED
    BY <1>5, <2>5, <2>6 DEF BindPublishes
<1>6. ASSUME NEW due \in BOOLEAN, NEW kind \in {"refresh", "reset"}, Announces(due, kind)
      PROVE  refresh' \subseteq {"refresh", "reset"}
  BY <1>6 DEF Announces
<1>7. ASSUME NEW r \in Binds, req' = [req EXCEPT ![r] = Idle],
             Len(details') \in Nat, Len(details) <= Len(details')
      PROVE  /\ req' \in [Binds -> {Idle} \cup BindRecords]
             /\ \A s \in Binds : req'[s] # Idle => req'[s].into <= Len(details')
  BY <1>3, <1>7
<1>8. ASSUME NEW table \in Seq(DetailRecords), Len(table) = Len(details),
             NEW into \in Nat, into <= Len(details), NEW a \in Accounts, NEW n \in 0..MaxSolved,
             details' = Put(table, into, a, n)
      PROVE  /\ details' \in Seq(DetailRecords) /\ Len(details') \in Nat
             /\ Len(details) <= Len(details')
             /\ PutInto(into) \in 1..Len(details')
  BY <1>8, PutGrows
\* Facts of a row that is there.
<1>9. ASSUME Len(details') \in Nat, Len(details) <= Len(details'), NEW id \in 1..Len(details'),
             NEW problems \in SUBSET Problems
      PROVE  facts \cup Facts(id, problems) \subseteq FactsOf(Len(details'))
  BY <1>9, FactsAreTyped, FactsGrow
<1>10. ASSUME Len(details') \in Nat, Len(details) <= Len(details')
       PROVE  /\ facts \subseteq FactsOf(Len(details'))
              /\ \A r \in Binds : req[r] # Idle => req[r].into <= Len(details')
              /\ sync # Idle => sync.id \in 1..Len(details')
              /\ sync # Idle /\ sync.pc = "write" => sync.into <= Len(details')
              /\ handler # Idle => handler.id \in 1..Len(details')
  <2>1. \A r \in Binds : req[r] # Idle => req[r].into \in Nat
    BY DEF BindRecords
  <2>2. sync # Idle => sync.id \in Nat
    OBVIOUS
  <2>3. sync # Idle /\ sync.pc = "write" => sync.into \in Nat
    BY DEF SyncRecords
  <2>. QED
    BY <1>10, <2>1, <2>2, <2>3, FactsGrow
<1>11. ASSUME NEW r \in Binds, BindWrites(r)
       PROVE  AccountTypeOK'
  <2>1. req[r] \in BindRecords /\ req[r].into <= Len(details)
    BY <1>11 DEF BindWrites
  <2>2. /\ req[r].account \in Accounts /\ req[r].into \in Nat /\ req[r].total \in 0..MaxSolved
        /\ Kind(r) \in {"refresh", "reset"}
    BY <2>1 DEF BindRecords, Kind
  <2>3. /\ details' \in Seq(DetailRecords) /\ Len(details') \in Nat
        /\ Len(details) <= Len(details')
    BY <1>8, <1>11, <2>1, <2>2 DEF BindWrites
  <2>4. refresh' \subseteq {"refresh", "reset"} /\ req' = [req EXCEPT ![r] = Idle]
    BY <1>6, <1>11, <2>2 DEF BindWrites, Came
  <2>5. bound' \in Accounts
    BY <1>11, <2>2 DEF BindWrites, Came
  <2>. QED
    BY <1>7, <1>10, <1>11, <2>3, <2>4, <2>5 DEF BindWrites
<1>12. ASSUME NEW r \in Binds, BindStores(r)
       PROVE  AccountTypeOK'
  <2>. DEFINE a == req[r].account
              table == IF req[r].reset THEN Deleted ELSE details
              into == IF req[r].reset THEN NoRow ELSE Found
              x == [req[r] EXCEPT !.pc = "clear"]
  <2>1. req[r] \in BindRecords /\ req[r].into <= Len(details) /\ req[r].into \in Nat
    BY <1>12 DEF BindStores, BindRecords
  <2>2. a \in Accounts /\ All(a) \in SUBSET Problems
    BY <2>1, ToldAreProblems DEF BindRecords
  <2>3. /\ table \in Seq(DetailRecords) /\ Len(table) = Len(details)
        /\ into \in Nat /\ into <= Len(details)
    BY DeletedRows, FoundIsLive DEF NoRow
  <2>4. x \in BindRecords /\ x.into <= Len(details)
    BY <2>1 DEF BindRecords
  <2>5. /\ details' = Put(table, into, a, 0) /\ bound' = a
        /\ facts' = facts \cup Facts(PutInto(into), All(a))
        /\ req' = [req EXCEPT ![r] = x]
    BY <1>12 DEF BindStores
  <2>. HIDE DEF a, table, into, x
  <2>6. /\ details' \in Seq(DetailRecords) /\ Len(details') \in Nat
        /\ Len(details) <= Len(details') /\ PutInto(into) \in 1..Len(details')
    BY <1>8, <2>2, <2>3, <2>5
  <2>7. facts' \subseteq FactsOf(Len(details'))
    BY <1>9, <2>2, <2>5, <2>6
  <2>8. x.into <= Len(details')
    <3>1. x.into \in Nat
      BY <2>4 DEF BindRecords
    <3>. QED
      BY <2>4, <2>6, <3>1
  <2>9. /\ req' \in [Binds -> {Idle} \cup BindRecords]
        /\ \A s \in Binds : req'[s] # Idle => req'[s].into <= Len(details')
    BY <1>3, <2>4, <2>5, <2>6, <2>8
  <2>. QED
    BY <1>10, <1>12, <2>2, <2>5, <2>6, <2>7, <2>9 DEF BindStores
<1>13. ASSUME NEW r \in Binds, BindClears(r)
       PROVE  AccountTypeOK'
  <2>1. req[r] \in BindRecords
    BY <1>13 DEF BindClears
  <2>2. req[r].account \in Accounts /\ Kind(r) \in {"refresh", "reset"}
    BY <2>1 DEF BindRecords, Kind
  <2>3. refresh' \subseteq {"refresh", "reset"} /\ req' = [req EXCEPT ![r] = Idle]
    BY <1>6, <1>13, <2>2 DEF BindClears, Came
  <2>4. bound' \in Accounts
    BY <1>13, <2>2 DEF BindClears, Came
  <2>5. fails' \in 0..Threshold - 1
    BY <1>13 DEF BindClears
  <2>. QED
    BY <1>7, <1>13, <2>3, <2>4, <2>5 DEF BindClears
<1>14. ASSUME NEW r \in Binds, BindFails(r)
       PROVE  AccountTypeOK'
  BY <1>7, <1>14 DEF BindFails
<1>15. ASSUME NEW e \in binding, HandlerReads(e)
       PROVE  AccountTypeOK'
  <2>1. Found \in 1..Len(details) /\ details[Found].account \in Accounts
    BY <1>15, FoundIsLive, RowsAreNumbered DEF HandlerReads, DetailRecords
  <2>2. handler' \in HandlerRecords /\ handler'.id = Found
    BY <1>15, <2>1, ToldAreProblems DEF HandlerReads, HandlerRecords
  <2>. QED
    BY <1>15, <2>1, <2>2 DEF HandlerReads
<1>16. ASSUME NEW e \in binding, HandlerMisses(e)
       PROVE  AccountTypeOK'
  BY <1>16 DEF HandlerMisses
<1>17. CASE HandlerStores
  <2>1. handler.id \in 1..Len(details) /\ handler.problems \in SUBSET Problems
    BY <1>17 DEF HandlerStores, HandlerRecords
  <2>2. facts' \subseteq FactsOf(Len(details))
    BY <1>17, <2>1, BatchIsFacts DEF HandlerStores
  <2>3. refresh' \subseteq {"refresh", "reset"}
    BY <1>6, <1>17 DEF HandlerStores
  <2>. QED
    BY <1>17, <2>2, <2>3 DEF HandlerStores
<1>18. CASE HandlerFails
  <2>1. handler.problems \in SUBSET Problems
    BY <1>18 DEF HandlerFails, HandlerRecords
  <2>. QED
    BY <1>18, <2>1, RolledBackAreProblems DEF HandlerFails
<1>19. ASSUME NEW id \in DOMAIN details, NEW job \in {"start", "counts"}, SyncLists(id, job)
       PROVE  AccountTypeOK'
  <2>1. id \in 1..Len(details) /\ details[id] \in DetailRecords
    BY RowsAreNumbered
  <2>2. sync' \in SyncRecords /\ sync'.id = id /\ sync'.pc # "write"
    BY <1>19, <2>1 DEF SyncLists, SyncRecords, DetailRecords
  <2>. QED
    BY <1>19, <2>1, <2>2 DEF SyncLists
<1>20. CASE SyncSkips
  BY <1>20 DEF SyncSkips
<1>21. sync # Idle => /\ sync.id \in 1..Len(details) /\ sync.account \in Accounts
                      /\ sync.passed \in 0..MaxSolved
                      /\ sync.pc = "write" => /\ sync.total \in 0..MaxSolved /\ sync.new \in BOOLEAN
                                              /\ sync.into \in Nat
                      /\ sync.pc = "store" => sync.fresh \in SUBSET Problems
  BY DEF SyncRecords
<1>s. ASSUME NEW id \in 1..Len(details), NEW problems \in SUBSET Problems, id = sync.id,
             Stores(problems)
      PROVE  /\ facts' \subseteq FactsOf(Len(details)) /\ crossed' \in BOOLEAN
             /\ lost' \subseteq Problems /\ ops' \in 0..MaxOps
  <2>1. \A part \in SUBSET problems : WithBatch(sync.id, part) \subseteq FactsOf(Len(details))
    BY <1>s, BatchIsFacts
  <2>2. crossed' \in BOOLEAN
    BY <1>s DEF Stores
  <2>3. RollsBack(problems) => lost' \subseteq Problems /\ ops' \in 0..MaxOps
    BY RolledBackAreProblems
  <2>. QED
    BY <1>s, <2>1, <2>2, <2>3 DEF Stores
<1>22. CASE SyncReads
  <2>1. /\ sync.id \in 1..Len(details) /\ sync.account \in Accounts
        /\ sync.passed \in 0..MaxSolved
    BY <1>21, <1>22 DEF SyncReads
  <2>2. judge[sync.account] \in 0..MaxSolved /\ Told(sync.account) \in SUBSET Problems
    BY <2>1, ToldAreProblems
  <2>3. /\ facts' \subseteq FactsOf(Len(details)) /\ crossed' \in BOOLEAN
        /\ lost' \subseteq Problems /\ ops' \in 0..MaxOps
    BY <1>22, <1>s, <2>1, <2>2 DEF SyncReads
  <2>4. Found \in Nat /\ Found <= Len(details)
    BY FoundIsLive
  <2>5. sync' \in SyncRecords /\ sync'.id = sync.id /\ sync'.into = Found
    BY <1>22, <2>1, <2>2, <2>4 DEF SyncReads, SyncRecords
  <2>. QED
    BY <1>22, <2>1, <2>3, <2>4, <2>5 DEF SyncReads
<1>23. CASE SyncWrites
  <2>1. /\ sync.id \in 1..Len(details) /\ sync.account \in Accounts
        /\ sync.total \in 0..MaxSolved /\ sync.into \in Nat /\ sync.into <= Len(details)
    BY <1>21, <1>23 DEF SyncWrites
  <2>2. /\ details' \in Seq(DetailRecords) /\ Len(details') \in Nat
        /\ Len(details) <= Len(details')
    BY <1>8, <1>23, <2>1 DEF SyncWrites, Written
  <2>3. refresh' \subseteq {"refresh", "reset"} /\ ops' \in 0..MaxOps /\ crossed' \in BOOLEAN
    BY <1>23 DEF SyncWrites, Announces
  <2>4. \/ sync' = Idle
        \/ sync' \in SyncRecords /\ sync'.pc = "solved" /\ sync'.id = sync.id
    <3>1. Changed \in BOOLEAN
      BY DEF Changed
    <3>2. sync.passed \in 0..MaxSolved /\ sync.id \in Nat
      BY <1>21, <1>23, <2>1 DEF SyncWrites
    <3>. HIDE DEF Changed
    <3>. QED
      BY <1>23, <2>1, <3>1, <3>2 DEF SyncWrites, SyncRecords
  <2>. QED
    BY <1>10, <1>23, <2>2, <2>3, <2>4 DEF SyncWrites
<1>34. CASE SyncSolved
  <2>1. sync.id \in 1..Len(details) /\ sync.account \in Accounts
    BY <1>21, <1>34 DEF SyncSolved
  <2>2. Told(sync.account) \in SUBSET Problems
    BY <2>1, ToldAreProblems
  <2>3. /\ facts' \subseteq FactsOf(Len(details)) /\ crossed' \in BOOLEAN
        /\ lost' \subseteq Problems /\ ops' \in 0..MaxOps
    BY <1>34, <1>s, <2>1, <2>2 DEF SyncSolved
  <2>4. refresh' \subseteq {"refresh", "reset"}
    BY <1>34 DEF SyncSolved, Announces
  <2>. QED
    BY <1>34, <2>3, <2>4 DEF SyncSolved
<1>24. CASE SyncMarks
  <2>1. /\ sync.id \in 1..Len(details) /\ sync.account \in Accounts
        /\ sync.passed \in 0..MaxSolved
    BY <1>21, <1>24 DEF SyncMarks
  <2>2. Told(sync.account) \in SUBSET Problems
    BY <2>1, ToldAreProblems
  <2>3. sync' \in SyncRecords /\ sync'.id = sync.id /\ sync'.pc = "store"
    BY <1>24, <2>1, <2>2 DEF SyncMarks, SyncRecords
  <2>. QED
    BY <1>24, <2>1, <2>2, <2>3 DEF SyncMarks
\* A transaction writes the row that it finds.
<1>25. ASSUME sync # Idle, details' = Put(details, Found, sync.account, 0)
       PROVE  /\ details' \in Seq(DetailRecords) /\ Len(details') \in Nat
              /\ Len(details) <= Len(details')
  BY <1>8, <1>21, <1>25, FoundIsLive
<1>26. CASE SyncStores
  <2>1. /\ details' \in Seq(DetailRecords) /\ Len(details') \in Nat
        /\ Len(details) <= Len(details')
    BY <1>25, <1>26 DEF SyncStores
  <2>2. sync.id \in 1..Len(details') /\ sync.fresh \in SUBSET Problems
    BY <1>10, <1>21, <1>26, <2>1 DEF SyncStores
  <2>3. /\ facts' \subseteq FactsOf(Len(details')) /\ crossed' \in BOOLEAN
        /\ lost' \subseteq Problems /\ ops' \in 0..MaxOps
    BY <1>s, <1>10, <1>21, <1>26, <2>1, FactsGrow DEF SyncStores
  <2>4. refresh' \subseteq {"refresh", "reset"} /\ fails' \in 0..Threshold - 1
    <3>1. 0 \in 0..Threshold - 1
      OBVIOUS
    <3>. QED
      BY <1>26, <3>1 DEF SyncStores, Announces
  <2>. QED
    BY <1>10, <1>26, <2>1, <2>3, <2>4 DEF SyncStores
<1>27. CASE CountsRefreshed
  <2>1. /\ details' \in Seq(DetailRecords) /\ Len(details') \in Nat
        /\ Len(details) <= Len(details')
    BY <1>25, <1>27 DEF CountsRefreshed
  <2>2. facts' \subseteq FactsOf(Len(details')) /\ fails' \in 0..Threshold - 1
    BY <1>10, <1>27, <2>1 DEF CountsRefreshed
  <2>. QED
    BY <1>10, <1>27, <2>1, <2>2 DEF CountsRefreshed
<1>28. FailsOnce => fails' \in 0..Threshold - 1 /\ disabled' \in {"no", "failing", "invalid"}
  BY DEF FailsOnce
<1>29. CASE SyncFails
  BY <1>28, <1>29 DEF SyncFails
<1>30. CASE SyncClashes
  BY <1>28, <1>30 DEF SyncClashes
<1>31. CASE SyncRefused
  <2>1. fails' \in 0..Threshold - 1
    BY <1>31 DEF SyncRefused
  <2>. QED
    BY <1>31, <2>1 DEF SyncRefused
<1>32. CASE SeenExpires
  BY <1>32 DEF SeenExpires
<1>33. CASE SwitchExpires
  <2>1. fails' \in 0..Threshold - 1
    BY <1>33 DEF SwitchExpires
  <2>. QED
    BY <1>33, <2>1 DEF SwitchExpires
<1>. QED
  BY <1>1, <1>2, <1>4, <1>5, <1>11, <1>12, <1>13, <1>14, <1>15, <1>16, <1>17, <1>18, <1>19,
     <1>20, <1>22, <1>23, <1>24, <1>26, <1>27, <1>29, <1>30, <1>31, <1>32, <1>33, <1>34
     DEF AccountNext, SyncStep

-----------------------------------------------------------------------------
(* The row.                                                                    *)

\* The rows stay, each with its account and its mark.
RowsKept == /\ DOMAIN details' = DOMAIN details
            /\ \A i \in DOMAIN details : /\ details'[i].live = details[i].live
                                        /\ details'[i].account = details[i].account

\* A fact that comes is one of a row that is there.
NewFactsAreTheirs ==
    \A f \in facts' \ facts : f[1] \in DOMAIN details /\ f[2] = details[f[1]].account

LEMMA UnchangedRowsAreKept == details' = details => RowsKept
BY DEF RowsKept

LEMMA KeptRowsFit ==
    ASSUME AccountTypeOK, RowFits, RowsKept, UNCHANGED <<platform, bound, req>>,
           NewFactsAreTheirs
    PROVE  RowFits' /\ Live' = Live /\ Found' = Found
<1>1. Live' = Live
  BY DEF Live, RowsKept
<1>2. Found' = Found
  BY <1>1 DEF Found
<1>3. \A i \in Live : details'[i].account = details[i].account
  BY DEF Live, RowsKept
<1>4. \A f \in facts : f[1] \in DOMAIN details
  BY DEF AccountTypeOK
<1>5. FactsAreTheirs'
  BY <1>4 DEF FactsAreTheirs, RowFits, RowsKept, NewFactsAreTheirs
<1>. QED
  BY <1>1, <1>2, <1>3, <1>5
     DEF RowFits, OneBind, OneLive, LiveIsBound, BindFits, WriteFits, ClearFits

\* A synchronisation writes the row that it was about to write, or has just read.
LEMMA KeptSyncFits ==
    ASSUME AccountTypeOK, AccountTypeOK', OneLive, SyncFits, RowsKept,
           sync' = sync \/ sync' = Idle \/ sync'.pc # "write" \/ sync'.into = Found
    PROVE  SyncFits'
<1>. SUFFICES ASSUME sync' # Idle, sync'.pc = "write", Current'
              PROVE  sync'.into = sync'.id
  BY DEF SyncFits
<1>1. sync'.id \in DOMAIN details
  BY DEF AccountTypeOK, RowsKept
<1>2. CASE sync' = sync
  BY <1>1, <1>2 DEF SyncFits, Current, RowsKept
<1>3. CASE sync'.into = Found
  <2>1. sync'.id \in Live
    BY <1>1 DEF Current, RowsKept, Live
  <2>. QED
    BY <1>3, <2>1, OnlyOneIsFound
<1>. QED
  BY <1>2, <1>3

\* Only one row is left, and it is that of the bind.
LEMMA PutRowFits ==
    ASSUME AccountTypeOK, AccountTypeOK', FactsAreTheirs, SyncFits, sync' = sync,
           Len(details) <= Len(details'),
           NEW id \in 1..Len(details'), NEW a \in Accounts,
           details'[id].live, details'[id].account = a,
           \A i \in 1..Len(details') : i # id => ~details'[i].live,
           id \in 1..Len(details) => details[id].live /\ details[id].account = a,
           \A f \in facts' \ facts : f[1] = id /\ f[2] = a,
           bound' = a
    PROVE  (OneLive /\ LiveIsBound /\ FactsAreTheirs /\ SyncFits)'
<1>1. DOMAIN details = 1..Len(details) /\ DOMAIN details' = 1..Len(details')
  BY DEF AccountTypeOK
<1>2. Live' = {id}
  BY <1>1 DEF Live
<1>3. \A f \in facts : f[1] \in 1..Len(details)
  BY <1>1 DEF AccountTypeOK
<1>4. \A i \in 1..Len(details) : i \in 1..Len(details')
  BY DEF AccountTypeOK
<1>5. FactsAreTheirs'
  BY <1>3, <1>4 DEF FactsAreTheirs
<1>6. SyncFits'
  <2>. SUFFICES ASSUME sync # Idle, sync.pc = "write", Current'
                PROVE  sync.into = sync.id
    BY DEF SyncFits
  <2>1. sync.id \in 1..Len(details)
    BY <1>1 DEF AccountTypeOK
  <2>2. sync.id = id
    BY <1>4, <2>1 DEF Current
  <2>3. Current
    BY <2>1, <2>2 DEF Current
  <2>. QED
    BY <2>3 DEF SyncFits
<1>. QED
  BY <1>2, <1>5, <1>6 DEF OneLive, LiveIsBound

LEMMA PutInPlaceKeepsRows ==
    ASSUME AccountTypeOK, NEW id \in DOMAIN details, NEW a \in Accounts, NEW n \in 0..MaxSolved,
           details[id].live, details[id].account = a, details' = Put(details, id, a, n)
    PROVE  RowsKept
<1>1. id \in 1..Len(details) /\ Len(details) \in Nat /\ details \in Seq(DetailRecords)
  BY RowsAreNumbered DEF AccountTypeOK
<1>2. id \in Nat /\ id # NoRow /\ id <= Len(details)
  BY <1>1 DEF NoRow
<1>3. Put(details, id, a, n) = [details EXCEPT ![id] = [account |-> a, passed |-> n, live |-> TRUE]]
  BY <1>2 DEF Put
<1>4. \A i \in DOMAIN details : details[i] \in DetailRecords
  BY <1>1
<1>5. details[id].live = TRUE
  BY <1>4 DEF DetailRecords
<1>6. details' = [details EXCEPT ![id] = [account |-> a, passed |-> n, live |-> TRUE]]
  BY <1>3
<1>7. DOMAIN details' = DOMAIN details
  BY <1>6
<1>8. details'[id].live = TRUE /\ details'[id].account = a
  BY <1>6
<1>9. \A i \in DOMAIN details : i # id => details'[i] = details[i]
  BY <1>6
<1>. QED
  BY <1>5, <1>7, <1>8, <1>9 DEF RowsKept

LEMMA NewFactsFit ==
    ASSUME NEW id \in DOMAIN details, NEW problems \in SUBSET Problems,
           \A p \in problems : p[1] = details[id].account,
           facts' \subseteq facts \cup Facts(id, problems)
    PROVE  NewFactsAreTheirs
<1>1. ASSUME NEW f \in Facts(id, problems)
      PROVE  f[1] = id /\ f[2] = details[id].account
  <2>1. PICK p \in problems : f = <<id, p[1], p[2]>>
    BY <1>1 DEF Facts
  <2>. QED
    BY <2>1
<1>. QED
  BY <1>1 DEF NewFactsAreTheirs

\* The platform is what it was; only lanqiao's failures set the switch.
LEMMA SwitchStaysLanqiaos ==
    ASSUME SwitchIsLanqiaos, AccountNext
    PROVE  SwitchIsLanqiaos' /\ platform' = platform
<1>1. platform' = platform /\ (disabled' = disabled \/ disabled' = "no" \/ platform = "lanqiao")
  BY DEF AccountNext, Solve, Revoke, BindBegins, BindPublishes, BindWrites, BindStores, BindClears,
         BindFails, HandlerReads, HandlerMisses, HandlerStores, HandlerFails, SyncLists, SyncStep,
         SyncSkips, SyncReads, SyncWrites, SyncSolved, SyncMarks, SyncStores, CountsRefreshed,
         FailsOnce, SyncFails, SyncClashes, SyncRefused, SeenExpires, SwitchExpires, outside,
         redis, switch
<1>. QED
  BY <1>1 DEF SwitchIsLanqiaos

\* What a synchronisation takes up are problems of the account it asks for.
LEMMA FreshStaysFit ==
    ASSUME AccountTypeOK, FreshFits, AccountNext
    PROVE  FreshFits'
<1>1. CASE SyncMarks
  <2>1. sync.account \in Accounts
    BY <1>1 DEF SyncMarks, AccountTypeOK, SyncRecords
  <2>2. \A p \in Told(sync.account) : p[1] = sync.account
    BY <2>1, ToldAreProblems
  <2>3. sync'.account = sync.account /\ sync'.fresh \subseteq Told(sync.account)
    BY <1>1 DEF SyncMarks
  <2>. QED
    BY <2>2, <2>3 DEF FreshFits
<1>2. ASSUME NEW id \in DOMAIN details, NEW job \in {"start", "counts"}, SyncLists(id, job)
      PROVE  sync'.pc # "store"
  BY <1>2 DEF SyncLists
<1>3. CASE SyncReads
  BY <1>3 DEF SyncReads, FreshFits
<1>6. SyncWrites => sync' = Idle \/ sync'.pc # "store"
  BY DEF SyncWrites
<1>4. SyncSkips \/ SyncSolved \/ SyncStores \/ CountsRefreshed \/ SyncFails \/ SyncClashes
      \/ SyncRefused => sync' = Idle
  BY DEF SyncSkips, SyncSolved, SyncStores, CountsRefreshed, SyncFails, SyncClashes, SyncRefused
<1>5. ~SyncMarks /\ ~SyncReads /\ ~SyncWrites => \/ sync' = sync \/ sync' = Idle
                                \/ \E id \in DOMAIN details, job \in {"start", "counts"} : SyncLists(id, job)
  BY <1>4 DEF AccountNext, Solve, Revoke, BindBegins, BindPublishes, BindWrites, BindStores,
         BindClears, BindFails, HandlerReads, HandlerMisses, HandlerStores, HandlerFails,
         SyncStep, SeenExpires, SwitchExpires
<1>. QED
  BY <1>1, <1>2, <1>3, <1>5, <1>6 DEF FreshFits

\* Nobody takes back that a stale row was written.
LEMMA CrossedStays == AccountTypeOK /\ AccountNext => (crossed => crossed')
<1>. SUFFICES ASSUME AccountTypeOK, AccountNext, crossed PROVE crossed'
  OBVIOUS
<1>. QED
  BY DEF AccountNext, Solve, Revoke, BindBegins, BindPublishes, BindWrites, BindStores,
         BindClears, BindFails, HandlerReads, HandlerMisses, HandlerStores, HandlerFails, SyncLists,
         SyncStep, SyncSkips, SyncReads, Stores, SyncWrites, SyncSolved, SyncMarks, SyncStores, CountsRefreshed,
         SyncFails, SyncClashes, SyncRefused, SeenExpires, SwitchExpires, ghosts

\* The judge, the handler of the event, keys that expire.
LEMMA OthersFit ==
    ASSUME AccountTypeOK, AccountTypeOK', WhatFits, ~crossed',
           \/ \E a \in Accounts : Solve(a) \/ Revoke(a)
           \/ \E e \in binding : HandlerReads(e) \/ HandlerMisses(e)
           \/ HandlerStores \/ HandlerFails \/ SeenExpires \/ SwitchExpires
    PROVE  WhatFits'
<1>1. /\ details' = details /\ UNCHANGED <<platform, bound, req, sync, broken>>
      /\ good' \subseteq good /\ (disabled' = disabled \/ disabled' = "no")
      /\ HandlerStores \/ facts' = facts
  BY DEF Solve, Revoke, HandlerReads, HandlerMisses, HandlerStores, HandlerFails, SeenExpires,
         SwitchExpires, outside, tables, redis, switch, ghosts
<1>2. RowsKept
  BY <1>1, UnchangedRowsAreKept
<1>3. NewFactsAreTheirs
  <2>1. CASE HandlerStores
    <3>1. handler # Idle
      BY <2>1 DEF HandlerStores
    <3>2. handler.id \in DOMAIN details /\ handler.problems \in SUBSET Problems
      BY <3>1 DEF AccountTypeOK, HandlerRecords
    <3>3. \A p \in handler.problems : p[1] = details[handler.id].account
      BY <2>1 DEF HandlerStores, Fits
    <3>. QED
      BY <2>1, <3>2, <3>3, NewFactsFit DEF HandlerStores, WithBatch
  <2>. QED
    BY <1>1, <2>1 DEF NewFactsAreTheirs
<1>4. RowFits' /\ SyncFits'
  BY <1>1, <1>2, <1>3, KeptRowsFit, KeptSyncFits DEF WhatFits, RowFits
<1>5. SwitchFits'
  BY <1>1 DEF WhatFits, SwitchFits
<1>. QED
  BY <1>4, <1>5 DEF WhatFits

LEMMA SyncStepFits ==
    ASSUME AccountTypeOK, AccountTypeOK', WhatFits, FreshFits, ~crossed, ~crossed',
           \/ \E id \in DOMAIN details, job \in {"start", "counts"} : SyncLists(id, job)
           \/ SyncStep \/ SyncFails
    PROVE  WhatFits'
<1>0. sync # Idle => /\ sync.id \in DOMAIN details /\ sync.account \in Accounts
                     /\ sync.pc = "write" => sync.total \in 0..MaxSolved
                     /\ sync.pc = "store" => sync.fresh \in SUBSET Problems
                     /\ Told(sync.account) \in SUBSET Problems
                     /\ \A p \in Told(sync.account) : p[1] = sync.account
  <2>1. sync # Idle => sync \in SyncRecords /\ sync.id \in DOMAIN details
    BY DEF AccountTypeOK
  <2>2. sync # Idle => /\ sync.account \in Accounts
                       /\ sync.pc = "write" => sync.total \in 0..MaxSolved
                       /\ sync.pc = "store" => sync.fresh \in SUBSET Problems
    BY <2>1 DEF SyncRecords
  <2>. QED
    BY <2>1, <2>2, ToldAreProblems
<1>1. UNCHANGED <<platform, bound, req, broken, good>>
  BY DEF SyncLists, SyncStep, SyncSkips, SyncReads, SyncWrites, SyncSolved, SyncMarks, SyncStores,
         CountsRefreshed, SyncFails, SyncClashes, SyncRefused, outside, ghosts
\* A synchronisation that writes does so by the row that he has listed.
<1>2. ASSUME sync # Idle, Current, NEW n \in 0..MaxSolved,
             details' = Put(details, sync.id, sync.account, n)
      PROVE  RowsKept
  BY <1>0, <1>2, PutInPlaceKeepsRows DEF Current
<1>3. ASSUME sync # Idle, Current, NEW problems \in SUBSET Problems,
             \A p \in problems : p[1] = sync.account, Stores(problems)
      PROVE  NewFactsAreTheirs
  <2>1. \A part \in SUBSET problems : WithBatch(sync.id, part) \subseteq facts \cup Facts(sync.id, problems)
    BY DEF WithBatch, Facts
  <2>2. facts' \subseteq facts \cup Facts(sync.id, problems)
    BY <1>3, <2>1 DEF Stores
  <2>. QED
    BY <1>0, <1>3, <2>2, NewFactsFit DEF Current
<1>4. ASSUME sync # Idle, Current
      PROVE  Found = sync.id
  <2>1. sync.id \in Live
    BY <1>0, <1>4 DEF Current, Live
  <2>. QED
    BY <2>1, OnlyOneIsFound DEF WhatFits, RowFits
<1>5. facts' = facts => NewFactsAreTheirs
  BY DEF NewFactsAreTheirs
<1>6. ASSUME RowsKept, disabled' # "invalid" \/ disabled' = disabled,
             NewFactsAreTheirs,
             sync' = Idle \/ sync'.pc # "write" \/ sync'.into = Found
      PROVE  WhatFits'
  <2>1. RowFits' /\ SyncFits'
    BY <1>1, <1>6, KeptRowsFit, KeptSyncFits DEF WhatFits, RowFits
  <2>2. SwitchFits'
    BY <1>1, <1>6 DEF WhatFits, SwitchFits
  <2>. QED
    BY <2>1, <2>2 DEF WhatFits
<1>7. CASE \E id \in DOMAIN details, job \in {"start", "counts"} : SyncLists(id, job)
  <2>1. details' = details /\ facts' = facts /\ disabled' = disabled /\ sync'.pc # "write"
    BY <1>7 DEF SyncLists, tables, redis, switch
  <2>. QED
    BY <1>5, <1>6, <2>1, UnchangedRowsAreKept
<1>8. CASE SyncSkips
  <2>1. details' = details /\ facts' = facts /\ disabled' = disabled /\ sync' = Idle
    BY <1>8 DEF SyncSkips, tables, redis, switch
  <2>. QED
    BY <1>5, <1>6, <2>1, UnchangedRowsAreKept
<1>9. CASE SyncReads
  <2>1. details' = details /\ disabled' = disabled /\ sync'.into = Found /\ sync # Idle
    BY <1>9 DEF SyncReads, switch
  <2>2. NewFactsAreTheirs
    <3>1. CASE platform = "luogu"
      <4>1. Stores(Told(sync.account)) /\ Current
        BY <1>9, <3>1 DEF SyncReads, Stores
      <4>. QED
        BY <1>0, <1>3, <2>1, <4>1
    <3>2. CASE platform # "luogu"
      BY <1>5, <1>9, <3>2 DEF SyncReads
    <3>. QED
      BY <3>1, <3>2
  <2>. QED
    BY <1>6, <2>1, <2>2, UnchangedRowsAreKept
<1>10. CASE SyncWrites
  <2>1. /\ disabled' = disabled /\ sync # Idle /\ sync.pc = "write" /\ Current
        /\ facts' = facts
    BY <1>10 DEF SyncWrites, redis, switch
  <2>4. sync' = Idle \/ sync'.pc # "write"
    BY <1>10 DEF SyncWrites
  <2>2. sync.into = sync.id
    BY <2>1 DEF WhatFits, SyncFits
  <2>3. RowsKept
    BY <1>0, <1>2, <1>10, <2>1, <2>2, UnchangedRowsAreKept DEF SyncWrites, Written
  <2>. QED
    BY <1>5, <1>6, <2>1, <2>3, <2>4
<1>18. CASE SyncSolved
  <2>1. /\ details' = details /\ disabled' = disabled /\ sync' = Idle /\ sync # Idle
        /\ Current /\ Stores(Told(sync.account))
    BY <1>18 DEF SyncSolved, Stores, switch
  <2>2. NewFactsAreTheirs
    BY <1>0, <1>3, <2>1
  <2>. QED
    BY <1>6, <2>1, <2>2, UnchangedRowsAreKept
<1>11. CASE SyncMarks
  <2>1. details' = details /\ facts' = facts /\ disabled' = disabled /\ sync'.pc # "write"
    BY <1>11 DEF SyncMarks, tables, switch
  <2>. QED
    BY <1>5, <1>6, <2>1, UnchangedRowsAreKept
<1>12. 0 \in 0..MaxSolved
  BY OJAccountAssumption
<1>13. CASE SyncStores
  <2>1. disabled' = disabled /\ sync' = Idle /\ sync # Idle /\ sync.pc = "store" /\ Current
    BY <1>13 DEF SyncStores, Stores
  <2>2. RowsKept
    BY <1>2, <1>4, <1>12, <1>13, <2>1 DEF SyncStores
  <2>3. \A p \in sync.fresh : p[1] = sync.account
    BY <2>1 DEF FreshFits
  <2>4. NewFactsAreTheirs
    BY <1>0, <1>3, <1>13, <2>1, <2>3 DEF SyncStores
  <2>. QED
    BY <1>6, <2>1, <2>2, <2>4
<1>14. CASE CountsRefreshed
  <2>1. /\ disabled' = disabled /\ sync' = Idle /\ sync # Idle /\ Current /\ facts' = facts
        /\ details' = Put(details, Found, sync.account, 0)
    BY <1>14 DEF CountsRefreshed
  <2>2. RowsKept
    BY <1>2, <1>4, <1>12, <2>1
  <2>. QED
    BY <1>5, <1>6, <2>1, <2>2
<1>15. CASE SyncFails
  <2>1. /\ details' = details /\ facts' = facts /\ sync' = Idle
        /\ disabled' = disabled \/ disabled' = "failing"
    BY <1>15 DEF SyncFails, FailsOnce, tables
  <2>. QED
    BY <1>5, <1>6, <2>1, UnchangedRowsAreKept
<1>16. ~SyncClashes
  BY DEF SyncClashes
<1>17. CASE SyncRefused
  <2>1. /\ details' = details /\ facts' = facts /\ sync' = Idle /\ sync # Idle /\ Current
        /\ sync.account \notin good
    BY <1>17 DEF SyncRefused, tables
  <2>2. bound = sync.account
    <3>1. sync.id \in Live
      BY <1>0, <2>1 DEF Current, Live
    <3>. QED
      BY <2>1, <3>1 DEF Current, WhatFits, RowFits, LiveIsBound
  <2>3. RowFits' /\ SyncFits'
    BY <1>1, <1>5, <2>1, UnchangedRowsAreKept, KeptRowsFit, KeptSyncFits DEF WhatFits, RowFits
  <2>4. SwitchFits'
    BY <1>1, <2>1, <2>2 DEF SwitchFits
  <2>. QED
    BY <2>3, <2>4 DEF WhatFits
<1>. QED
  BY <1>7, <1>8, <1>9, <1>10, <1>11, <1>13, <1>14, <1>15, <1>16, <1>17, <1>18 DEF SyncStep

\* While nobody else binds, what the requests are about to do is what this one is.
LEMMA OneRequestFits ==
    ASSUME req \in [Binds -> {Idle} \cup BindRecords], NEW r \in Binds,
           \A s \in Binds : s # r => req[s] = Idle, NEW x, req' = [req EXCEPT ![r] = x]
    PROVE  /\ OneBind'
           /\ req'[r] = x
           /\ \A s \in Binds : s # r => req'[s] = Idle
           /\ \A s \in Binds : req'[s].pc \in {"ask", "write", "clear"} => s = r
<1>1. req'[r] = x /\ \A s \in Binds : s # r => req'[s] = Idle
  OBVIOUS
<1>. QED
  BY <1>1 DEF OneBind, Idle

\* Nothing but the request and what it says of itself has changed.
LEMMA RequestFits ==
    ASSUME AccountTypeOK, WhatFits, NEW r \in Binds, \A s \in Binds : s # r => req[s] = Idle,
           NEW x, req' = [req EXCEPT ![r] = x],
           UNCHANGED <<details, facts, bound, sync>>
    PROVE  (OneBind /\ OneLive /\ LiveIsBound /\ FactsAreTheirs /\ SyncFits)'
           /\ Live' = Live /\ Found' = Found
<1>1. OneBind'
  BY OneRequestFits DEF AccountTypeOK
<1>2. Live' = Live
  BY DEF Live
<1>3. Found' = Found
  BY <1>2 DEF Found
<1>4. SyncFits'
  BY DEF WhatFits, SyncFits, Current
<1>. QED
  BY <1>1, <1>2, <1>3, <1>4 DEF WhatFits, RowFits, OneLive, LiveIsBound, FactsAreTheirs

LEMMA BindBeginsFits ==
    ASSUME AccountTypeOK, AccountTypeOK', WhatFits, ~crossed',
           NEW r \in Binds, NEW a \in Accounts, BindBegins(r, a)
    PROVE  WhatFits'
<1>. DEFINE changes == Found # NoRow /\ details[Found].account # a
            again == CASE platform = "leetcode" -> Found = NoRow \/ changes
                       [] platform = "luogu"    -> TRUE
                       [] OTHER                 -> changes
            x == [pc |-> "ask", account |-> a, into |-> NoRow, total |-> 0, reset |-> again]
<1>1. /\ req[r] = Idle /\ req' = [req EXCEPT ![r] = x]
      /\ UNCHANGED <<platform, bound, sync, broken, disabled, good, facts>>
      /\ details' = IF changes /\ platform # "lanqiao" THEN Deleted ELSE details
  BY DEF BindBegins, outside, redis, switch
<1>2. \A s \in Binds : s # r => req[s] = Idle
  BY DEF BindBegins, Others
<1>3. /\ OneBind' /\ req'[r] = x
      /\ \A s \in Binds : req'[s].pc \in {"ask", "write", "clear"} => s = r
  BY <1>1, <1>2, OneRequestFits DEF AccountTypeOK
<1>4. x.pc = "ask" /\ x.account = a /\ x.reset = again
  OBVIOUS
<1>5. SwitchFits'
  <2>1. \A s \in Binds : req[s].pc # "clear"
    BY <1>1, <1>2 DEF Idle
  <2>. QED
    BY <1>1, <2>1 DEF WhatFits, SwitchFits
<1>6. WriteFits' /\ ClearFits'
  BY <1>3, <1>4 DEF WriteFits, ClearFits
<1>7. CASE changes /\ platform # "lanqiao"
  <2>1. details' = Deleted /\ DOMAIN details' = 1..Len(details)
    BY <1>1, <1>7, DeletedRows
  <2>2. \A i \in DOMAIN details' : details'[i].live = FALSE
    BY <2>1, DeletedRows
  <2>3. Live' = {}
    BY <2>2 DEF Live
  <2>4. SyncFits'
    <3>1. sync' # Idle => sync'.id \in DOMAIN details'
      BY DEF AccountTypeOK
    <3>. QED
      BY <2>2, <3>1 DEF SyncFits, Current
  <2>5. FactsAreTheirs'
    <3>1. \A f \in facts' : f[1] \in DOMAIN details'
      BY DEF AccountTypeOK
    <3>. QED
      BY <2>2, <3>1 DEF FactsAreTheirs
  <2>. QED
    BY <1>3, <1>5, <1>6, <2>3, <2>4, <2>5
       DEF WhatFits, RowFits, OneLive, LiveIsBound, BindFits
<1>8. CASE ~(changes /\ platform # "lanqiao")
  <2>1. details' = details
    BY <1>1, <1>8
  <2>. HIDE DEF x
  <2>2. /\ (OneBind /\ OneLive /\ LiveIsBound /\ FactsAreTheirs /\ SyncFits)'
        /\ Live' = Live
    BY <1>1, <1>2, <2>1, RequestFits
  <2>3. BindFits'
    <3>1. SUFFICES ASSUME platform # "lanqiao" \/ ~again, NEW i \in Live
                   PROVE  details[i].account = a
      BY <1>1, <1>3, <1>4, <2>1, <2>2 DEF BindFits
    <3>2. ~changes
      BY <1>8, <3>1 DEF AccountTypeOK
    <3>3. Found = i /\ Found # NoRow
      BY OnlyOneIsFound, RowsAreNumbered DEF WhatFits, RowFits, NoRow
    <3>. QED
      BY <3>2, <3>3
  <2>. QED
    BY <1>5, <1>6, <2>2, <2>3 DEF WhatFits, RowFits
<1>. QED
  BY <1>7, <1>8

LEMMA BindPublishesFits ==
    ASSUME AccountTypeOK, AccountTypeOK', WhatFits, NEW r \in Binds, BindPublishes(r)
    PROVE  WhatFits'
<1>. DEFINE x == [pc |-> "write", account |-> req[r].account, into |-> Found,
                  total |-> judge[req[r].account], reset |-> req[r].reset]
<1>1. /\ req[r] # Idle /\ req[r].pc = "ask" /\ platform # "lanqiao"
      /\ req' = [req EXCEPT ![r] = x]
      /\ UNCHANGED <<platform, details, facts, bound, sync, broken, disabled, good>>
  BY DEF BindPublishes, outside, redis, switch, ghosts, tables
<1>2. \A s \in Binds : s # r => req[s] = Idle
  BY <1>1 DEF WhatFits, RowFits, OneBind
<1>3. x.pc = "write" /\ x.account = req[r].account /\ x.into = Found
  OBVIOUS
<1>. HIDE DEF x
<1>4. /\ req'[r] = x
      /\ \A s \in Binds : req'[s].pc \in {"ask", "write", "clear"} => s = r
  BY <1>1, <1>2, OneRequestFits DEF AccountTypeOK
<1>5. /\ (OneBind /\ OneLive /\ LiveIsBound /\ FactsAreTheirs /\ SyncFits)'
      /\ Live' = Live /\ Found' = Found
  BY <1>1, <1>2, RequestFits
<1>6. SwitchFits'
  <2>1. \A s \in Binds : req[s].pc # "clear"
    BY <1>1, <1>2 DEF Idle
  <2>. QED
    BY <1>1, <2>1 DEF WhatFits, SwitchFits
<1>7. BindFits'
  <2>1. \A i \in Live : details[i].account = req[r].account
    BY <1>1 DEF WhatFits, RowFits, BindFits
  <2>. QED
    BY <1>1, <1>3, <1>4, <1>5, <2>1 DEF BindFits
<1>8. WriteFits' /\ ClearFits'
  BY <1>1, <1>3, <1>4, <1>5 DEF WriteFits, ClearFits
<1>. QED
  BY <1>5, <1>6, <1>7, <1>8 DEF WhatFits, RowFits

\* A row is put: the one that is there, or a new one when none is.
LEMMA PutFits ==
    ASSUME AccountTypeOK, AccountTypeOK', WhatFits, NEW a \in Accounts, NEW n \in 0..MaxSolved,
           NEW table \in Seq(DetailRecords), Len(table) = Len(details),
           NEW into \in Nat, into <= Len(details), details' = Put(table, into, a, n),
           \/ into = NoRow /\ \A i \in 1..Len(details) : table[i].live = FALSE
           \/ table = details /\ into \in Live /\ details[into].account = a,
           sync' = sync, bound' = a,
           \A f \in facts' \ facts : f[1] = PutInto(into) /\ f[2] = a
    PROVE  (OneLive /\ LiveIsBound /\ FactsAreTheirs /\ SyncFits)'
<1>1. /\ Len(details) <= Len(details') /\ PutInto(into) \in 1..Len(details')
      /\ Len(details') \in Nat /\ Len(details) \in Nat
  BY PutGrows
<1>2. /\ Len(details') = IF into = NoRow THEN Len(details) + 1 ELSE Len(details)
      /\ details'[PutInto(into)] = [account |-> a, passed |-> n, live |-> TRUE]
      /\ \A i \in 1..Len(details) : i # into => details'[i] = table[i]
  <2>1. into <= Len(table)
    OBVIOUS
  <2>. QED
    BY <2>1, PutRows DEF PutInto
<1>3. details'[PutInto(into)].live = TRUE /\ details'[PutInto(into)].account = a
  BY <1>2
<1>. DEFINE id == PutInto(into)
<1>4. CASE into = NoRow /\ \A i \in 1..Len(details) : table[i].live = FALSE
  <2>1. id = Len(details) + 1 /\ Len(details') = Len(details) + 1
    BY <1>2, <1>4 DEF PutInto
  <2>2. \A i \in 1..Len(details) : i # into
    BY <1>4 DEF NoRow
  <2>3. \A i \in 1..Len(details) : details'[i].live = FALSE
    BY <1>2, <1>4, <2>2
  <2>4. \A i \in 1..Len(details') : i # id => i \in 1..Len(details)
    BY <1>1, <2>1
  <2>5. id \notin 1..Len(details)
    BY <1>1, <2>1
  <2>. HIDE DEF id
  <2>. QED
    BY <1>1, <1>3, <2>3, <2>4, <2>5, PutRowFits DEF id, WhatFits, RowFits
<1>5. CASE table = details /\ into \in Live /\ details[into].account = a
  <2>1. into \in 1..Len(details) /\ into # NoRow
    BY <1>5, RowsAreNumbered DEF NoRow
  <2>2. id = into /\ Len(details') = Len(details)
    BY <1>2, <2>1 DEF PutInto
  <2>3. \A i \in 1..Len(details) : i # into => details[i].live = FALSE
    <3>. SUFFICES ASSUME NEW i \in 1..Len(details), i # into
                  PROVE  details[i].live = FALSE
      OBVIOUS
    <3>1. details[i].live \in BOOLEAN
      BY RowsAreNumbered DEF DetailRecords
    <3>2. i \notin Live
      BY <1>5 DEF WhatFits, RowFits, OneLive
    <3>3. ~details[i].live
      BY <3>2, RowsAreNumbered DEF Live
    <3>. QED
      BY <3>1, <3>3
  <2>4. \A i \in 1..Len(details') : i # id => details'[i].live = FALSE
    BY <1>2, <1>5, <2>2, <2>3
  <2>5. details[id].live /\ details[id].account = a
    BY <1>5, <2>2 DEF Live
  <2>. HIDE DEF id
  <2>. QED
    BY <1>1, <1>3, <2>4, <2>5, PutRowFits DEF id, WhatFits, RowFits
<1>. QED
  BY <1>4, <1>5

LEMMA BindWritesFits ==
    ASSUME AccountTypeOK, AccountTypeOK', WhatFits, SwitchIsLanqiaos, NEW r \in Binds, BindWrites(r)
    PROVE  WhatFits'
<1>1. /\ req[r] # Idle /\ req[r].pc = "write"
      /\ req' = [req EXCEPT ![r] = Idle] /\ bound' = req[r].account
      /\ details' = Put(details, req[r].into, req[r].account, req[r].total)
      /\ UNCHANGED <<platform, facts, sync, broken, disabled, good>>
  BY DEF BindWrites, Came, outside, redis, switch
<1>2. /\ req[r].account \in Accounts /\ req[r].into \in Nat /\ req[r].into <= Len(details)
      /\ req[r].total \in 0..MaxSolved /\ details \in Seq(DetailRecords)
  <2>1. req[r] \in BindRecords /\ req[r].into <= Len(details) /\ details \in Seq(DetailRecords)
    BY <1>1 DEF AccountTypeOK
  <2>. QED
    BY <2>1 DEF BindRecords
<1>3. platform # "lanqiao" /\ req[r].into = Found
  BY <1>1 DEF WhatFits, RowFits, WriteFits
<1>4. \/ /\ req[r].into = NoRow
         /\ \A i \in 1..Len(details) : details[i].live = FALSE
      \/ req[r].into \in Live /\ details[req[r].into].account = req[r].account
  <2>1. CASE Live = {}
    <3>1. \A i \in 1..Len(details) : details[i].live \in BOOLEAN
      BY RowsAreNumbered DEF DetailRecords
    <3>2. \A i \in 1..Len(details) : ~details[i].live
      BY <2>1, RowsAreNumbered DEF Live
    <3>. QED
      BY <1>3, <2>1, <3>1, <3>2, FoundIsLive
  <2>2. CASE Live # {}
    <3>1. Found \in Live
      BY <2>2, FoundIsLive
    <3>2. details[Found].account = req[r].account
      BY <1>1, <1>3, <3>1 DEF WhatFits, RowFits, BindFits
    <3>. QED
      BY <1>3, <3>1, <3>2
  <2>. QED
    BY <2>1, <2>2
<1>5. (OneLive /\ LiveIsBound /\ FactsAreTheirs /\ SyncFits)'
  BY <1>1, <1>2, <1>4, PutFits
<1>6. \A s \in Binds : s # r => req[s] = Idle
  BY <1>1 DEF WhatFits, RowFits, OneBind
<1>7. /\ OneBind' /\ req'[r] = Idle
      /\ \A s \in Binds : req'[s].pc \notin {"ask", "write", "clear"}
  BY <1>1, <1>6, OneRequestFits DEF AccountTypeOK, Idle
<1>8. BindFits' /\ WriteFits' /\ ClearFits'
  BY <1>7 DEF BindFits, WriteFits, ClearFits
<1>9. SwitchFits'
  BY <1>1, <1>3 DEF SwitchFits, SwitchIsLanqiaos
<1>. QED
  BY <1>5, <1>7, <1>8, <1>9 DEF WhatFits, RowFits

LEMMA BindStoresFits ==
    ASSUME AccountTypeOK, AccountTypeOK', WhatFits, NEW r \in Binds, BindStores(r)
    PROVE  WhatFits'
<1>. DEFINE a == req[r].account
            table == IF req[r].reset THEN Deleted ELSE details
            into == IF req[r].reset THEN NoRow ELSE Found
            x == [req[r] EXCEPT !.pc = "clear"]
<1>1. /\ req[r] # Idle /\ req[r].pc = "ask" /\ platform = "lanqiao"
      /\ req' = [req EXCEPT ![r] = x] /\ bound' = a
      /\ details' = Put(table, into, a, 0)
      /\ facts' = facts \cup Facts(PutInto(into), All(a))
      /\ UNCHANGED <<platform, sync, broken, disabled, good>>
  BY DEF BindStores, outside, redis, switch
<1>2. a \in Accounts /\ req[r] \in BindRecords /\ req[r].reset \in BOOLEAN
  <2>1. req[r] \in BindRecords
    BY <1>1 DEF AccountTypeOK
  <2>. QED
    BY <2>1 DEF BindRecords
<1>3. x.pc = "clear" /\ x.account = a
  BY <1>2 DEF BindRecords
<1>4. /\ table \in Seq(DetailRecords) /\ Len(table) = Len(details)
      /\ into \in Nat /\ into <= Len(details)
  <2>1. details \in Seq(DetailRecords) /\ Len(details) \in Nat
    BY RowsAreNumbered DEF AccountTypeOK
  <2>. QED
    BY <2>1, DeletedRows, FoundIsLive DEF NoRow
<1>5. \/ into = NoRow /\ \A i \in 1..Len(details) : table[i].live = FALSE
      \/ table = details /\ into \in Live /\ details[into].account = a
  <2>1. CASE req[r].reset
    BY <2>1, DeletedRows
  <2>2. CASE ~req[r].reset /\ Live = {}
    <3>1. \A i \in 1..Len(details) : details[i].live \in BOOLEAN
      BY RowsAreNumbered DEF DetailRecords
    <3>2. \A i \in 1..Len(details) : ~details[i].live
      BY <2>2, RowsAreNumbered DEF Live
    <3>3. into = NoRow /\ table = details
      BY <2>2, FoundIsLive
    <3>. QED
      BY <3>1, <3>2, <3>3
  <2>3. CASE ~req[r].reset /\ Live # {}
    <3>1. Found \in Live
      BY <2>3, FoundIsLive
    <3>2. details[Found].account = a
      BY <1>1, <2>3, <3>1 DEF WhatFits, RowFits, BindFits
    <3>. QED
      BY <2>3, <3>1, <3>2
  <2>. QED
    BY <2>1, <2>2, <2>3
<1>6. \A f \in facts' \ facts : f[1] = PutInto(into) /\ f[2] = a
  <2>1. ASSUME NEW f \in Facts(PutInto(into), All(a))
        PROVE  f[1] = PutInto(into) /\ f[2] = a
    <3>1. PICK p \in All(a) : f = <<PutInto(into), p[1], p[2]>>
      BY <2>1 DEF Facts
    <3>2. p[1] = a
      BY <1>2, ToldAreProblems
    <3>. QED
      BY <3>1, <3>2
  <2>. QED
    BY <1>1, <2>1
<1>. HIDE DEF a, table, into, x
<1>7. 0 \in 0..MaxSolved
  BY OJAccountAssumption
<1>8. (OneLive /\ LiveIsBound /\ FactsAreTheirs /\ SyncFits)'
  BY <1>1, <1>2, <1>4, <1>5, <1>6, <1>7, PutFits
<1>9. \A s \in Binds : s # r => req[s] = Idle
  BY <1>1 DEF WhatFits, RowFits, OneBind
<1>10. /\ OneBind' /\ req'[r] = x
       /\ \A s \in Binds : req'[s].pc \in {"ask", "write", "clear"} => s = r
  BY <1>1, <1>9, OneRequestFits DEF AccountTypeOK
<1>11. BindFits' /\ WriteFits' /\ ClearFits' /\ SwitchFits'
  BY <1>1, <1>3, <1>10 DEF BindFits, WriteFits, ClearFits, SwitchFits
<1>. QED
  BY <1>8, <1>10, <1>11 DEF WhatFits, RowFits

\* The last step of a bind, or its end before that.
LEMMA BindEndsFits ==
    ASSUME AccountTypeOK, AccountTypeOK', WhatFits, NEW r \in Binds, BindClears(r) \/ BindFails(r)
    PROVE  WhatFits'
<1>1. /\ req[r] # Idle /\ req' = [req EXCEPT ![r] = Idle]
      /\ UNCHANGED <<platform, details, facts, sync, good>>
  BY DEF BindClears, BindFails, Came, outside, tables
<1>2. bound' = bound
  <2>1. CASE BindClears(r)
    BY <2>1 DEF BindClears, Came, WhatFits, RowFits, ClearFits
  <2>2. CASE BindFails(r)
    BY <2>2 DEF BindFails
  <2>. QED
    BY <2>1, <2>2
<1>3. \A s \in Binds : s # r => req[s] = Idle
  BY <1>1 DEF WhatFits, RowFits, OneBind
<1>4. /\ req'[r] = Idle
      /\ \A s \in Binds : req'[s].pc \notin {"ask", "write", "clear"}
  BY <1>1, <1>3, OneRequestFits DEF AccountTypeOK, Idle
<1>5. (OneBind /\ OneLive /\ LiveIsBound /\ FactsAreTheirs /\ SyncFits)'
  BY <1>1, <1>2, <1>3, RequestFits
<1>6. BindFits' /\ WriteFits' /\ ClearFits'
  BY <1>4 DEF BindFits, WriteFits, ClearFits
<1>7. SwitchFits'
  <2>1. CASE BindClears(r)
    BY <2>1 DEF BindClears, SwitchFits
  <2>2. CASE BindFails(r) /\ req[r].pc = "clear"
    BY <2>2 DEF BindFails, SwitchFits
  <2>3. CASE BindFails(r) /\ req[r].pc # "clear"
    <3>1. \A s \in Binds : req[s].pc # "clear"
      BY <1>3, <2>3 DEF Idle
    <3>2. broken => broken'
      BY <2>3 DEF BindFails
    <3>. QED
      BY <1>1, <1>2, <2>3, <3>1, <3>2 DEF BindFails, redis, switch, WhatFits, SwitchFits
  <2>. QED
    BY <2>1, <2>2, <2>3
<1>. QED
  BY <1>5, <1>6, <1>7 DEF WhatFits, RowFits

-----------------------------------------------------------------------------
(* The invariant of the account with its statistics.                           *)

LEMMA AccountStartsFit == AccountInit => AccountIInv
<1>. SUFFICES ASSUME AccountInit PROVE AccountIInv
  OBVIOUS
<1>1. AccountTypeOK
  BY AccountInitIsTyped
<1>2. Live = {} /\ facts = {} /\ sync = Idle /\ disabled = "no" /\ \A r \in Binds : req[r] = Idle
  BY DEF AccountInit, Live
<1>3. RowFits
  BY <1>2 DEF RowFits, OneBind, OneLive, LiveIsBound, FactsAreTheirs, BindFits, WriteFits,
              ClearFits, Idle
<1>4. SyncFits /\ SwitchFits /\ FreshFits /\ SwitchIsLanqiaos
  BY <1>2 DEF SyncFits, SwitchFits, FreshFits, SwitchIsLanqiaos
<1>. QED
  BY <1>1, <1>3, <1>4 DEF AccountIInv, WhatFits

LEMMA AccountStepFits ==
    ASSUME AccountIInv, AccountNext
    PROVE  AccountIInv'
<1>1. AccountTypeOK /\ AccountTypeOK'
  BY AccountStepIsTyped DEF AccountIInv
<1>2. SwitchIsLanqiaos' /\ FreshFits'
  BY <1>1, SwitchStaysLanqiaos, FreshStaysFit DEF AccountIInv
<1>3. ASSUME ~crossed'
      PROVE  WhatFits'
  <2>1. ~crossed
    BY <1>1, <1>3, CrossedStays
  <2>2. WhatFits /\ SwitchIsLanqiaos /\ FreshFits
    BY <2>1 DEF AccountIInv
  <2>3. ASSUME NEW r \in Binds, \E a \in Accounts : BindBegins(r, a)
        PROVE  WhatFits'
    BY <1>1, <1>3, <2>2, <2>3, BindBeginsFits
  <2>4. ASSUME NEW r \in Binds, BindPublishes(r)
        PROVE  WhatFits'
    BY <1>1, <2>2, <2>4, BindPublishesFits
  <2>5. ASSUME NEW r \in Binds, BindWrites(r)
        PROVE  WhatFits'
    BY <1>1, <2>2, <2>5, BindWritesFits
  <2>6. ASSUME NEW r \in Binds, BindStores(r)
        PROVE  WhatFits'
    BY <1>1, <2>2, <2>6, BindStoresFits
  <2>7. ASSUME NEW r \in Binds, BindClears(r) \/ BindFails(r)
        PROVE  WhatFits'
    BY <1>1, <2>2, <2>7, BindEndsFits
  <2>8. ASSUME \/ \E id \in DOMAIN details, job \in {"start", "counts"} : SyncLists(id, job)
               \/ SyncStep \/ SyncFails
        PROVE  WhatFits'
    BY <1>1, <1>3, <2>1, <2>2, <2>8, SyncStepFits
  <2>9. ASSUME \/ \E a \in Accounts : Solve(a) \/ Revoke(a)
               \/ \E e \in binding : HandlerReads(e) \/ HandlerMisses(e)
               \/ HandlerStores \/ HandlerFails \/ SeenExpires \/ SwitchExpires
        PROVE  WhatFits'
    BY <1>1, <1>3, <2>2, <2>9, OthersFit
  <2>. QED
    BY <2>3, <2>4, <2>5, <2>6, <2>7, <2>8, <2>9 DEF AccountNext
<1>. QED
  BY <1>1, <1>2, <1>3 DEF AccountIInv

\* A rebuild of the statistics reads the account; at most it takes an event away.
LEMMA RebuildsLeaveTheAccount ==
    ASSUME AccountIInv,
           /\ UNCHANGED <<outside, tables, binding, req, sync, handler, redis, ghosts>>
           /\ refresh' \subseteq refresh /\ ops' \in 0..MaxOps
    PROVE  AccountIInv'
<1>1. /\ UNCHANGED <<platform, judge, good, details, facts, binding, req, sync, handler>>
      /\ UNCHANGED <<seen, lost, fails, disabled, bound, crossed, broken>>
  BY DEF outside, tables, redis, switch, ghosts
<1>2. AccountTypeOK'
  <2>1. AccountTypeOK
    BY DEF AccountIInv
  <2>2. refresh' \subseteq {"refresh", "reset"}
    BY <2>1 DEF AccountTypeOK
  <2>. QED
    BY <1>1, <2>1, <2>2, AccountTypes, AccountTypesNext
<1>3. Live' = Live
  BY <1>1 DEF Live
<1>4. Found' = Found
  BY <1>3 DEF Found
<1>5. SwitchIsLanqiaos' = SwitchIsLanqiaos /\ FreshFits' = FreshFits
  BY <1>1 DEF SwitchIsLanqiaos, FreshFits
<1>6. RowFits' = RowFits
  BY <1>1, <1>3, <1>4 DEF RowFits, OneBind, OneLive, LiveIsBound, FactsAreTheirs, BindFits,
                          WriteFits, ClearFits
<1>7. SyncFits' = SyncFits /\ SwitchFits' = SwitchFits
  BY <1>1 DEF SyncFits, SwitchFits, Current
<1>. QED
  BY <1>1, <1>2, <1>5, <1>6, <1>7 DEF AccountIInv, WhatFits

LEMMA StatsStepFits ==
    ASSUME AccountIInv, [StatsNext]_statsVars
    PROVE  AccountIInv'
<1>1. ops \in 0..MaxOps /\ MaxOps \in Nat
  BY OJAccountAssumption DEF AccountIInv, AccountTypeOK
<1>2. CASE AccountNext
  BY <1>2, AccountStepFits
<1>3. ASSUME NEW kind \in refresh, RebuildTakes(kind)
      PROVE  AccountIInv'
  BY <1>1, <1>3, RebuildsLeaveTheAccount DEF RebuildTakes
<1>4. ASSUME NEW kind \in refresh, RebuildFails(kind)
      PROVE  AccountIInv'
  BY <1>1, <1>4, RebuildsLeaveTheAccount DEF RebuildFails, Counted
<1>5. UNCHANGED accountVars => AccountIInv'
  BY <1>1, RebuildsLeaveTheAccount DEF accountVars, events
<1>6. RebuildBegins \/ (\E n \in Totals : RebuildWrites(n)) => UNCHANGED accountVars
  BY DEF RebuildBegins, RebuildWrites
<1>7. UNCHANGED statsVars => UNCHANGED accountVars
  BY DEF statsVars
<1>. QED
  BY <1>2, <1>3, <1>4, <1>5, <1>6, <1>7 DEF StatsNext

LEMMA AccountInvariant == StatsSpec => []AccountIInv
<1>1. StatsInit => AccountIInv
  BY AccountStartsFit DEF StatsInit
<1>2. AccountIInv /\ [StatsNext]_statsVars => AccountIInv'
  BY StatsStepFits
<1>. QED
  BY <1>1, <1>2, PTL DEF StatsSpec

\* Whatever binds, syncs and handlers do and in whatever order: every step finds
\* and leaves a row where it looks for one (ojSvc.go, ojLanqiaoSvc.go).
THEOREM AccountIsTyped == StatsSpec => []AccountTypeOK
<1>1. AccountIInv => AccountTypeOK
  BY DEF AccountIInv
<1>. QED
  BY <1>1, AccountInvariant, PTL

\* While nobody has written by a row that changed after he read it: there is one
\* row, that of the last bind, with the problems and the switch of its account.
THEOREM RowStaysTheirs == StatsSpec => []RowIsTheirs
<1>1. ASSUME AccountIInv
      PROVE  RowIsTheirs
  <2>. SUFFICES ASSUME ~crossed
                PROVE  /\ Cardinality(Live) <= 1
                       /\ \A i \in Live : details[i].account = bound
                       /\ \A f \in facts : details[f[1]].live => f[2] = details[f[1]].account
                       /\ SwitchIsTheirs
    BY DEF RowIsTheirs
  <2>1. RowFits /\ SwitchFits
    BY <1>1 DEF AccountIInv, WhatFits
  <2>2. Cardinality(Live) <= 1
    <3>1. CASE Live = {}
      <4>1. Cardinality(Live) = 0
        BY <3>1, FS_EmptySet
      <4>. QED
        BY <4>1
    <3>2. ASSUME NEW i \in Live
          PROVE  Cardinality(Live) <= 1
      <4>1. Live = {i}
        BY <2>1 DEF RowFits, OneLive
      <4>2. Cardinality(Live) = 1
        BY <4>1, FS_Singleton
      <4>. QED
        BY <4>2
    <3>. QED
      BY <3>1, <3>2
  <2>3. SwitchIsTheirs
    <3>1. (\A r \in Binds : req[r] = Idle) => \A r \in Binds : req[r].pc # "clear"
      BY DEF Idle
    <3>. QED
      BY <2>1, <3>1 DEF SwitchIsTheirs, SwitchFits
  <2>. QED
    BY <2>1, <2>2, <2>3 DEF RowFits, LiveIsBound, FactsAreTheirs
<1>. QED
  BY <1>1, AccountInvariant, PTL
=============================================================================
