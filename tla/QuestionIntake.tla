--------------------------- MODULE QuestionIntake ---------------------------
(* The question bank of one platform and what the OJ tasks take from it: the  *)
(* syncs that add solved problems to the bank, the cache of their ids, the    *)
(* upsert events, the requests that turn titles into task items, the event    *)
(* handler that resolves items still waiting for their question, and the      *)
(* check before a task is executed.  The life of a task beyond that is the    *)
(* subject of OJTask.                                                         *)
(*   internal/service/system/ojSvc.go, ojTaskSvc.go, ojTask_resolution.go,    *)
(*   ojTask_preflight.go, ojTask_question_upsert.go                           *)
(*   internal/repository/system/luoguQuestionBankRepo.go, ojTaskRepo.go       *)
(* A transaction works on the snapshot of its first read (REPEATABLE READ)    *)
(* and becomes visible at its commit, so each is two actions.                 *)
EXTENDS Naturals, FiniteSets

CONSTANTS Titles, Questions,
          TitleOf,       \* the title of each question
          Tasks, Syncs, Handlers,
          None,
          MaxItems,      \* bound: items ever created
          MaxIntakeFaults  \* bound: transactions that fail

\* A row of oj_task_items and one of oj_question_intakes, but for their ids.
Row == [task : Tasks, title : Titles, q : Questions \cup {None},
        state : {"pending", "resolved", "invalid"}]

IntakeRow == [state : {"pending", "resolved", "invalid"}, q : Questions \cup {None}]

ASSUME IntakeAssumption ==
    /\ TitleOf \in [Questions -> Titles]
    /\ IsFiniteSet(Questions) /\ IsFiniteSet(Titles)
    /\ None \notin Questions \cup Titles \cup Row \cup IntakeRow
    /\ {MaxItems, MaxIntakeFaults} \subseteq Nat

VARIABLES bank,     \* the questions of the table, all of them verified
          cache,    \* the Redis hash of question ids: no entry, a row's id, or one rolled back
          filling,  \* goroutines of BatchCreate that have not written the hash yet
          events,   \* upsert events not handled yet, by title
          sync,     \* the syncs: the problems about to be inserted
          status,   \* of the tasks
          item, intake,   \* oj_task_items and oj_question_intakes, by item id
          tx,       \* the transaction of a task: what it is about to write
          handler,  \* the handlers: the title, its question, the items they read
          fresh,    \* the next item id
          intakeFaults,
          written,  \* history: the items of each task's last draft
          crossed,  \* history: tasks edited while a handler was about to write their items
          late      \* history: items written as pending when their question was there

bankVars == <<bank, cache, filling, events, sync>>
taskVars == <<status, item, intake, tx, fresh>>
history == <<written, crossed, late>>
intakeVars == <<bankVars, taskVars, handler, intakeFaults, history>>

-----------------------------------------------------------------------------
ItemIds == 1 .. MaxItems

IntakeTypeOK ==
    /\ bank \subseteq Questions
    /\ cache \in [Questions -> {"none", "row", "gone"}]
    /\ filling \subseteq Questions \X {"row", "gone"}
    /\ events \in [Titles -> Nat]
    /\ sync \in [Syncs -> SUBSET Questions]
    /\ status \in [Tasks -> {"none", "scheduled", "executing", "executed", "failed"}]
    /\ item \in [ItemIds -> Row \cup {None}]
    /\ intake \in [ItemIds -> IntakeRow \cup {None}]
    /\ tx \in [Tasks -> [op : {"none", "create", "update", "preflight"},
                         rows : SUBSET ((0 .. MaxItems) \X Row)]]
    /\ handler \in [Handlers -> [title : Titles \cup {None}, q : Questions \cup {None},
                                 rows : SUBSET (ItemIds \X Row)]]
    /\ fresh \in 1 .. MaxItems + 1
    /\ intakeFaults \in 0 .. MaxIntakeFaults
    /\ written \in [Tasks -> SUBSET ItemIds]
    /\ crossed \subseteq Tasks /\ late \subseteq ItemIds

NoTx == [op |-> "none", rows |-> {}]
Waiting == [title |-> None, q |-> None, rows |-> {}]

IntakeInit ==
    /\ bank = {} /\ filling = {} /\ crossed = {} /\ late = {}
    /\ cache = [q \in Questions |-> "none"]
    /\ events = [t \in Titles |-> 0]
    /\ sync = [s \in Syncs |-> {}]
    /\ status = [k \in Tasks |-> "none"]
    /\ item = [i \in ItemIds |-> None] /\ intake = [i \in ItemIds |-> None]
    /\ tx = [k \in Tasks |-> NoTx] /\ written = [k \in Tasks |-> {}]
    /\ handler = [h \in Handlers |-> Waiting]
    /\ fresh = 1 /\ intakeFaults = 0

IntakeFault == intakeFaults < MaxIntakeFaults /\ intakeFaults' = intakeFaults + 1

\* What a transaction has read or is about to write: rows with their ids (0: a new row).
IdsIn(rows) == {p[1] : p \in rows}
RowIn(rows, i) == (CHOOSE p \in rows : p[1] = i)[2]

ItemsOf(k) == {i \in ItemIds : item[i] # None /\ item[i].task = k}

\* findVerifiedTitleCandidates, in the bank a transaction sees.
Candidates(b, t) == {q \in b : TitleOf[q] = t}

TheQuestion(b, t) == CHOOSE q \in Candidates(b, t) : TRUE

-----------------------------------------------------------------------------
(* upsertLuoguProblems: what a user has solved is looked up in the cache and  *)
(* in the table; the rest is inserted in one transaction with an event each.  *)

ReadProblems(s) ==
    /\ sync[s] = {}
    /\ \E solved \in SUBSET Questions \ {{}} :
          LET unknown == {q \in solved : cache[q] = "none"} IN
            /\ sync' = [sync EXCEPT ![s] = unknown \ bank]
            /\ cache' = [q \in Questions |-> IF q \in unknown \cap bank THEN "row"
                                                                        ELSE cache[q]]
    /\ UNCHANGED <<bank, filling, events, taskVars, handler, intakeFaults, history>>

\* BatchCreate skips the rows that are there by now and starts a goroutine that
\* caches the ids of the others, before the transaction has committed.
InsertProblems(s) ==
    /\ sync[s] # {}
    /\ bank' = bank \cup sync[s]
    /\ filling' = filling \cup ((sync[s] \ bank) \X {"row"})
    /\ events' = [t \in Titles |-> events[t] + Cardinality(Candidates(sync[s], t))]
    /\ sync' = [sync EXCEPT ![s] = {}]
    /\ UNCHANGED <<cache, taskVars, handler, intakeFaults, history>>

\* An event or the commit fails: the rows are rolled back, the goroutine runs on.
InsertError(s) ==
    /\ sync[s] # {} /\ IntakeFault
    /\ filling' = filling \cup ((sync[s] \ bank) \X {"gone"})
    /\ sync' = [sync EXCEPT ![s] = {}]
    /\ UNCHANGED <<bank, cache, events, taskVars, handler, history>>

FillCache == \E f \in filling :
    /\ cache' = [cache EXCEPT ![f[1]] = f[2]]
    /\ filling' = filling \ {f}
    /\ UNCHANGED <<bank, events, sync, taskVars, handler, intakeFaults, history>>

-----------------------------------------------------------------------------
(* Titles become items: materializeDraftTx.  A draft names titles, each with  *)
(* the question of an analysis token or without one.                          *)

Drafts == {d \in SUBSET (Titles \X (bank \cup {None})) :
             d # {} /\ \A p \in d : p[2] # None => TitleOf[p[2]] = p[1]}

Ambiguous(d) == \E p \in d : p[2] = None /\ Cardinality(Candidates(bank, p[1])) > 1

Resolved(k, t, q) == [task |-> k, title |-> t, q |-> q, state |-> "resolved"]
Pending(k, t) == [task |-> k, title |-> t, q |-> None, state |-> "pending"]

\* materializeDraftItemTx; equal items of a draft are one.
Materialized(k, d) ==
    {<<0, IF p[2] # None THEN Resolved(k, p[1], p[2])
          ELSE IF Candidates(bank, p[1]) = {} THEN Pending(k, p[1])
          ELSE Resolved(k, p[1], TheQuestion(bank, p[1]))>> : p \in d}

BeginCreate(k) ==
    /\ status[k] = "none" /\ tx[k].op = "none"
    /\ \E d \in Drafts :
          /\ ~Ambiguous(d)
          /\ tx' = [tx EXCEPT ![k] = [op |-> "create", rows |-> Materialized(k, d)]]
    /\ UNCHANGED <<bankVars, status, item, intake, fresh, handler, intakeFaults, history>>

CopiedItems(k, from) == {<<i, [item[i] EXCEPT !.task = k]>> : i \in ItemsOf(from)}

\* RetryTask copies the items of a version that has ended as they are.
BeginRetry(k, from) ==
    /\ status[k] = "none" /\ tx[k].op = "none"
    /\ status[from] \in {"executed", "failed"}
    /\ tx' = [tx EXCEPT ![k] = [op |-> "create", rows |-> CopiedItems(k, from)]]
    /\ UNCHANGED <<bankVars, status, item, intake, fresh, handler, intakeFaults, history>>

\* UpdateTask holds the task's row, which keeps the dispatcher out.
BeginUpdate(k) ==
    /\ status[k] = "scheduled" /\ tx[k].op = "none"
    /\ \E d \in Drafts :
          /\ ~Ambiguous(d)
          /\ tx' = [tx EXCEPT ![k] = [op |-> "update", rows |-> Materialized(k, d)]]
    /\ UNCHANGED <<bankVars, status, item, intake, fresh, handler, intakeFaults, history>>

\* The rows of a draft get new ids; buildTaskIntakeRows gives the pending ones an intake.
NewIds(k) == fresh .. fresh + Cardinality(tx[k].rows) - 1

IntakeOf(row) == IF row.state = "pending" THEN [state |-> "pending", q |-> None] ELSE None

\* Faulty: the items of the former draft are not deleted.
OldItems_Kept(k) == {}

OldItems(k) == ItemsOf(k)

\* CreateItems and CreateIntakes, after ReplaceItems and ReplaceIntakes have
\* deleted what the task had.
CommitDraft(k) ==
    /\ tx[k].op \in {"create", "update"}
    /\ NewIds(k) \subseteq ItemIds
    /\ \E new \in [NewIds(k) -> tx[k].rows] :
          /\ tx[k].rows = {new[i] : i \in NewIds(k)}
          /\ item' = [i \in ItemIds |-> IF i \in NewIds(k) THEN new[i][2]
                                        ELSE IF i \in OldItems(k) THEN None ELSE item[i]]
          /\ intake' = [i \in ItemIds |-> IF i \in NewIds(k) THEN IntakeOf(new[i][2])
                                          ELSE IF i \in OldItems(k) THEN None ELSE intake[i]]
          /\ late' = late \cup {i \in NewIds(k) : /\ new[i][2].state = "pending"
                                               /\ Candidates(bank, new[i][2].title) # {}}
    /\ fresh' = fresh + Cardinality(tx[k].rows)
    /\ status' = [status EXCEPT ![k] = "scheduled"]
    /\ tx' = [tx EXCEPT ![k] = NoTx]
    /\ written' = [written EXCEPT ![k] = NewIds(k)]
    /\ crossed' = IF \E h \in Handlers : IdsIn(handler[h].rows) \cap ItemsOf(k) # {}
                    THEN crossed \cup {k} ELSE crossed
    /\ UNCHANGED <<bankVars, handler, intakeFaults>>

DraftError(k) ==
    /\ tx[k].op \in {"create", "update"} /\ IntakeFault
    /\ tx' = [tx EXCEPT ![k] = NoTx]
    /\ UNCHANGED <<bankVars, status, item, intake, fresh, handler, history>>

-----------------------------------------------------------------------------
(* HandleQuestionUpserted: with exactly one candidate, the pending intakes of  *)
(* the title and their items are read, and then saved.                        *)

Pendings(t) == {i \in ItemIds : /\ intake[i] # None /\ item[i] # None
                                /\ intake[i].state = "pending" /\ item[i].state = "pending"
                                /\ item[i].title = t}

ReadPending(h, t) ==
    /\ handler[h].title = None /\ events[t] > 0
    /\ events' = [events EXCEPT ![t] = @ - 1]
    /\ handler' = [handler EXCEPT ![h] =
          IF Cardinality(Candidates(bank, t)) # 1 THEN Waiting
          ELSE [title |-> t, q |-> TheQuestion(bank, t),
                rows |-> {<<i, item[i]>> : i \in Pendings(t)}]]
    /\ UNCHANGED <<bank, cache, filling, sync, taskVars, intakeFaults, history>>

SavedIntake(h) ==
    [i \in ItemIds |-> IF i \in IdsIn(handler[h].rows) THEN [state |-> "resolved", q |-> handler[h].q]
                                               ELSE intake[i]]

\* Save inserts the row again when an edit has deleted it since the read.
SaveResolved(h) ==
    /\ handler[h].title # None
    /\ item' = [i \in ItemIds |-> IF i \in IdsIn(handler[h].rows)
                                    THEN [RowIn(handler[h].rows, i) EXCEPT !.state = "resolved",
                                                              !.q = handler[h].q]
                                    ELSE item[i]]
    /\ intake' = SavedIntake(h)
    /\ handler' = [handler EXCEPT ![h] = Waiting]
    /\ UNCHANGED <<bankVars, status, tx, fresh, intakeFaults, history>>

\* Faulty: the message is acknowledged all the same.
HandlerError_Acks(h) ==
    /\ handler[h].title # None /\ IntakeFault
    /\ handler' = [handler EXCEPT ![h] = Waiting]
    /\ UNCHANGED <<bankVars, taskVars, history>>

\* The transaction fails and the message stays pending: it is delivered again.
HandlerError(h) ==
    /\ handler[h].title # None /\ IntakeFault
    /\ events' = [events EXCEPT ![handler[h].title] = @ + 1]
    /\ handler' = [handler EXCEPT ![h] = Waiting]
    /\ UNCHANGED <<bank, cache, filling, sync, taskVars, history>>

-----------------------------------------------------------------------------
(* The check before an execution: what is pending is resolved or invalid.     *)

\* The dispatcher sets the task to executing, which ends its edits.
Execute(k) ==
    /\ status[k] = "scheduled" /\ tx[k].op = "none"
    /\ status' = [status EXCEPT ![k] = "executing"]
    /\ UNCHANGED <<bankVars, item, intake, tx, fresh, handler, intakeFaults, history>>

\* Faulty: a title with several questions is left alone.
Unresolved_Left(row) ==
    IF Candidates(bank, row.title) = {} THEN [row EXCEPT !.state = "invalid"] ELSE row

Unresolved(row) == [row EXCEPT !.state = "invalid"]

\* preFlightTaskItemTx.
Checked(row) ==
    IF row.state # "pending" THEN row
    ELSE IF Cardinality(Candidates(bank, row.title)) = 1
           THEN [row EXCEPT !.state = "resolved", !.q = TheQuestion(bank, row.title)]
           ELSE Unresolved(row)

\* The items that change, as they will be saved.
ReadItems(k) ==
    /\ status[k] = "executing" /\ tx[k].op = "none"
    /\ tx' = [tx EXCEPT ![k] =
          [op |-> "preflight",
           rows |-> {<<i, Checked(item[i])>> :
                       i \in {j \in ItemsOf(k) : Checked(item[j]) # item[j]}}]]
    /\ UNCHANGED <<bankVars, status, item, intake, fresh, handler, intakeFaults, history>>

\* preFlightCheck commits, over what a handler has resolved since the read.
PreFlightCheck(k) ==
    LET rows == tx[k].rows IN
    /\ tx[k].op = "preflight"
    /\ item' = [i \in ItemIds |-> IF i \in IdsIn(rows) THEN RowIn(rows, i) ELSE item[i]]
    /\ intake' = [i \in ItemIds |->
          IF i \in IdsIn(rows) /\ intake[i] # None
            THEN [state |-> RowIn(rows, i).state, q |-> RowIn(rows, i).q] ELSE intake[i]]
    /\ status' = [status EXCEPT ![k] = "executed"]
    /\ tx' = [tx EXCEPT ![k] = NoTx]
    /\ UNCHANGED <<bankVars, fresh, handler, intakeFaults, history>>

PreFlightError(k) ==
    /\ tx[k].op = "preflight" /\ IntakeFault
    /\ status' = [status EXCEPT ![k] = "failed"]
    /\ tx' = [tx EXCEPT ![k] = NoTx]
    /\ UNCHANGED <<bankVars, item, intake, fresh, handler, history>>

-----------------------------------------------------------------------------
IntakeNext ==
    \/ \E s \in Syncs : ReadProblems(s) \/ InsertProblems(s) \/ InsertError(s)
    \/ FillCache
    \/ \E k \in Tasks : \/ BeginCreate(k) \/ BeginUpdate(k) \/ CommitDraft(k) \/ DraftError(k)
                        \/ Execute(k) \/ ReadItems(k) \/ PreFlightCheck(k) \/ PreFlightError(k)
    \/ \E k, from \in Tasks : BeginRetry(k, from)
    \/ \E h \in Handlers : SaveResolved(h) \/ HandlerError(h)
    \/ \E h \in Handlers, t \in Titles : ReadPending(h, t)

IntakeSpec == IntakeInit /\ [][IntakeNext]_intakeVars

-----------------------------------------------------------------------------
(* Properties                                                                *)

\* An intake says of its item what the item says itself: the creation, the edit, the
\* handler (ojTask_question_upsert.go:54) and the check before the execution
\* (ojTask_preflight.go:93) write both rows, whoever overwrites whom.
IntakeFollowsItem ==
    \A i \in ItemIds :
        intake[i] # None => item[i] # None /\ intake[i].state = item[i].state
                                          /\ intake[i].q = item[i].q

\* A task has the items of its last draft, each once, and what waits of it is said once:
\* a handler that read an item before an edit and saves it afterwards brings the deleted
\* one back (ojTask_question_upsert.go:39,51), and nothing else does.
DraftsAreWhole == IntakeFollowsItem /\ \A k \in Tasks \ crossed : ItemsOf(k) = written[k]

\* An item whose question is known and whose events are handled waits only when its
\* transaction had not seen the question before the question's transaction committed:
\* the syncs announce every question they add (ojSvc.go:959), and a failed handler is
\* called again.
PendingWasMissed ==
    \A i \in ItemIds :
        (/\ item[i] # None /\ item[i].state = "pending"
         /\ Cardinality(Candidates(bank, item[i].title)) = 1
         /\ events[item[i].title] = 0
         /\ \A h \in Handlers : handler[h].title # item[i].title) => i \in late

\* What was missed is made up for before the task is executed (ojTask_preflight.go:14):
\* afterwards no item of it waits, and what a handler still saves is resolved.
ExecutedIsDecided ==
    \A i \in ItemIds :
        item[i] # None /\ status[item[i].task] = "executed" => item[i].state # "pending"

\* luoguQuestionBankRepo.go:70 says the goroutine keeps the cache consistent: with no
\* goroutine left, a cached id is the id of a row.
CacheIsConsistent == filling = {} => \A q \in Questions : cache[q] # "gone"
=============================================================================
