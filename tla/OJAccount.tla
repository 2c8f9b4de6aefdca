------------------------------- MODULE OJAccount -------------------------------
(* A user's account at an online judge: the requests that bind it, the handler of *)
(* the bind event and the periodic synchronisation, which all write the same row. *)
(* Only some of them take a lock, and not always the same one.                    *)
(*   src/internal/service/system/ojSvc.go, ojLanqiaoSvc.go                        *)
(*   src/internal/repository/system/*UserDetailRepo.go, *UserQuestionRepo.go      *)
EXTENDS Naturals, Sequences, FiniteSets

CONSTANTS Accounts,    \* accounts at the judge
          Growing,     \* those that go on solving problems
          NoAccount,
          Binds,       \* bind requests of the user
          MaxSolved,   \* bound: problems per account
          Window,      \* how many of the newest problems a synchronisation gets
          Threshold,   \* failures until Lanqiao is not asked any more
          MaxOps       \* bound: binds, failures, repairs

ASSUME OJAccountAssumption ==
    /\ Growing \subseteq Accounts /\ NoAccount \notin Accounts
    /\ MaxSolved \in Nat \ {0} /\ Window \in 1..MaxSolved
    /\ Threshold \in Nat \ {0} /\ MaxOps \in Nat

VARIABLES platform,
          judge,      \* account -> problems solved there
          good,       \* accounts whose password is still the one that was bound
          details,    \* *_user_details of the user; a row's place is its id
          facts,      \* *_user_questions: <<row, account, problem>>
          binding,    \* bind events that are still to be handled
          refresh,    \* statistics events that are still to be handled
          req, sync, handler,
          seen,       \* Redis: problems that a synchronisation has taken up
          lost,       \* Redis: problems cached with the id of a row that was rolled back
          fails, disabled,   \* Redis: Lanqiao's failure counter and switch
          bound,      \* the account of the last bind that came through
          crossed,    \* somebody wrote by a row he had read before it changed
          broken,     \* a bind broke off with its row written
          ops         \* counts up to MaxOps

tables == <<details, facts>>
events == <<binding, refresh>>
switch == <<fails, disabled>>
redis == <<seen, lost, switch>>
outside == <<platform, judge, good>>
ghosts == <<bound, crossed, broken>>
accountVars == <<outside, tables, events, req, sync, handler, redis, ghosts, ops>>

Problems == Accounts \X (1..MaxSolved)
NoRow == 0
Idle == [pc |-> "idle"]

DetailRecords == [account : Accounts, passed : 0..MaxSolved, live : BOOLEAN]

BindRecords == [pc : {"ask", "write", "clear"}, account : Accounts, into : Nat,
                total : 0..MaxSolved, reset : BOOLEAN]

SyncRecords ==
    [pc : {"start", "counts"}, id : Nat, account : Accounts, passed : 0..MaxSolved]
    \cup [pc : {"write"}, id : Nat, account : Accounts, passed : 0..MaxSolved,
          total : 0..MaxSolved, new : BOOLEAN, into : Nat]
    \cup [pc : {"solved"}, id : Nat, account : Accounts, passed : 0..MaxSolved, due : BOOLEAN]
    \cup [pc : {"store"}, id : Nat, account : Accounts, passed : 0..MaxSolved,
          fresh : SUBSET Problems]

HandlerRecords == [pc : {"store"}, id : Nat, problems : SUBSET Problems]

AccountTypeOK ==
    /\ platform \in {"leetcode", "luogu", "lanqiao"}
    /\ judge \in [Accounts -> 0..MaxSolved]
    /\ good \subseteq Accounts
    /\ details \in Seq(DetailRecords)
    /\ facts \subseteq (DOMAIN details) \X Accounts \X (1..MaxSolved)
    /\ \A e \in binding : e \subseteq Problems
    /\ refresh \subseteq {"refresh", "reset"}
    /\ req \in [Binds -> {Idle} \cup BindRecords] /\ sync \in {Idle} \cup SyncRecords
    /\ handler \in {Idle} \cup HandlerRecords
    /\ \A r \in Binds : req[r] # Idle => req[r].into <= Len(details)
    /\ sync # Idle => sync.id \in DOMAIN details
    /\ sync # Idle /\ sync.pc = "write" => sync.into <= Len(details)
    /\ handler # Idle => handler.id \in DOMAIN details
    /\ seen \subseteq Problems /\ lost \subseteq Problems
    /\ fails \in 0..Threshold - 1
    /\ disabled \in {"no", "failing", "invalid"}
    /\ bound \in Accounts \cup {NoAccount}
    /\ crossed \in BOOLEAN /\ broken \in BOOLEAN
    /\ ops \in 0..MaxOps

AccountInit ==
    /\ platform \in {"leetcode", "luogu", "lanqiao"}
    /\ judge = [a \in Accounts |-> 1]
    /\ good = Accounts
    /\ details = <<>> /\ facts = {}
    /\ binding = {} /\ refresh = {}
    /\ req = [r \in Binds |-> Idle] /\ sync = Idle /\ handler = Idle
    /\ seen = {} /\ lost = {} /\ fails = 0 /\ disabled = "no"
    /\ bound = NoAccount /\ crossed = FALSE /\ broken = FALSE
    /\ ops = 0

\* Rows that are not marked deleted.
Live == {i \in DOMAIN details : details[i].live}

Counted == ops < MaxOps /\ ops' = ops + 1

-----------------------------------------------------------------------------
(* The judge.                                                                  *)

\* What happens to an account while it is not bound is as good as there before.
Bound(a) == \E i \in Live : details[i].account = a

\* Another problem is solved.
Solve(a) ==
    /\ a \in Growing /\ judge[a] < MaxSolved
    /\ Bound(a)
    /\ judge' = [judge EXCEPT ![a] = @ + 1]
    /\ UNCHANGED <<platform, good, tables, events, req, sync, handler, redis, ghosts, ops>>

\* A password is changed at the judge.
Revoke(a) ==
    /\ platform = "lanqiao"
    /\ a \in good /\ Bound(a)
    /\ good' = good \ {a}
    /\ UNCHANGED <<platform, judge, tables, events, req, sync, handler, redis, ghosts, ops>>

All(a) == {a} \X (1..judge[a])
Newest(a) == {p \in All(a) : p[2] + Window > judge[a]}

\* What the judge tells a synchronisation.
Told(a) == IF platform = "luogu" THEN All(a) ELSE Newest(a)

-----------------------------------------------------------------------------
(* The row.                                                                    *)

\* GetByUserID: the oldest row that is not deleted.
Found == IF Live = {} THEN NoRow ELSE CHOOSE i \in Live : \A j \in Live : i <= j

\* DeleteByUserID marks the rows; what refers to them stays.
Deleted == [i \in DOMAIN details |-> [details[i] EXCEPT !.live = FALSE]]

\* UpsertByUserID creates a row or saves the one it has read; saving a row that was
\* deleted meanwhile inserts it again.
Put(table, into, a, n) ==
    LET row == [account |-> a, passed |-> n, live |-> TRUE]
    IN  IF into = NoRow THEN Append(table, row) ELSE [table EXCEPT ![into] = row]

PutInto(into) == IF into = NoRow THEN Len(details) + 1 ELSE into

\* The unique index over Lanqiao's credentials counts deleted rows as well.
CredentialsTaken(into, a) == \E i \in DOMAIN details : i # into /\ details[i].account = a

Facts(id, problems) == {<<id, p[1], p[2]>> : p \in problems}

Banked == {<<f[2], f[3]>> : f \in facts}

\* The transaction that adds problems to the question bank rolls back; their ids may
\* have come to the cache before, and nobody corrects them.
RollsBack(problems) ==
    /\ Counted
    /\ \E new \in SUBSET (problems \ (Banked \cup lost)) : lost' = lost \cup new

\* All of the facts, or none: the id of a row that is none fails the whole batch.
WithBatch(id, problems) == IF problems \cap lost = {} THEN facts \cup Facts(id, problems) ELSE facts

\* An identifier's lock: syncs hold it, and for luogu binds and handlers as well.
Held(a) ==
    \/ sync # Idle /\ sync.pc \in {"write", "solved"} /\ sync.account = a
    \/ /\ platform = "luogu"
       /\ \/ \E r \in Binds : req[r] # Idle /\ req[r].pc = "write" /\ req[r].account = a
          \/ handler # Idle /\ details[handler.id].account = a

-----------------------------------------------------------------------------
(* Binding.                                                                    *)

Others(r) == \E s \in Binds \ {r} : req[s] # Idle

\* Faulty: the row of another account is kept.
BindBegins_Keeps(r, a) ==
    /\ req[r] = Idle
    /\ Counted
    /\ req' = [req EXCEPT ![r] = [pc |-> "ask", account |-> a, into |-> NoRow, total |-> 0,
                                  reset |-> TRUE]]
    /\ crossed' = (crossed \/ Others(r))
    /\ UNCHANGED <<outside, tables, events, sync, handler, redis, bound, broken>>

\* Leetcode and luogu drop a row of another account before they ask the judge;
\* lanqiao keeps what it has read for the transaction.  When the cool-down has
\* passed is left open: a refused call changes nothing.
BindBegins(r, a) ==
    /\ req[r] = Idle
    /\ Counted
    /\ LET changes == Found # NoRow /\ details[Found].account # a
       IN  /\ details' = IF changes /\ platform # "lanqiao" THEN Deleted ELSE details
           /\ req' = [req EXCEPT ![r] =
                 [pc |-> "ask", account |-> a, into |-> NoRow, total |-> 0,
                  reset |-> CASE platform = "leetcode" -> Found = NoRow \/ changes
                              [] platform = "luogu"    -> TRUE
                              [] OTHER                 -> changes]]
    /\ crossed' = (crossed \/ Others(r))
    /\ UNCHANGED <<outside, facts, events, sync, handler, redis, bound, broken>>

\* The judge has answered.  The event goes out before the row is written: luogu's
\* carries the problems, leetcode's nothing.
BindPublishes(r) ==
    /\ req[r] # Idle /\ req[r].pc = "ask"
    /\ platform # "lanqiao"
    /\ platform = "luogu" => ~Held(req[r].account)
    /\ binding' = binding \cup {IF platform = "luogu" THEN All(req[r].account) ELSE {}}
    /\ req' = [req EXCEPT ![r] = [pc |-> "write", account |-> @.account, into |-> Found,
                                  total |-> judge[@.account], reset |-> @.reset]]
    /\ UNCHANGED <<outside, tables, refresh, sync, handler, redis, ghosts, ops>>

\* The event for the statistics; that it could not be written is only logged.
Announces(due, kind) ==
    \/ refresh' = IF due THEN refresh \cup {kind} ELSE refresh
    \/ UNCHANGED refresh

\* A bind came through.
Came(r, kind) ==
    /\ bound' = req[r].account
    /\ Announces(TRUE, kind)
    /\ req' = [req EXCEPT ![r] = Idle]

Kind(r) == IF req[r].reset THEN "reset" ELSE "refresh"

BindWrites(r) ==
    /\ req[r] # Idle /\ req[r].pc = "write"
    /\ details' = Put(details, req[r].into, req[r].account, req[r].total)
    /\ Came(r, Kind(r))
    /\ UNCHANGED <<outside, facts, binding, sync, handler, redis, crossed, broken, ops>>

\* Lanqiao: one transaction writes row and facts.
BindStores(r) ==
    LET a == req[r].account
        table == IF req[r].reset THEN Deleted ELSE details
        into == IF req[r].reset THEN NoRow ELSE Found
    IN  /\ req[r] # Idle /\ req[r].pc = "ask"
        /\ platform = "lanqiao"
        /\ a \in good
        /\ ~CredentialsTaken(into, a)
        /\ details' = Put(table, into, a, 0)
        /\ facts' = facts \cup Facts(PutInto(into), All(a))
        /\ req' = [req EXCEPT ![r].pc = "clear"]
        /\ bound' = a
        /\ UNCHANGED <<outside, events, sync, handler, redis, crossed, broken, ops>>

\* clearLanqiaoRuntimeState and the events.
BindClears(r) ==
    /\ req[r] # Idle /\ req[r].pc = "clear"
    /\ fails' = 0 /\ disabled' = "no"
    /\ Came(r, Kind(r))
    /\ UNCHANGED <<outside, tables, binding, sync, handler, seen, lost, crossed, broken, ops>>

\* The judge, a lock, the database or the process fails a bind.
BindFails(r) ==
    /\ req[r] # Idle
    /\ req' = [req EXCEPT ![r] = Idle]
    /\ broken' = (broken \/ req[r].pc = "clear")
    /\ UNCHANGED <<outside, tables, events, sync, handler, redis, bound, crossed, ops>>

-----------------------------------------------------------------------------
(* The handler of the bind event.                                              *)

\* It takes the row it finds; luogu's event brings the problems, leetcode asks.
HandlerReads(e) ==
    /\ handler = Idle
    /\ Found # NoRow
    /\ platform = "luogu" => ~Held(details[Found].account)
    /\ binding' = binding \ {e}
    /\ handler' = [pc |-> "store", id |-> Found,
                   problems |-> IF platform = "luogu" THEN e ELSE Newest(details[Found].account)]
    /\ UNCHANGED <<outside, tables, refresh, req, sync, redis, ghosts, ops>>

\* An event that meets no row, or for luogu a lock, fails and is not read again.
HandlerMisses(e) ==
    /\ handler = Idle
    /\ Found # NoRow => platform = "luogu" /\ Held(details[Found].account)
    /\ binding' = binding \ {e}
    /\ UNCHANGED <<outside, tables, refresh, req, sync, handler, redis, ghosts, ops>>

\* The problems are those of the row that the handler has read, which is still there.
Fits(id, problems) == details[id].live /\ \A p \in problems : p[1] = details[id].account

HandlerStores ==
    /\ handler # Idle
    /\ facts' = WithBatch(handler.id, handler.problems)
    /\ Announces(facts' # facts, "refresh")
    /\ crossed' = (crossed \/ ~Fits(handler.id, handler.problems))
    /\ handler' = Idle
    /\ UNCHANGED <<outside, details, binding, req, sync, redis, bound, broken, ops>>

HandlerFails ==
    /\ handler # Idle
    /\ RollsBack(handler.problems)
    /\ handler' = Idle
    /\ UNCHANGED <<outside, tables, events, req, sync, seen, switch, ghosts>>

-----------------------------------------------------------------------------
(* Synchronisation: one at a time, by the lock over all users.                 *)

\* job: the problems, or lanqiao's submission counts alone.
SyncLists(id, job) ==
    /\ sync = Idle
    /\ id \in Live
    /\ platform = "lanqiao" => disabled = "no"
    /\ job = "counts" => platform = "lanqiao"
    /\ sync' = [pc |-> job, id |-> id, account |-> details[id].account,
                passed |-> details[id].passed]
    /\ UNCHANGED <<outside, tables, events, req, handler, redis, ghosts, ops>>

SyncSkips ==
    /\ sync # Idle /\ sync.pc = "start"
    /\ Held(sync.account)
    /\ sync' = Idle
    /\ UNCHANGED <<outside, tables, events, req, handler, redis, ghosts, ops>>

\* The row is still the one that was listed.
Current == details[sync.id].live /\ details[sync.id].account = sync.account

\* Problems that could not be added are only logged and the facts of the others may
\* be stored; for lanqiao both are one transaction, which does without the cache.
Stores(problems) ==
    /\ \/ facts' = WithBatch(sync.id, problems) /\ UNCHANGED <<lost, ops>>
       \/ /\ platform # "lanqiao"
          /\ RollsBack(problems)
          /\ facts' \in {facts, WithBatch(sync.id, problems \ (lost' \ lost))}
    /\ crossed' = (crossed \/ ~Current)

\* The judge answers; luogu stores the problems first.  UpsertByUserID reads.
SyncReads ==
    /\ sync # Idle /\ sync.pc = "start"
    /\ platform # "lanqiao"
    /\ ~Held(sync.account)
    /\ IF platform = "luogu" THEN Stores(Told(sync.account)) 
       ELSE UNCHANGED <<facts, crossed, lost, ops>>
    /\ sync' = [pc |-> "write", id |-> sync.id, account |-> sync.account,
                passed |-> sync.passed, total |-> judge[sync.account],
                new |-> facts' # facts, into |-> Found]
    /\ UNCHANGED <<outside, details, events, req, handler, seen, switch, bound, broken>>

Changed == sync.total # sync.passed

\* luogu's is the listed one, whose id a deleted row still has: it cannot be created.
Written == IF Changed /\ (platform = "luogu" => sync.into # NoRow)
           THEN Put(details, sync.into, sync.account, sync.total)
           ELSE details

\* The row is written if it differs from what was listed; a failure is only logged.
\* leetcode goes on to ask for the problems.
SyncWrites ==
    /\ sync # Idle /\ sync.pc = "write"
    /\ \/ details' = Written /\ UNCHANGED ops
       \/ Counted /\ UNCHANGED details
    /\ crossed' = (crossed \/ ~Current)
    /\ IF platform = "leetcode"
       THEN /\ sync' = [pc |-> "solved", id |-> sync.id, account |-> sync.account,
                        passed |-> sync.passed, due |-> Changed]
            /\ UNCHANGED refresh
       ELSE Announces(Changed \/ sync.new, "refresh") /\ sync' = Idle
    /\ UNCHANGED <<outside, facts, binding, req, handler, redis, bound, broken>>

\* leetcode's problems come; without them there is no event, whatever was written.
SyncSolved ==
    /\ sync # Idle /\ sync.pc = "solved"
    /\ Stores(Told(sync.account))
    /\ Announces(sync.due \/ facts' # facts, "refresh")
    /\ sync' = Idle
    /\ UNCHANGED <<outside, details, binding, req, handler, seen, switch, bound, broken>>

\* Lanqiao takes up each problem once: the mark is set before the transaction.
SyncMarks ==
    /\ sync # Idle /\ sync.pc = "start"
    /\ platform = "lanqiao"
    /\ sync.account \in good
    /\ sync' = [pc |-> "store", id |-> sync.id, account |-> sync.account,
                passed |-> sync.passed, fresh |-> Told(sync.account) \ seen]
    /\ seen' = seen \cup Told(sync.account)
    /\ UNCHANGED <<outside, tables, events, req, handler, lost, switch, ghosts, ops>>

\* The transaction writes the whole row as it was listed.
SyncStores ==
    /\ sync # Idle /\ sync.pc = "store"
    /\ ~CredentialsTaken(Found, sync.account)
    /\ details' = Put(details, Found, sync.account, 0)
    /\ Stores(sync.fresh)
    /\ Announces(facts' # facts, "refresh")
    /\ fails' = 0
    /\ sync' = Idle
    /\ UNCHANGED <<outside, binding, req, handler, seen, disabled, bound, broken>>

\* RefreshAllLanqiaoSubmissionStats writes the row as it was listed, and no facts.
CountsRefreshed ==
    /\ sync # Idle /\ sync.pc = "counts"
    /\ sync.account \in good
    /\ ~CredentialsTaken(Found, sync.account)
    /\ details' = Put(details, Found, sync.account, 0)
    /\ crossed' = (crossed \/ ~Current)
    /\ fails' = 0
    /\ sync' = Idle
    /\ UNCHANGED <<outside, facts, events, req, handler, seen, lost, disabled, bound, broken, ops>>

\* handleLanqiaoSyncFailure for an error that is none of the password.
FailsOnce ==
    IF platform # "lanqiao" THEN UNCHANGED <<fails, disabled>>
    ELSE IF fails + 1 < Threshold THEN fails' = fails + 1 /\ UNCHANGED disabled
    ELSE fails' = 0 /\ disabled' = "failing"

\* The judge or the database fails.
SyncFails ==
    /\ sync # Idle
    /\ Counted
    /\ FailsOnce
    /\ crossed' = (crossed \/ ~Current)
    /\ sync' = Idle
    /\ UNCHANGED <<outside, tables, events, req, handler, seen, lost, bound, broken>>

\* The index refuses the row.
SyncClashes ==
    /\ sync # Idle /\ sync.pc \in {"store", "counts"}
    /\ CredentialsTaken(Found, sync.account)
    /\ FailsOnce
    /\ crossed' = TRUE
    /\ sync' = Idle
    /\ UNCHANGED <<outside, tables, events, req, handler, seen, lost, bound, broken, ops>>

\* The judge refuses the password.
SyncRefused ==
    /\ sync # Idle /\ sync.pc \in {"start", "counts"}
    /\ platform = "lanqiao"
    /\ sync.account \notin good
    /\ fails' = 0 /\ disabled' = "invalid"
    /\ crossed' = (crossed \/ ~Current)
    /\ sync' = Idle
    /\ UNCHANGED <<outside, tables, events, req, handler, seen, lost, bound, broken, ops>>

\* The keys' time to live ends.
SeenExpires ==
    /\ seen # {} /\ seen' = {}
    /\ UNCHANGED <<outside, tables, events, req, sync, handler, lost, switch, ghosts, ops>>

SwitchExpires ==
    /\ disabled # "no" \/ fails # 0
    /\ disabled' = "no" /\ fails' = 0
    /\ UNCHANGED <<outside, tables, events, req, sync, handler, seen, lost, ghosts, ops>>

SyncStep == SyncSkips \/ SyncReads \/ SyncWrites \/ SyncSolved \/ SyncMarks \/ SyncStores
            \/ SyncClashes \/ SyncRefused \/ CountsRefreshed

AccountNext ==
    \/ \E a \in Accounts : Solve(a) \/ Revoke(a)
    \/ \E r \in Binds :
          \/ \E a \in Accounts : BindBegins(r, a)
          \/ BindPublishes(r) \/ BindWrites(r) \/ BindStores(r) \/ BindClears(r) \/ BindFails(r)
    \/ \E e \in binding : HandlerReads(e) \/ HandlerMisses(e)
    \/ HandlerStores \/ HandlerFails
    \/ \E id \in DOMAIN details, job \in {"start", "counts"} : SyncLists(id, job)
    \/ SyncStep \/ SyncFails
    \/ SeenExpires \/ SwitchExpires

-----------------------------------------------------------------------------
(* Properties.                                                                 *)

\* Lanqiao's switch is off for a password that the bound account no longer has:
\* a new bind turns it on again, unless it was broken off.
SwitchIsTheirs ==
    ~broken /\ disabled = "invalid" /\ (\A r \in Binds : req[r] = Idle) => bound \notin good

\* Binds, events and synchronisations write the user's row one after the other:
\* there is one, it is that of the last bind, and its problems and its switch are
\* those of that account, also when the account was changed in between, unless
\* somebody wrote by a row that had changed since he read it.
RowIsTheirs ==
    ~crossed => /\ Cardinality(Live) <= 1
                /\ \A i \in Live : details[i].account = bound
                /\ \A f \in facts : details[f[1]].live => f[2] = details[f[1]].account
                /\ SwitchIsTheirs

\* A bind event that met no row, a failed synchronisation or a mark without facts
\* costs time only: while an account stays bound, what the judge tells of it is
\* stored in the end.  A problem that is cached with the id of no row is the exception:
\* no batch that has it is ever stored.
Settled(a) == \E i \in Live : Live = {i} /\ details[i].account = a
Stored(a) == \A i \in Live : Facts(i, Told(a)) \subseteq facts
FactsCatchUp ==
    \A a \in Accounts :
        <>[](Settled(a) /\ a \in good /\ Told(a) \cap lost = {}) => <>[]Stored(a)

\* What the lock around a synchronisation is there for: it does not get in the way
\* of a bind (ojSvc.go:620).  It does.
BindStands == \A i \in Live : bound = NoAccount \/ details[i].account = bound
=============================================================================
