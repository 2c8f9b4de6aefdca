-------------------------- MODULE PermissionProjection --------------------------
(* The Casbin projection of the permission relations: the relation tables are   *)
(* the truth; requests change them, consumers of the permission events and the  *)
(* requests themselves copy them into the casbin_rule table and the enforcer of *)
(* their instance; a broadcast makes every instance reload its enforcer.        *)
(*   src/internal/service/system/permissionProjectionSvc.go                     *)
(*   src/pkg/casbin/casbin.go                                                   *)
(*   src/internal/core/subscriberInit.go, src/internal/init/init.go             *)
EXTENDS Naturals, FiniteSets

CONSTANTS Instances,     \* server processes
          Requests,      \* request goroutines of each instance
          Subjects,      \* user@org
          Roles,         \* role codes a subject may be bound to
          Permissions,   \* role-menu, menu-API, role-API, role-capability rules
          Consumer,      \* the goroutine of the permission subscriber
          Startup,       \* the goroutine of Init
          MaxEdits,      \* bound: committed changes of the relations
          MaxRuleFaults  \* bound: faults of each kind

\* A database call that fails, a Redis call that fails, a pub/sub message or an
\* event that is lost or repeated, a process that dies.
RuleFaultKinds == {"db", "redis", "message", "crash"}

Bindings == Subjects \X Roles
Rules    == Bindings \cup Permissions

\* What a run projects: the bindings of one subject, or everything.
Graph  == "graph"
Scopes == Subjects \cup {Graph}

ASSUME PermissionAssumption ==
    /\ Consumer # Startup /\ Consumer \notin Requests /\ Startup \notin Requests
    /\ Graph \notin Subjects
    /\ Bindings \cap Permissions = {}
    /\ MaxEdits \in Nat
    /\ MaxRuleFaults \in [RuleFaultKinds -> Nat]

Threads == Instances \X (Requests \cup {Consumer, Startup})

VARIABLES truth,         \* rules the relation tables hold
          enabled,       \* roles whose status is 1
          table,         \* rules in casbin_rule
          mem,           \* instance -> rules in its enforcer
          events,        \* scope -> events in the stream nobody has read
          reloads,       \* instance -> reload messages it has not handled
          run,           \* thread -> pc, scope, rules still to project
          newer,         \* ghost: thread -> threads that read after it did
          overtaken,     \* ghost: threads a newer run has written before
          crossed,       \* ghost: a run wrote after a newer one, or a reload undid a clear
          orphaned,      \* ghost: bindings DeleteOrg removed, for which no consumer has
                         \* read the relations since
          edits,         \* changes so far
          ruleFaults     \* kind -> faults so far

order == <<newer, overtaken, crossed>>
ghosts == <<order, orphaned>>
ruleVars == <<truth, enabled, table, mem, events, reloads, run, ghosts, edits, ruleFaults>>

RunPCs == {"idle", "readRoles", "readPermissions", "erase", "save", "add", "broadcast"}

RuleTypeOK ==
    /\ truth \subseteq Rules
    /\ enabled \subseteq Roles
    /\ table \subseteq Rules
    /\ mem \in [Instances -> SUBSET Rules]
    /\ events \in [Scopes -> Nat]
    /\ reloads \in [Instances -> Nat]
    /\ run \in [Threads -> [pc : RunPCs, scope : Scopes, todo : SUBSET Rules]]
    /\ newer \in [Threads -> SUBSET Threads]
    /\ overtaken \subseteq Threads
    /\ crossed \in BOOLEAN
    /\ orphaned \subseteq Bindings
    /\ edits \in Nat
    /\ ruleFaults \in [RuleFaultKinds -> Nat]

Idle == [pc |-> "idle", scope |-> Graph, todo |-> {}]

RuleInit ==
    /\ truth = {}
    /\ enabled = Roles
    /\ table = {}
    /\ mem = [i \in Instances |-> {}]
    /\ events = [s \in Scopes |-> 0]
    /\ reloads = [i \in Instances |-> 0]
    /\ run = [t \in Threads |-> Idle]
    /\ newer = [t \in Threads |-> {}]
    /\ overtaken = {}
    /\ crossed = FALSE
    /\ orphaned = {}
    /\ edits = 0
    /\ ruleFaults = [k \in RuleFaultKinds |-> 0]

RuleFault(k) == /\ ruleFaults[k] < MaxRuleFaults[k]
                /\ ruleFaults' = [ruleFaults EXCEPT ![k] = @ + 1]

NoRuleFault == UNCHANGED ruleFaults

At(t, pc) == run[t].pc = pc
Scope(t)  == run[t].scope

Start(t, scope) == run' = [run EXCEPT ![t] = [pc |-> "readRoles", scope |-> scope, todo |-> {}]]

\* Without the bindings to disabled roles.
Active(rules) == {r \in rules : r \in Bindings => r[2] \in enabled}

InScope(rules, scope) == IF scope = Graph THEN rules ELSE rules \cap ({scope} \X Roles)

-----------------------------------------------------------------------------
(* Changes of the truth                                                       *)

Edit == edits < MaxEdits /\ edits' = edits + 1

\* A membership or role change of one subject: relations and event commit
\* together; the request goroutine then goes on to SyncSubjectRoles.
ChangeBinding(t) ==
    /\ t[2] \in Requests /\ At(t, "idle")
    /\ Edit
    /\ \E s \in Subjects, new \in SUBSET Roles :
         /\ truth' = (truth \ ({s} \X Roles)) \cup ({s} \X new)
         /\ truth' # truth
         /\ events' = [events EXCEPT ![s] = @ + 1]
         /\ Start(t, s)
    /\ orphaned' = orphaned \ truth'
    /\ NoRuleFault
    /\ UNCHANGED <<enabled, table, mem, reloads, order>>

\* DeleteOrg of an organisation with these subjects: RemoveAllMembers takes their
\* bindings away, and there is neither a permission event nor a sync.
DissolveOrg ==
    /\ Edit
    /\ \E members \in SUBSET Subjects :
         LET gone == truth \cap (members \X Roles)
         IN  /\ gone # {}
             /\ truth' = truth \ gone
             /\ orphaned' = orphaned \cup gone
    /\ NoRuleFault
    /\ UNCHANGED <<enabled, table, mem, events, reloads, run, order>>

\* A role, menu or API changes: left to the consumer of the event.
ChangeGraph ==
    /\ Edit
    /\ \E new \in SUBSET Permissions :
         /\ truth' = (truth \ Permissions) \cup new
         /\ truth' # truth
    /\ events' = [events EXCEPT ![Graph] = @ + 1]
    /\ NoRuleFault
    /\ UNCHANGED <<enabled, table, mem, reloads, run, ghosts>>

\* A role is enabled or disabled: UpdateRole writes its status and the same event.
ChangeRole ==
    /\ Edit
    /\ \E role \in Roles :
         enabled' = IF role \in enabled THEN enabled \ {role} ELSE enabled \cup {role}
    /\ events' = [events EXCEPT ![Graph] = @ + 1]
    /\ NoRuleFault
    /\ UNCHANGED <<truth, table, mem, reloads, run, ghosts>>

-----------------------------------------------------------------------------
(* SyncSubjectRoles and RebuildAll                                            *)

\* The subscriber reads one event; it carries a scope, and no state.
HandleEvent(t) ==
    /\ t[2] = Consumer /\ At(t, "idle")
    /\ \E s \in Scopes : /\ events[s] > 0
                         /\ events' = [events EXCEPT ![s] = @ - 1]
                         /\ Start(t, s)
    /\ NoRuleFault
    /\ UNCHANGED <<truth, enabled, table, mem, reloads, ghosts, edits>>

\* Ghost: t reads now, after every run that has read and is not over.
BeginsAfterAll(t) ==
    /\ newer' = [u \in Threads |-> IF u = t THEN {}
                                   ELSE IF run[u].pc \in {"readPermissions", "erase", "save", "add"}
                                     THEN newer[u] \cup {t} ELSE newer[u] \ {t}]
    /\ overtaken' = overtaken \ {t}
    /\ orphaned' = IF t[2] = Consumer THEN orphaned \ InScope(Rules, Scope(t)) ELSE orphaned
    /\ UNCHANGED crossed

\* Ghost: t writes, out of order if a newer run has written already.
Writes(t) ==
    /\ overtaken' = overtaken \cup {u \in Threads : t \in newer[u]}
    /\ crossed' = (crossed \/ t \in overtaken)
    /\ UNCHANGED <<newer, orphaned>>

Step(t, pc, todo) == run' = [run EXCEPT ![t].pc = pc, ![t].todo = todo]

\* GetUserRolesByOrg leaves disabled roles out; GetAllUserOrgRoleRelations does not.
ReadRoles(t) ==
    /\ At(t, "readRoles")
    /\ IF Scope(t) = Graph
         THEN Step(t, "readPermissions", truth \cap Bindings)
         ELSE Step(t, "erase", Active(InScope(truth \cap Bindings, Scope(t))))
    /\ BeginsAfterAll(t)
    /\ NoRuleFault
    /\ UNCHANGED <<truth, enabled, table, mem, events, reloads, edits>>

\* buildPermissions reads the other relations in queries of their own.
ReadPermissions(t) ==
    /\ At(t, "readPermissions")
    /\ Step(t, "erase", run[t].todo \cup (truth \cap Permissions))
    /\ NoRuleFault
    /\ UNCHANGED <<truth, enabled, table, mem, events, reloads, ghosts, edits>>

\* A run of the consumer ends with the broadcast.
Rest(t) == IF t[2] = Consumer THEN "broadcast" ELSE "idle"

Adding(t) == IF run[t].todo = {} THEN Rest(t) ELSE "add"

Without(rules, scope) == rules \ InScope(Rules, scope)

\* DeleteRolesForUser takes the subject's roles from the table and the enforcer;
\* a rebuild clears the enforcer first.
Erase(t) ==
    /\ At(t, "erase")
    /\ mem' = [mem EXCEPT ![t[1]] = Without(@, Scope(t))]
    /\ IF Scope(t) = Graph
         THEN /\ Step(t, "save", run[t].todo)
              /\ UNCHANGED table
         ELSE /\ Step(t, Adding(t), run[t].todo)
              /\ table' = Without(table, Scope(t))
    /\ Writes(t)
    /\ NoRuleFault
    /\ UNCHANGED <<truth, enabled, events, reloads, edits>>

\* SavePolicy replaces the table by what the enforcer holds.
SavePolicy(t) ==
    /\ At(t, "save")
    /\ table' = mem[t[1]]
    /\ Step(t, Adding(t), run[t].todo)
    /\ Writes(t)
    /\ NoRuleFault
    /\ UNCHANGED <<truth, enabled, mem, events, reloads, edits>>

\* Bindings are added before permissions.
NextRules(t) == IF run[t].todo \cap Bindings # {} THEN run[t].todo \cap Bindings
                                                   ELSE run[t].todo

\* Faulty: only the enforcer of this instance is told.
AddRule_MemoryOnly(t) ==
    /\ At(t, "add")
    /\ \E r \in NextRules(t) :
         /\ mem' = [mem EXCEPT ![t[1]] = @ \cup {r}]
         /\ Step(t, IF run[t].todo = {r} THEN Rest(t) ELSE "add", run[t].todo \ {r})
    /\ Writes(t)
    /\ NoRuleFault
    /\ UNCHANGED <<truth, enabled, table, events, reloads, edits>>

\* AddRoleForUser, AddPermissionForUser: a rule the enforcer has is not written
\* again; otherwise it goes to the table and then to the enforcer.
AddRule(t) ==
    /\ At(t, "add")
    /\ \E r \in NextRules(t) :
         /\ IF r \in mem[t[1]] THEN UNCHANGED <<table, mem>>
                               ELSE /\ table' = table \cup {r}
                                    /\ mem' = [mem EXCEPT ![t[1]] = @ \cup {r}]
         /\ Step(t, IF run[t].todo = {r} THEN Rest(t) ELSE "add", run[t].todo \ {r})
    /\ Writes(t)
    /\ NoRuleFault
    /\ UNCHANGED <<truth, enabled, events, reloads, edits>>

Abort(t) == run' = [run EXCEPT ![t] = Idle]

\* The table's unique index may refuse a rule that another instance has added
\* since the erase; the error ends the run.
AddRuleDuplicate(t) ==
    /\ At(t, "add")
    /\ \E r \in NextRules(t) : r \in table \ mem[t[1]]
    /\ Abort(t)
    /\ Writes(t)
    /\ NoRuleFault
    /\ UNCHANGED <<truth, enabled, table, mem, events, reloads, edits>>

\* Faulty: only the instance that handled the event reloads.
Broadcast_SelfOnly(t) ==
    /\ At(t, "broadcast")
    /\ reloads' = [reloads EXCEPT ![t[1]] = @ + 1]
    /\ Abort(t)
    /\ NoRuleFault
    /\ UNCHANGED <<truth, enabled, table, mem, events, ghosts, edits>>

\* Every instance that is subscribed gets the message, the sender too.
Broadcast(t) ==
    /\ At(t, "broadcast")
    /\ reloads' = [i \in Instances |-> reloads[i] + 1]
    /\ Abort(t)
    /\ NoRuleFault
    /\ UNCHANGED <<truth, enabled, table, mem, events, ghosts, edits>>

BroadcastError(t) ==
    /\ At(t, "broadcast")
    /\ Abort(t)
    /\ RuleFault("redis")
    /\ UNCHANGED <<truth, enabled, table, mem, events, reloads, ghosts, edits>>

\* A query or a write fails and the run ends where it is: the handler's error
\* strands the event.
RunError(t) ==
    /\ run[t].pc \in {"readRoles", "readPermissions", "erase", "save", "add"}
    /\ Abort(t)
    /\ RuleFault("db")
    /\ UNCHANGED <<truth, enabled, table, mem, events, reloads, ghosts, edits>>

-----------------------------------------------------------------------------
(* Reload, messages, restarts                                                 *)

ReloadPolicy(i) ==
    /\ reloads[i] > 0
    /\ reloads' = [reloads EXCEPT ![i] = @ - 1]
    /\ mem' = [mem EXCEPT ![i] = table]
    /\ crossed' = (crossed \/ \E t \in Threads : t[1] = i /\ At(t, "save"))
    /\ NoRuleFault
    /\ UNCHANGED <<truth, enabled, table, events, run, newer, overtaken, orphaned, edits>>

\* LoadPolicy clears the enforcer before it reads: what a failure leaves.
ReloadPolicyError(i) ==
    /\ reloads[i] > 0
    /\ reloads' = [reloads EXCEPT ![i] = @ - 1]
    /\ mem' = [mem EXCEPT ![i] = {}]
    /\ RuleFault("db")
    /\ UNCHANGED <<truth, enabled, table, events, run, ghosts, edits>>

\* Pub/sub is at most once; the relay publishes at least once.
LoseReload(i) ==
    /\ reloads[i] > 0
    /\ reloads' = [reloads EXCEPT ![i] = @ - 1]
    /\ RuleFault("message")
    /\ UNCHANGED <<truth, enabled, table, mem, events, run, ghosts, edits>>

RepeatEvent ==
    /\ \E s \in Scopes : events[s] > 0 /\ events' = [events EXCEPT ![s] = @ + 1]
    /\ RuleFault("message")
    /\ UNCHANGED <<truth, enabled, table, mem, reloads, run, ghosts, edits>>

\* Faulty: starts with what casbin_rule holds.
Restart_NoRebuild(i) ==
    /\ mem' = [mem EXCEPT ![i] = table]
    /\ reloads' = [reloads EXCEPT ![i] = 0]
    /\ run' = [t \in Threads |-> IF t[1] = i THEN Idle ELSE run[t]]
    /\ RuleFault("crash")
    /\ UNCHANGED <<truth, enabled, table, events, ghosts, edits>>

\* The process dies (Go also ends it when it detects two goroutines in one map
\* of the enforcer, which has no lock).  The next one loads the table, starts its
\* subscribers, and Init goes on to RebuildAll.
Restart(i) ==
    /\ mem' = [mem EXCEPT ![i] = table]
    /\ reloads' = [reloads EXCEPT ![i] = 0]
    /\ run' = [t \in Threads |->
                 IF t[1] # i THEN run[t]
                 ELSE IF t[2] = Startup THEN [Idle EXCEPT !.pc = "readRoles"] ELSE Idle]
    /\ RuleFault("crash")
    /\ UNCHANGED <<truth, enabled, table, events, ghosts, edits>>

-----------------------------------------------------------------------------

RunStep(t) ==
    \/ ReadRoles(t) \/ ReadPermissions(t) \/ Erase(t) \/ SavePolicy(t)
    \/ AddRule(t) \/ AddRuleDuplicate(t) \/ Broadcast(t)

RuleNext ==
    \/ ChangeGraph \/ ChangeRole \/ DissolveOrg
    \/ \E t \in Threads : \/ ChangeBinding(t) \/ HandleEvent(t) \/ RunStep(t)
                          \/ BroadcastError(t) \/ RunError(t)
    \/ \E i \in Instances : \/ ReloadPolicy(i) \/ ReloadPolicyError(i) \/ LoseReload(i)
                            \/ Restart(i)
    \/ RepeatEvent

RuleSpec == RuleInit /\ [][RuleNext]_ruleVars

\* Runs go on, subscribers keep reading events and reload messages.
RuleFairness ==
    /\ \A t \in Threads : WF_ruleVars(RunStep(t)) /\ WF_ruleVars(HandleEvent(t))
    /\ \A i \in Instances : WF_ruleVars(ReloadPolicy(i))

FairRuleSpec == RuleSpec /\ RuleFairness

-----------------------------------------------------------------------------
(* What must hold                                                             *)

AtRest == /\ \A s \in Scopes : events[s] = 0
          /\ \A i \in Instances : reloads[i] = 0
          /\ \A t \in Threads : At(t, "idle")

\* The rules of enabled roles are all there, and nothing is that the relations do
\* not hold, but for what DeleteOrg removed and no consumer has looked for since.
Agrees(rules) == rules \subseteq truth \cup orphaned /\ Active(truth) \subseteq rules

\* Events carry no state, every run reads the relations again: in whatever order
\* events, request syncs and start-up rebuilds come, however often they repeat
\* and wherever a process dies, the table ends up agreeing with the relations, unless a run
\* wrote after a newer one, a reload undid the clear of a rebuild, or a database
\* error stranded an event; and but for the bindings DeleteOrg removes silently,
\* which may stay until the next event about their subject or the graph is handled.
DriftNeedsCrossing ==
    AtRest /\ ~crossed /\ ruleFaults["db"] = 0 => Agrees(table)

\* A revoked grant is forgotten by every enforcer, not just where the event was
\* handled: the broadcast comes after the write.  What DeleteOrg revoked is
\* forgotten everywhere once a consumer has handled a later event that covers it.
RevocationReachesAll ==
    AtRest /\ ~crossed /\ (\A k \in RuleFaultKinds : ruleFaults[k] = 0)
      => \A i \in Instances : mem[i] \subseteq truth \cup orphaned

\* A committed change that wrote an event (DeleteOrg writes none) is projected,
\* without a further change to push it, even if the process that had read its
\* event dies.
ChangeIsProjected ==
    ~Agrees(table) ~> Agrees(table) \/ crossed \/ ruleFaults["db"] > 0
=============================================================================
