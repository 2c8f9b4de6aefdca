----------------------- MODULE PermissionProjectionProofs -----------------------
(* Proofs about PermissionProjection for any set of instances, requests,        *)
(* subjects, roles and permissions and any budget of faults and edits.          *)
EXTENDS PermissionProjection, TLAPS

-----------------------------------------------------------------------------
(* The order of runs                                                          *)

\* A run that has read and is not over.
Underway(t) == run[t].pc \in {"readPermissions", "erase", "save", "add"}

Covers(t, r) == r \in InScope(Rules, Scope(t))

\* What a run carries lies in its scope; only rebuilds read permissions and save.
LoadsFit ==
    \A t \in Threads :
      /\ run[t].todo \subseteq InScope(Rules, Scope(t))
      /\ At(t, "readPermissions") => Scope(t) = Graph /\ run[t].todo \subseteq Bindings
      /\ At(t, "save") => Scope(t) = Graph

\* Of two runs under way one has read after the other.
ReadsAreOrdered ==
    \A t \in Threads :
      /\ t \notin newer[t]
      /\ \A u \in Threads \ {t} : Underway(t) /\ Underway(u) => t \in newer[u] \/ u \in newer[t]

\* Once a run has written, the older ones are overtaken.
WritersOvertake ==
    \A t, u \in Threads :
      run[t].pc \in {"save", "add"} /\ t \in newer[u] /\ Underway(u) => u \in overtaken

RunInv == RuleTypeOK /\ LoadsFit /\ ReadsAreOrdered /\ WritersOvertake

\* Nothing has gone wrong that the code does not claim to survive.
Clean == ~crossed /\ ruleFaults["db"] = 0

\* A run that writes and is not overtaken has its instance for itself: the enforcer
\* stays empty until it is saved, and then holds of the scope what the table holds.
WritesInStep ==
    Clean => \A t \in Threads \ overtaken :
               /\ At(t, "save") => mem[t[1]] = {}
               /\ At(t, "add") => \A r \in Rules : Covers(t, r) => (r \in table <=> r \in mem[t[1]])

-----------------------------------------------------------------------------
(* Where the projection of a rule stands                                      *)

\* When the run is over, the table holds the rule.
WillHold(t, r) == r \in run[t].todo \/ (At(t, "add") /\ r \in table)

\* The run has yet to read whether the rule holds.
WillRead(t, r) == At(t, "readPermissions") /\ r \in Permissions

Handles(t, r) == Underway(t) /\ Covers(t, r)

\* An overtaken run cannot end but by crossing a newer one or by a crash.
OvertakenRuns == {t \in overtaken : Underway(t)}

EventDue(r) == \E s \in Scopes : events[s] > 0 /\ r \in InScope(Rules, s)

RunDue(threads, r) == \E t \in threads : At(t, "readRoles") /\ Covers(t, r)

Awaited(threads, r) == EventDue(r) \/ RunDue(threads, r) \/ OvertakenRuns # {}

\* The run leaves the rule as the relations have it.
Right(t, r) == WillRead(t, r) \/ ((WillHold(t, r) => r \in truth) /\ (r \in Active(truth) => WillHold(t, r)))

Wrong(t, r) == Handles(t, r) /\ ~Right(t, r)

\* A run that is right about the rule is newer than all that are wrong; or the table
\* is right, and so is every run that may still write the rule.
Settled(r) ==
    \/ \E t \in Threads : /\ Handles(t, r) /\ Right(t, r)
                          /\ \A u \in Threads : Wrong(u, r) => t \in newer[u]
    \/ /\ r \in table => r \in truth
       /\ r \in Active(truth) => r \in table
       /\ \A u \in Threads : ~Wrong(u, r)

RulesSettle == Clean => \A r \in Rules \ orphaned : Awaited(Threads, r) \/ Settled(r)

\* A binding that is given again has an event of its own.
OrphansAreGone == orphaned \cap truth = {}

TableInv == RunInv /\ WritesInStep /\ OrphansAreGone /\ RulesSettle

-----------------------------------------------------------------------------
(* Where the revocation of a rule stands                                      *)

Consumers == {t \in Threads : t[2] = Consumer}

Faultless == ~crossed /\ \A k \in RuleFaultKinds : ruleFaults[k] = 0

Broadcasting == \E t \in Threads : At(t, "broadcast")

\* A run would bring the rule back.
Revives(t, r) == Handles(t, r) /\ ~WillRead(t, r) /\ WillHold(t, r)

\* A consumer's run without the rule is newer than all that would bring it back; or
\* the table is without it, no run brings it back, and every enforcer that holds it
\* is about to be told.
Forgotten(r) ==
    \/ \E t \in Consumers : /\ Handles(t, r) /\ ~Revives(t, r)
                            /\ \A u \in Threads : Revives(u, r) => t \in newer[u]
    \/ /\ r \notin table
       /\ \A u \in Threads : ~Revives(u, r)
       /\ \A i \in Instances : r \in mem[i] => (reloads[i] > 0 \/ Broadcasting)

RevocationsSettle ==
    Faultless => \A r \in Rules \ (truth \cup orphaned) : Awaited(Consumers, r) \/ Forgotten(r)

RevocationInv == TableInv /\ RevocationsSettle

-----------------------------------------------------------------------------
(* What the actions do                                                        *)

Run == [pc : RunPCs, scope : Scopes, todo : SUBSET Rules]

\* A step of a run changes its place and its load.
LEMMA StepIs ==
    ASSUME run \in [Threads -> Run], NEW t \in Threads, NEW pc \in RunPCs,
           NEW todo \in SUBSET Rules, Step(t, pc, todo)
    PROVE  /\ run' \in [Threads -> Run]
           /\ run'[t].pc = pc /\ run'[t].todo = todo /\ run'[t].scope = run[t].scope
           /\ \A u \in Threads \ {t} : run'[u] = run[u]
<1>1. PICK row : row = [run[t] EXCEPT !.pc = pc, !.todo = todo]
  OBVIOUS
<1>2. row \in Run /\ row.pc = pc /\ row.todo = todo /\ row.scope = run[t].scope
  BY <1>1 DEF Run
<1>3. run' = [run EXCEPT ![t] = row]
  BY <1>1 DEF Step
<1>. QED
  BY <1>2, <1>3

LEMMA StartIs ==
    ASSUME run \in [Threads -> Run], NEW t \in Threads, NEW scope \in Scopes, Start(t, scope)
    PROVE  /\ run' \in [Threads -> Run]
           /\ run'[t].pc = "readRoles" /\ run'[t].scope = scope /\ run'[t].todo = {}
           /\ \A u \in Threads \ {t} : run'[u] = run[u]
<1>1. PICK row : row = [pc |-> "readRoles", scope |-> scope, todo |-> {}]
  OBVIOUS
<1>2. row \in Run /\ row.pc = "readRoles" /\ row.scope = scope /\ row.todo = {}
  BY <1>1 DEF Run, RunPCs
<1>3. run' = [run EXCEPT ![t] = row]
  BY <1>1 DEF Start
<1>. QED
  BY <1>2, <1>3

LEMMA IdleIs == /\ Idle \in Run /\ Idle.pc = "idle" /\ Idle.todo = {} /\ Idle.scope = Graph
                /\ [Idle EXCEPT !.pc = "readRoles"] \in Run
                /\ [Idle EXCEPT !.pc = "readRoles"].pc = "readRoles"
                /\ [Idle EXCEPT !.pc = "readRoles"].todo = {}
                /\ [Idle EXCEPT !.pc = "readRoles"].scope = Graph
  BY DEF Idle, Run, RunPCs, Scopes

\* A subject's scope is its bindings, that of a rebuild everything.
LEMMA ScopesAre ==
    /\ InScope(Rules, Graph) = Rules
    /\ \A s \in Scopes : \A rules : InScope(rules, s) \subseteq rules
    /\ \A s \in Subjects : InScope(Rules, s) = {s} \X Roles
    /\ \A s \in Subjects : \A rules :
          rules \subseteq Rules => InScope(rules, s) = rules \cap InScope(Rules, s)
<1>1. \A s \in Subjects : s # Graph /\ {s} \X Roles \subseteq Rules
  BY PermissionAssumption DEF Rules, Bindings
<1>. QED
  BY <1>1 DEF InScope

-----------------------------------------------------------------------------
(* Types                                                                      *)

\* The initial state is of the declared types.
LEMMA TypesStart == RuleInit => RuleTypeOK
<1>. SUFFICES ASSUME RuleInit PROVE RuleTypeOK
  OBVIOUS
<1>1. run \in [Threads -> Run]
  BY IdleIs DEF RuleInit
<1>. QED
  BY <1>1 DEF RuleInit, RuleTypeOK, Run

\* What a run carries into its next step are rules.
LEMMA LoadsAreRules ==
    ASSUME RuleTypeOK, NEW t \in Threads
    PROVE  /\ run[t] \in Run /\ run[t].todo \subseteq Rules /\ run[t].scope \in Scopes
           /\ t[1] \in Instances
           /\ NextRules(t) \subseteq run[t].todo
           /\ Rest(t) \in RunPCs /\ Adding(t) \in RunPCs
           /\ Active(InScope(truth \cap Bindings, Scope(t))) \subseteq Rules
<1>1. run[t] \in Run /\ t[1] \in Instances
  BY DEF RuleTypeOK, Run, Threads
<1>2. Rest(t) \in RunPCs /\ Adding(t) \in RunPCs
  BY DEF Rest, Adding, RunPCs
<1>3. Active(InScope(truth \cap Bindings, Scope(t))) \subseteq Rules
  BY DEF Active, InScope, Rules
<1>. QED
  BY <1>1, <1>2, <1>3 DEF Run, NextRules, Scope

LEMMA AbortIs ==
    ASSUME run \in [Threads -> Run], NEW t \in Threads, Abort(t)
    PROVE  /\ run' \in [Threads -> Run]
           /\ run'[t].pc = "idle"
           /\ \A u \in Threads \ {t} : run'[u] = run[u]
  BY IdleIs DEF Abort

LEMMA Typing == RuleTypeOK /\ [RuleNext]_ruleVars => RuleTypeOK'
<1>. SUFFICES ASSUME RuleTypeOK, [RuleNext]_ruleVars PROVE RuleTypeOK'
  OBVIOUS
<1>. USE PermissionAssumption
<1>0. run \in [Threads -> Run]
  BY DEF RuleTypeOK, Run
<1>f. ASSUME NEW k \in RuleFaultKinds, RuleFault(k)
      PROVE  ruleFaults' \in [RuleFaultKinds -> Nat]
  BY <1>f DEF RuleTypeOK, RuleFault
<1>g. "db" \in RuleFaultKinds /\ "redis" \in RuleFaultKinds /\ "message" \in RuleFaultKinds
      /\ "crash" \in RuleFaultKinds
  BY DEF RuleFaultKinds
<1>p. ASSUME run' \in [Threads -> Run]
      PROVE  run' \in [Threads -> [pc : RunPCs, scope : Scopes, todo : SUBSET Rules]]
  BY <1>p DEF Run
<1>e. ASSUME Edit PROVE edits' \in Nat
  BY <1>e DEF Edit, RuleTypeOK
<1>b. ASSUME NEW t \in Threads, BeginsAfterAll(t)
      PROVE  /\ newer' \in [Threads -> SUBSET Threads]
             /\ overtaken' \subseteq Threads /\ crossed' \in BOOLEAN
             /\ orphaned' \subseteq Bindings
  BY <1>b DEF BeginsAfterAll, RuleTypeOK
<1>w. ASSUME NEW t \in Threads, Writes(t)
      PROVE  /\ newer' \in [Threads -> SUBSET Threads]
             /\ overtaken' \subseteq Threads /\ crossed' \in BOOLEAN
             /\ orphaned' \subseteq Bindings
  BY <1>w DEF Writes, RuleTypeOK
<1>c. RunPCs = {"idle", "readRoles", "readPermissions", "erase", "save", "add", "broadcast"}
  BY DEF RunPCs
<1>1. CASE ChangeGraph
  <2>1. truth' \subseteq Rules
    BY <1>1 DEF ChangeGraph, RuleTypeOK, Rules
  <2>2. events' \in [Scopes -> Nat]
    BY <1>1 DEF ChangeGraph, RuleTypeOK, Scopes
  <2>. QED
    BY <1>1, <2>1, <2>2, <1>e DEF ChangeGraph, RuleTypeOK, NoRuleFault, ghosts, order
<1>2. CASE ChangeRole
  <2>1. enabled' \subseteq Roles
    BY <1>2 DEF ChangeRole, RuleTypeOK
  <2>2. events' \in [Scopes -> Nat]
    BY <1>2 DEF ChangeRole, RuleTypeOK, Scopes
  <2>. QED
    BY <1>2, <2>1, <2>2, <1>e DEF ChangeRole, RuleTypeOK, NoRuleFault, ghosts, order
<1>3. ASSUME NEW t \in Threads, ChangeBinding(t) PROVE RuleTypeOK'
  <2>1. PICK s \in Subjects, new \in SUBSET Roles :
              /\ truth' = (truth \ ({s} \X Roles)) \cup ({s} \X new)
              /\ events' = [events EXCEPT ![s] = @ + 1]
              /\ Start(t, s)
    BY <1>3 DEF ChangeBinding
  <2>2. truth' \subseteq Rules
    BY <2>1 DEF RuleTypeOK, Rules, Bindings
  <2>3. events' \in [Scopes -> Nat]
    BY <2>1 DEF RuleTypeOK, Scopes
  <2>4. run' \in [Threads -> Run]
    BY <1>0, <2>1, StartIs DEF Scopes
  <2>. QED
    BY <1>3, <2>2, <2>3, <2>4, <1>e, <1>p DEF ChangeBinding, RuleTypeOK, NoRuleFault, ghosts, order
<1>4. ASSUME NEW t \in Threads, HandleEvent(t) PROVE RuleTypeOK'
  <2>1. PICK s \in Scopes : /\ events[s] > 0
                            /\ events' = [events EXCEPT ![s] = @ - 1]
                            /\ Start(t, s)
    BY <1>4 DEF HandleEvent
  <2>3. events' \in [Scopes -> Nat]
    BY <2>1 DEF RuleTypeOK
  <2>4. run' \in [Threads -> Run]
    BY <1>0, <2>1, StartIs
  <2>. QED
    BY <1>4, <2>3, <2>4, <1>p DEF HandleEvent, RuleTypeOK, NoRuleFault, ghosts, order
<1>5. ASSUME NEW t \in Threads, ReadRoles(t) PROVE RuleTypeOK'
  <2>1. run' \in [Threads -> Run]
    <3>1. CASE Scope(t) = Graph
      <4>1. truth \cap Bindings \in SUBSET Rules
        BY DEF Rules
      <4>. QED
        BY <1>0, <1>5, <3>1, <4>1, <1>c, StepIs DEF ReadRoles
    <3>2. CASE Scope(t) # Graph
      BY <1>0, <1>5, <3>2, <1>c, StepIs, LoadsAreRules DEF ReadRoles
    <3>. QED
      BY <3>1, <3>2
  <2>. QED
    BY <1>5, <2>1, <1>b, <1>p DEF ReadRoles, RuleTypeOK, NoRuleFault
<1>6. ASSUME NEW t \in Threads, ReadPermissions(t) PROVE RuleTypeOK'
  <2>1. run[t].todo \cup (truth \cap Permissions) \in SUBSET Rules
    BY LoadsAreRules DEF Rules
  <2>2. run' \in [Threads -> Run]
    BY <1>0, <1>6, <2>1, <1>c, StepIs DEF ReadPermissions
  <2>. QED
    BY <1>6, <2>2, <1>p DEF ReadPermissions, RuleTypeOK, NoRuleFault, ghosts, order
<1>7. ASSUME NEW t \in Threads, Erase(t) PROVE RuleTypeOK'
  <2>1. run' \in [Threads -> Run]
    <3>1. CASE Scope(t) = Graph
      BY <1>0, <1>7, <3>1, <1>c, StepIs, LoadsAreRules DEF Erase
    <3>2. CASE Scope(t) # Graph
      BY <1>0, <1>7, <3>2, StepIs, LoadsAreRules DEF Erase
    <3>. QED
      BY <3>1, <3>2
  <2>2. mem' \in [Instances -> SUBSET Rules] /\ table' \subseteq Rules
    BY <1>7, LoadsAreRules DEF Erase, RuleTypeOK, Without
  <2>. QED
    BY <1>7, <2>1, <2>2, <1>w, <1>p DEF Erase, RuleTypeOK, NoRuleFault
<1>8. ASSUME NEW t \in Threads, SavePolicy(t) PROVE RuleTypeOK'
  <2>1. run' \in [Threads -> Run]
    BY <1>0, <1>8, StepIs, LoadsAreRules DEF SavePolicy
  <2>2. table' \subseteq Rules
    BY <1>8, LoadsAreRules DEF SavePolicy, RuleTypeOK
  <2>. QED
    BY <1>8, <2>1, <2>2, <1>w, <1>p DEF SavePolicy, RuleTypeOK, NoRuleFault
<1>9. ASSUME NEW t \in Threads, AddRule(t) PROVE RuleTypeOK'
  <2>1. PICK r \in NextRules(t) :
             /\ IF r \in mem[t[1]] THEN UNCHANGED <<table, mem>>
                                   ELSE /\ table' = table \cup {r}
                                        /\ mem' = [mem EXCEPT ![t[1]] = @ \cup {r}]
             /\ Step(t, IF run[t].todo = {r} THEN Rest(t) ELSE "add", run[t].todo \ {r})
    BY <1>9 DEF AddRule
  <2>2. r \in Rules /\ run[t].todo \ {r} \in SUBSET Rules
    BY LoadsAreRules
  <2>3. (IF run[t].todo = {r} THEN Rest(t) ELSE "add") \in RunPCs
    BY LoadsAreRules, <1>c
  <2>4. run' \in [Threads -> Run]
    BY <1>0, <2>1, <2>2, <2>3, StepIs
  <2>5. mem' \in [Instances -> SUBSET Rules] /\ table' \subseteq Rules
    BY <2>1, <2>2, LoadsAreRules DEF RuleTypeOK
  <2>. QED
    BY <1>9, <2>4, <2>5, <1>w, <1>p DEF AddRule, RuleTypeOK, NoRuleFault
<1>10. ASSUME NEW t \in Threads, AddRuleDuplicate(t) PROVE RuleTypeOK'
  BY <1>0, <1>10, <1>w, <1>p, AbortIs DEF AddRuleDuplicate, RuleTypeOK, NoRuleFault
<1>11. ASSUME NEW t \in Threads, Broadcast(t) PROVE RuleTypeOK'
  BY <1>0, <1>11, <1>p, AbortIs DEF Broadcast, RuleTypeOK, NoRuleFault, ghosts, order
<1>12. ASSUME NEW t \in Threads, BroadcastError(t) \/ RunError(t) PROVE RuleTypeOK'
  BY <1>0, <1>12, <1>f, <1>g, <1>p, AbortIs DEF BroadcastError, RunError, RuleTypeOK, ghosts, order
<1>13. ASSUME NEW i \in Instances, ReloadPolicy(i) PROVE RuleTypeOK'
  BY <1>13 DEF ReloadPolicy, RuleTypeOK, NoRuleFault
<1>14. ASSUME NEW i \in Instances, ReloadPolicyError(i) \/ LoseReload(i) PROVE RuleTypeOK'
  BY <1>14, <1>f, <1>g DEF ReloadPolicyError, LoseReload, RuleTypeOK, ghosts, order
<1>15. ASSUME NEW i \in Instances, Restart(i) PROVE RuleTypeOK'
  <2>1. run' \in [Threads -> Run]
    BY <1>0, <1>15, IdleIs DEF Restart
  <2>. QED
    BY <1>15, <2>1, <1>f, <1>g, <1>p DEF Restart, RuleTypeOK, ghosts, order
<1>16. CASE RepeatEvent
  BY <1>16, <1>f, <1>g DEF RepeatEvent, RuleTypeOK, ghosts, order
<1>17. CASE DissolveOrg
  <2>1. truth' \subseteq Rules /\ orphaned' \subseteq Bindings
    BY <1>17 DEF DissolveOrg, RuleTypeOK, Bindings
  <2>. QED
    BY <1>17, <2>1, <1>e DEF DissolveOrg, RuleTypeOK, NoRuleFault, order
<1>18. CASE UNCHANGED ruleVars
  BY <1>18 DEF ruleVars, RuleTypeOK, ghosts, order
<1>. QED
  BY <1>1, <1>2, <1>3, <1>4, <1>5, <1>6, <1>7, <1>8, <1>9, <1>10, <1>11, <1>12, <1>13, <1>14,
     <1>15, <1>16, <1>17, <1>18 DEF RuleNext, RunStep

-----------------------------------------------------------------------------
(* Three kinds of steps                                                       *)

\* No run reads or writes; some may start or end.
Calm ==
    /\ UNCHANGED <<newer, overtaken, table>>
    /\ \A u \in Threads : \/ run'[u] = run[u]
                          \/ run'[u].pc \in {"idle", "readRoles"} /\ run'[u].todo = {}

\* A run reads, and is the newest.
Reads(t) ==
    /\ At(t, "readRoles") /\ BeginsAfterAll(t)
    /\ UNCHANGED <<truth, enabled, table, mem, events, reloads, ruleFaults>>
    /\ run'[t].pc = (IF Scope(t) = Graph THEN "readPermissions" ELSE "erase")
    /\ run'[t].scope = run[t].scope
    /\ run'[t].todo = IF Scope(t) = Graph THEN truth \cap Bindings
                                          ELSE Active(InScope(truth \cap Bindings, Scope(t)))
    /\ \A u \in Threads \ {t} : run'[u] = run[u]

\* A run writes and goes on or ends.
Written(t) ==
    /\ run[t].pc \in {"erase", "save", "add"} /\ Writes(t)
    /\ UNCHANGED <<truth, enabled, events, reloads, ruleFaults>>
    /\ \/ /\ run'[t].pc \in {"save", "add", "idle", "broadcast"}
          /\ run'[t].pc = "save" => Scope(t) = Graph
          /\ run'[t].scope = run[t].scope /\ run'[t].todo \subseteq run[t].todo
       \/ run'[t] = Idle
    /\ \A u \in Threads \ {t} : run'[u] = run[u]

LEMMA CalmSteps ==
    ASSUME RuleTypeOK,
           \/ ChangeGraph \/ ChangeRole \/ DissolveOrg \/ RepeatEvent
           \/ \E t \in Threads : \/ ChangeBinding(t) \/ HandleEvent(t)
                                 \/ Broadcast(t) \/ BroadcastError(t) \/ RunError(t)
           \/ \E i \in Instances : ReloadPolicy(i) \/ ReloadPolicyError(i) \/ LoseReload(i) \/ Restart(i)
           \/ UNCHANGED ruleVars
    PROVE  Calm
<1>. USE PermissionAssumption
<1>0. run \in [Threads -> Run]
  BY DEF RuleTypeOK, Run
<1>1. CASE ChangeGraph \/ ChangeRole \/ DissolveOrg \/ RepeatEvent \/ UNCHANGED ruleVars
  BY <1>1 DEF ChangeGraph, ChangeRole, DissolveOrg, RepeatEvent, ruleVars, ghosts, order, Calm
<1>2. ASSUME NEW t \in Threads, ChangeBinding(t) PROVE Calm
  <2>1. PICK s \in Subjects : Start(t, s)
    BY <1>2 DEF ChangeBinding
  <2>. QED
    BY <1>0, <1>2, <2>1, StartIs DEF ChangeBinding, ghosts, order, Calm, Scopes
<1>3. ASSUME NEW t \in Threads, HandleEvent(t) PROVE Calm
  <2>1. PICK s \in Scopes : Start(t, s)
    BY <1>3 DEF HandleEvent
  <2>. QED
    BY <1>0, <1>3, <2>1, StartIs DEF HandleEvent, ghosts, order, Calm
<1>4. ASSUME NEW t \in Threads, Broadcast(t) \/ BroadcastError(t) \/ RunError(t) PROVE Calm
  <2>1. run'[t].pc = "idle" /\ run'[t].todo = {} /\ \A u \in Threads \ {t} : run'[u] = run[u]
    BY <1>0, <1>4, IdleIs DEF Broadcast, BroadcastError, RunError, Abort
  <2>. QED
    BY <1>4, <2>1 DEF Broadcast, BroadcastError, RunError, ghosts, order, Calm
<1>5. ASSUME NEW i \in Instances, ReloadPolicy(i) \/ ReloadPolicyError(i) \/ LoseReload(i) PROVE Calm
  BY <1>5 DEF ReloadPolicy, ReloadPolicyError, LoseReload, ghosts, order, Calm
<1>6. ASSUME NEW i \in Instances, Restart(i) PROVE Calm
  BY <1>6, IdleIs DEF Restart, ghosts, order, Calm
<1>. QED
  BY <1>1, <1>2, <1>3, <1>4, <1>5, <1>6

LEMMA ReadIs ==
    ASSUME RuleTypeOK, NEW t \in Threads, ReadRoles(t)
    PROVE  Reads(t)
<1>0. run \in [Threads -> Run]
  BY DEF RuleTypeOK, Run
<1>1. RunPCs = {"idle", "readRoles", "readPermissions", "erase", "save", "add", "broadcast"}
  BY DEF RunPCs
<1>2. CASE Scope(t) = Graph
  <2>1. truth \cap Bindings \in SUBSET Rules
    BY DEF Rules
  <2>2. Step(t, "readPermissions", truth \cap Bindings)
    BY <1>2 DEF ReadRoles
  <2>. QED
    BY <1>0, <1>1, <1>2, <2>1, <2>2, StepIs DEF ReadRoles, Reads, NoRuleFault
<1>3. CASE Scope(t) # Graph
  <2>. DEFINE load == Active(InScope(truth \cap Bindings, Scope(t)))
  <2>1. Step(t, "erase", load)
    BY <1>3 DEF ReadRoles
  <2>2. load \in SUBSET Rules
    BY LoadsAreRules
  <2>. HIDE DEF load
  <2>3. /\ run'[t].pc = "erase" /\ run'[t].todo = load /\ run'[t].scope = run[t].scope
        /\ \A u \in Threads \ {t} : run'[u] = run[u]
    BY <1>0, <1>1, <2>1, <2>2, StepIs
  <2>. QED
    BY <1>3, <2>3 DEF ReadRoles, Reads, NoRuleFault, load
<1>. QED
  BY <1>2, <1>3

LEMMA ReadPermissionsIs ==
    ASSUME RuleTypeOK, NEW t \in Threads, ReadPermissions(t)
    PROVE  /\ run'[t].pc = "erase" /\ run'[t].scope = run[t].scope
           /\ run'[t].todo = run[t].todo \cup (truth \cap Permissions)
           /\ \A u \in Threads \ {t} : run'[u] = run[u]
<1>0. run \in [Threads -> Run]
  BY DEF RuleTypeOK, Run
<1>1. "erase" \in RunPCs
  BY DEF RunPCs
<1>2. run[t].todo \cup (truth \cap Permissions) \in SUBSET Rules
  BY LoadsAreRules DEF Rules
<1>. QED
  BY <1>0, <1>1, <1>2, StepIs DEF ReadPermissions

LEMMA WrittenIs ==
    ASSUME RuleTypeOK, LoadsFit, NEW t \in Threads,
           Erase(t) \/ SavePolicy(t) \/ AddRule(t) \/ AddRuleDuplicate(t)
    PROVE  Written(t)
<1>0. run \in [Threads -> Run]
  BY DEF RuleTypeOK, Run
<1>1. RunPCs = {"idle", "readRoles", "readPermissions", "erase", "save", "add", "broadcast"}
  BY DEF RunPCs
<1>2. Adding(t) \in {"add", "idle", "broadcast"} /\ Rest(t) \in {"idle", "broadcast"}
  BY DEF Adding, Rest
<1>3. run[t].todo \in SUBSET Rules
  BY LoadsAreRules
<1>4. CASE Erase(t) \/ SavePolicy(t)
  <2>1. PICK pc \in {"save", "add", "idle", "broadcast"} :
             /\ Step(t, pc, run[t].todo)
             /\ pc = "save" => Scope(t) = Graph
    BY <1>2, <1>4 DEF Erase, SavePolicy
  <2>2. run'[t].pc = pc /\ run'[t].todo = run[t].todo /\ run'[t].scope = run[t].scope
        /\ \A u \in Threads \ {t} : run'[u] = run[u]
    BY <1>0, <1>1, <1>3, <2>1, StepIs
  <2>. QED
    BY <1>4, <2>1, <2>2 DEF Erase, SavePolicy, NoRuleFault, Written, At
<1>5. CASE AddRule(t)
  <2>1. PICK r \in NextRules(t) :
             Step(t, IF run[t].todo = {r} THEN Rest(t) ELSE "add", run[t].todo \ {r})
    BY <1>5 DEF AddRule
  <2>2. PICK pc \in {"add", "idle", "broadcast"} : pc = IF run[t].todo = {r} THEN Rest(t) ELSE "add"
    BY <1>2
  <2>3. run[t].todo \ {r} \in SUBSET Rules
    BY <1>3
  <2>4. run'[t].pc = pc /\ run'[t].todo = run[t].todo \ {r} /\ run'[t].scope = run[t].scope
        /\ \A u \in Threads \ {t} : run'[u] = run[u]
    BY <1>0, <1>1, <2>1, <2>2, <2>3, StepIs
  <2>. QED
    BY <1>5, <2>2, <2>4 DEF AddRule, NoRuleFault, Written, At
<1>6. CASE AddRuleDuplicate(t)
  BY <1>0, <1>6 DEF AddRuleDuplicate, Abort, NoRuleFault, Written, At
<1>. QED
  BY <1>4, <1>5, <1>6

\* Every step is of one of these kinds.
LEMMA StepKinds ==
    ASSUME RuleTypeOK, LoadsFit, [RuleNext]_ruleVars
    PROVE  \/ Calm
           \/ \E t \in Threads : Reads(t) \/ ReadPermissions(t) \/ Written(t)
<1>1. CASE \E t \in Threads : ReadRoles(t)
  BY <1>1, ReadIs
<1>2. CASE \E t \in Threads : ReadPermissions(t)
  BY <1>2
<1>3. CASE \E t \in Threads : Erase(t) \/ SavePolicy(t) \/ AddRule(t) \/ AddRuleDuplicate(t)
  BY <1>3, WrittenIs
<1>. QED
  BY <1>1, <1>2, <1>3, CalmSteps DEF RuleNext, RunStep

-----------------------------------------------------------------------------
(* Runs are ordered                                                           *)

\* A run in a calm step that is under way was so before, with the same load.
LEMMA CalmRuns ==
    ASSUME Calm, NEW u \in Threads, Underway(u)' \/ At(u, "broadcast")'
    PROVE  run'[u] = run[u] /\ (Underway(u)' => Underway(u))
  BY DEF Calm, Underway, At

LEMMA OrderKept == RunInv /\ [RuleNext]_ruleVars => LoadsFit' /\ ReadsAreOrdered' /\ WritersOvertake'
<1>. SUFFICES ASSUME RunInv, [RuleNext]_ruleVars
              PROVE  LoadsFit' /\ ReadsAreOrdered' /\ WritersOvertake'
  OBVIOUS
<1>0. RuleTypeOK /\ LoadsFit /\ ReadsAreOrdered /\ WritersOvertake /\ newer \in [Threads -> SUBSET Threads]
  BY DEF RunInv, RuleTypeOK
<1>1. CASE Calm
  <2>1. LoadsFit'
    BY <1>0, <1>1, CalmRuns DEF LoadsFit, Calm, At, Scope
  <2>2. ReadsAreOrdered'
    BY <1>0, <1>1, CalmRuns DEF ReadsAreOrdered, Calm
  <2>3. WritersOvertake'
    BY <1>0, <1>1, CalmRuns DEF WritersOvertake, Calm, Underway
  <2>. QED
    BY <2>1, <2>2, <2>3
<1>2. ASSUME NEW t \in Threads, Reads(t)
      PROVE  LoadsFit' /\ ReadsAreOrdered' /\ WritersOvertake'
  <2>1. LoadsFit'
    <3>1. Scope(t) \in Scopes
      BY <1>0, LoadsAreRules DEF Scope
    <3>2. run'[t].todo \subseteq InScope(Rules, Scope(t))
      <4>1. CASE Scope(t) = Graph
        BY <1>2, <4>1, ScopesAre DEF Reads, Rules
      <4>2. CASE Scope(t) # Graph
        BY <1>2, <3>1, <4>2 DEF Reads, Active, InScope, Rules
      <4>. QED
        BY <4>1, <4>2
    <3>3. At(t, "readPermissions")' => Scope(t)' = Graph /\ run'[t].todo \subseteq Bindings
      BY <1>2 DEF Reads, At, Scope
    <3>. QED
      BY <1>0, <1>2, <3>2, <3>3 DEF LoadsFit, Reads, At, Scope
  <2>2. \A u \in Threads : Underway(u)' => u = t \/ (Underway(u) /\ run'[u] = run[u])
    BY <1>2 DEF Reads, Underway
  <2>3. /\ newer'[t] = {}
        /\ \A u \in Threads \ {t} : newer'[u] = IF Underway(u) THEN newer[u] \cup {t} ELSE newer[u] \ {t}
        /\ overtaken' = overtaken \ {t}
    BY <1>0, <1>2 DEF Reads, BeginsAfterAll, Underway
  <2>4. ReadsAreOrdered'
    <3>1. \A u \in Threads : u \notin newer'[u]
      BY <1>0, <2>3 DEF ReadsAreOrdered
    <3>2. ASSUME NEW v \in Threads, NEW u \in Threads \ {v}, Underway(v)', Underway(u)'
          PROVE  v \in newer'[u] \/ u \in newer'[v]
      BY <1>0, <2>2, <2>3, <3>2 DEF ReadsAreOrdered
    <3>. QED
      BY <3>1, <3>2 DEF ReadsAreOrdered
  <2>5. WritersOvertake'
    <3>. SUFFICES ASSUME NEW v \in Threads, NEW u \in Threads,
                         run'[v].pc \in {"save", "add"}, v \in newer'[u], Underway(u)'
                  PROVE  u \in overtaken'
      BY DEF WritersOvertake
    <3>1. v # t
      BY <1>2 DEF Reads
    <3>2. u # t /\ Underway(u) /\ v \in newer[u] /\ run'[v] = run[v]
      BY <1>2, <2>2, <2>3, <3>1 DEF Reads
    <3>. QED
      BY <1>0, <2>3, <3>2 DEF WritersOvertake
  <2>. QED
    BY <2>1, <2>4, <2>5
<1>3. ASSUME NEW t \in Threads, ReadPermissions(t)
      PROVE  LoadsFit' /\ ReadsAreOrdered' /\ WritersOvertake'
  <2>1. /\ run'[t].pc = "erase" /\ run'[t].scope = run[t].scope
        /\ run'[t].todo = run[t].todo \cup (truth \cap Permissions)
        /\ \A u \in Threads \ {t} : run'[u] = run[u]
    BY <1>0, <1>3, ReadPermissionsIs
  <2>2. At(t, "readPermissions") /\ UNCHANGED <<newer, overtaken>>
    BY <1>3 DEF ReadPermissions, ghosts, order
  <2>3. LoadsFit'
    <3>1. Scope(t) = Graph /\ run[t].todo \subseteq Rules
      BY <1>0, <2>2, LoadsAreRules DEF LoadsFit
    <3>2. run'[t].todo \subseteq InScope(Rules, Scope(t))
      BY <2>1, <3>1, ScopesAre DEF Rules
    <3>. QED
      BY <1>0, <2>1, <3>2 DEF LoadsFit, At, Scope
  <2>4. ReadsAreOrdered'
    BY <1>0, <2>1, <2>2 DEF ReadsAreOrdered, Underway, At
  <2>5. WritersOvertake'
    BY <1>0, <2>1, <2>2 DEF WritersOvertake, Underway, At
  <2>. QED
    BY <2>3, <2>4, <2>5
<1>4. ASSUME NEW t \in Threads, Written(t)
      PROVE  LoadsFit' /\ ReadsAreOrdered' /\ WritersOvertake'
  <2>1. /\ newer' = newer /\ overtaken' = overtaken \cup {u \in Threads : t \in newer[u]}
        /\ Underway(t)
    BY <1>4 DEF Written, Writes, Underway
  <2>2. LoadsFit'
    <3>1. /\ run'[t].todo \subseteq InScope(Rules, Scope(t)')
          /\ At(t, "readPermissions")' => Scope(t)' = Graph /\ run'[t].todo \subseteq Bindings
          /\ At(t, "save")' => Scope(t)' = Graph
      BY <1>0, <1>4, IdleIs DEF Written, LoadsFit, At, Scope
    <3>. QED
      BY <1>0, <1>4, <3>1 DEF LoadsFit, Written, At, Scope
  <2>3. ReadsAreOrdered'
    BY <1>0, <1>4, <2>1 DEF ReadsAreOrdered, Written, Underway
  <2>4. WritersOvertake'
    BY <1>0, <1>4, <2>1 DEF WritersOvertake, Written, Underway
  <2>. QED
    BY <2>2, <2>3, <2>4
<1>. QED
  BY <1>0, <1>1, <1>2, <1>3, <1>4, StepKinds

-----------------------------------------------------------------------------
(* What a run that is not overtaken writes                                    *)

\* Faults and crossings are not forgotten.
LEMMA CleanBefore ==
    ASSUME RuleTypeOK, [RuleNext]_ruleVars
    PROVE  (Clean' => Clean) /\ (Faultless' => Faultless /\ Clean)
<1>f. ASSUME NEW k \in RuleFaultKinds, RuleFault(k)
      PROVE  \A j \in RuleFaultKinds : ruleFaults'[j] = 0 => ruleFaults[j] = 0
  BY <1>f DEF RuleFault, RuleTypeOK
<1>1. "db" \in RuleFaultKinds /\ "redis" \in RuleFaultKinds /\ "message" \in RuleFaultKinds
      /\ "crash" \in RuleFaultKinds
  BY DEF RuleFaultKinds
<1>2. \A j \in RuleFaultKinds : ruleFaults'[j] = 0 => ruleFaults[j] = 0
  BY <1>1, <1>f DEF RuleNext, RunStep, ChangeGraph, ChangeRole, ChangeBinding, HandleEvent, ReadRoles,
     ReadPermissions, Erase, SavePolicy, AddRule, AddRuleDuplicate, Broadcast, BroadcastError,
     RunError, ReloadPolicy, ReloadPolicyError, LoseReload, Restart, RepeatEvent, ruleVars, NoRuleFault,
     DissolveOrg
<1>3. crossed => crossed'
  BY DEF RuleNext, RunStep, ChangeGraph, ChangeRole, ChangeBinding, HandleEvent, ReadRoles,
     ReadPermissions, Erase, SavePolicy, AddRule, AddRuleDuplicate, Broadcast, BroadcastError,
     RunError, ReloadPolicy, ReloadPolicyError, LoseReload, Restart, RepeatEvent, ruleVars, ghosts, order,
     BeginsAfterAll, Writes, DissolveOrg
<1>. QED
  BY <1>1, <1>2, <1>3 DEF Clean, Faultless

\* The other runs under way that it does not overtake are newer, and have not written.
LEMMA OthersAreNewer ==
    ASSUME RunInv, NEW t \in Threads, Written(t), t \notin overtaken,
           NEW u \in Threads \ {t}, Underway(u), u \notin overtaken'
    PROVE  /\ u \in newer[t] /\ t \notin newer[u]
           /\ run[u].pc \in {"readPermissions", "erase"} /\ run'[u] = run[u]
<1>1. Underway(t) /\ t \notin newer[u] /\ run'[u] = run[u]
  BY DEF Written, Writes, Underway
<1>2. u \in newer[t]
  BY <1>1 DEF RunInv, ReadsAreOrdered
<1>. QED
  BY <1>1, <1>2 DEF RunInv, WritersOvertake, Underway

\* Of its scope the run writes what it carries, and nothing else.
LEMMA WritesWhatItCarries ==
    ASSUME RunInv, WritesInStep, Clean, NEW t \in Threads, t \notin overtaken,
           Erase(t) \/ SavePolicy(t) \/ AddRule(t) \/ AddRuleDuplicate(t)
    PROVE  /\ run'[t].scope = run[t].scope
           /\ run'[t].pc \in {"save", "add", Rest(t)}
           /\ At(t, "save")' => mem'[t[1]] = {}
           /\ \A r \in Rules :
                /\ ~Covers(t, r) => (r \in table' <=> r \in table)
                /\ Covers(t, r) /\ Underway(t)' => (WillHold(t, r)' <=> WillHold(t, r))
                /\ Covers(t, r) /\ ~Underway(t)' => (r \in table' <=> WillHold(t, r))
                /\ \A i \in Instances :
                     r \in mem'[i] => r \in mem[i] \/ (Covers(t, r) /\ WillHold(t, r))
                /\ Covers(t, r) /\ At(t, "add")' => (r \in table' <=> r \in mem'[t[1]])
<1>. DEFINE Goal(r) ==
       /\ ~Covers(t, r) => (r \in table' <=> r \in table)
       /\ Covers(t, r) /\ Underway(t)' => (WillHold(t, r)' <=> WillHold(t, r))
       /\ Covers(t, r) /\ ~Underway(t)' => (r \in table' <=> WillHold(t, r))
       /\ \A i \in Instances : r \in mem'[i] => r \in mem[i] \/ (Covers(t, r) /\ WillHold(t, r))
       /\ Covers(t, r) /\ At(t, "add")' => (r \in table' <=> r \in mem'[t[1]])
<1>0. /\ RuleTypeOK /\ LoadsFit /\ run \in [Threads -> Run] /\ mem \in [Instances -> SUBSET Rules]
      /\ t[1] \in Instances /\ run[t].todo \in SUBSET Rules /\ Scope(t) \in Scopes
      /\ run[t].todo \subseteq InScope(Rules, Scope(t))
  BY LoadsAreRules DEF RunInv, RuleTypeOK, Run, LoadsFit, Scope
<1>p. /\ RunPCs = {"idle", "readRoles", "readPermissions", "erase", "save", "add", "broadcast"}
      /\ Rest(t) \in {"idle", "broadcast"}
  BY DEF RunPCs, Rest
<1>a. Adding(t) \in {"add", Rest(t)} /\ (Adding(t) = Rest(t) <=> run[t].todo = {})
  BY <1>p DEF Adding
<1>1. CASE Erase(t) /\ Scope(t) = Graph
  <2>1. Step(t, "save", run[t].todo) /\ table' = table
        /\ mem' = [mem EXCEPT ![t[1]] = Without(@, Graph)]
    BY <1>1 DEF Erase
  <2>2. run'[t].pc = "save" /\ run'[t].todo = run[t].todo /\ run'[t].scope = run[t].scope
    BY <1>0, <1>p, <2>1, StepIs
  <2>3. mem'[t[1]] = {} /\ \A i \in Instances : mem'[i] \subseteq mem[i]
    BY <1>0, <2>1, ScopesAre DEF Without
  <2>4. ASSUME NEW r \in Rules PROVE Goal(r)
    <3>1. Covers(t, r)
      BY <1>1, ScopesAre DEF Covers
    <3>2. At(t, "erase") /\ Underway(t)' /\ ~At(t, "add")'
      BY <1>1, <2>2 DEF Erase, Underway, At
    <3>3. WillHold(t, r)' <=> WillHold(t, r)
      BY <2>2, <3>2 DEF WillHold, At
    <3>. QED
      BY <2>3, <3>1, <3>2, <3>3
  <2>. QED
    BY <2>2, <2>3, <2>4 DEF At
<1>2. CASE Erase(t) /\ Scope(t) # Graph
  <2>1. Step(t, Adding(t), run[t].todo) /\ table' = Without(table, Scope(t))
        /\ mem' = [mem EXCEPT ![t[1]] = Without(@, Scope(t))]
    BY <1>2 DEF Erase
  <2>2. run'[t].pc = Adding(t) /\ run'[t].todo = run[t].todo /\ run'[t].scope = run[t].scope
    BY <1>0, <1>p, <1>a, <2>1, StepIs
  <2>3. ASSUME NEW r \in Rules PROVE Goal(r)
    <3>1. /\ Covers(t, r) => r \notin table' /\ r \notin mem'[t[1]]
          /\ ~Covers(t, r) => (r \in table' <=> r \in table)
          /\ \A i \in Instances : r \in mem'[i] => r \in mem[i]
      BY <1>0, <2>1 DEF Without, Covers
    <3>2. At(t, "erase") /\ (Underway(t)' <=> At(t, "add")') /\ (~Underway(t)' => run[t].todo = {})
      BY <1>2, <1>p, <1>a, <2>2 DEF Erase, Underway, At
    <3>3. WillHold(t, r) <=> r \in run[t].todo
      BY <3>2 DEF WillHold, At
    <3>4. Covers(t, r) => (WillHold(t, r)' <=> r \in run[t].todo)
      BY <2>2, <3>1 DEF WillHold
    <3>. QED
      BY <3>1, <3>2, <3>3, <3>4
  <2>. QED
    BY <1>a, <1>p, <2>2, <2>3 DEF At
<1>3. CASE SavePolicy(t)
  <2>1. At(t, "save") /\ Step(t, Adding(t), run[t].todo) /\ table' = mem[t[1]] /\ mem' = mem
    BY <1>3 DEF SavePolicy
  <2>2. run'[t].pc = Adding(t) /\ run'[t].todo = run[t].todo /\ run'[t].scope = run[t].scope
    BY <1>0, <1>p, <1>a, <2>1, StepIs
  <2>3. mem[t[1]] = {} /\ Scope(t) = Graph
    BY <1>0, <2>1 DEF WritesInStep, LoadsFit
  <2>4. ASSUME NEW r \in Rules PROVE Goal(r)
    <3>1. Covers(t, r) /\ r \notin table' /\ r \notin mem'[t[1]]
      BY <2>1, <2>3, ScopesAre DEF Covers
    <3>2. (Underway(t)' <=> At(t, "add")') /\ (~Underway(t)' => run[t].todo = {})
      BY <1>p, <1>a, <2>2 DEF Underway, At
    <3>3. WillHold(t, r) <=> r \in run[t].todo
      BY <2>1 DEF WillHold, At
    <3>4. WillHold(t, r)' <=> r \in run[t].todo
      BY <2>2, <3>1 DEF WillHold
    <3>. QED
      BY <2>1, <3>1, <3>2, <3>3, <3>4
  <2>. QED
    BY <1>a, <1>p, <2>2, <2>4 DEF At
<1>4. CASE AddRule(t)
  <2>0. At(t, "add")
    BY <1>4 DEF AddRule
  <2>1. PICK x \in NextRules(t) :
             /\ IF x \in mem[t[1]] THEN UNCHANGED <<table, mem>>
                                   ELSE /\ table' = table \cup {x}
                                        /\ mem' = [mem EXCEPT ![t[1]] = @ \cup {x}]
             /\ Step(t, IF run[t].todo = {x} THEN Rest(t) ELSE "add", run[t].todo \ {x})
    BY <1>4 DEF AddRule
  <2>2. x \in run[t].todo /\ x \in Rules /\ Covers(t, x)
    BY <1>0, <2>1, LoadsAreRules DEF Covers
  <2>3. PICK pc \in {"add", Rest(t)} : pc = IF run[t].todo = {x} THEN Rest(t) ELSE "add"
    OBVIOUS
  <2>4. run[t].todo \ {x} \in SUBSET Rules
    BY <1>0
  <2>5. run'[t].pc = pc /\ run'[t].todo = run[t].todo \ {x} /\ run'[t].scope = run[t].scope
    BY <1>0, <1>p, <2>1, <2>3, <2>4, StepIs
  <2>6. \A r \in Rules : Covers(t, r) => (r \in table <=> r \in mem[t[1]])
    BY <2>0 DEF WritesInStep
  <2>7. \A r \in Rules : r \in table' <=> r \in table \/ r = x
    BY <2>1, <2>2, <2>6
  <2>8. \A i \in Instances : \A r \in Rules :
           r \in mem'[i] <=> r \in mem[i] \/ (i = t[1] /\ r = x)
    BY <1>0, <2>1
  <2>9. ASSUME NEW r \in Rules PROVE Goal(r)
    <3>1. (Underway(t)' <=> At(t, "add")') /\ (~Underway(t)' => run[t].todo = {x})
      BY <1>p, <2>3, <2>5 DEF Underway, At
    <3>2. WillHold(t, r) <=> r \in run[t].todo \/ r \in table
      BY <2>0 DEF WillHold, At
    <3>3. At(t, "add")' => (WillHold(t, r)' <=> r \in run[t].todo \ {x} \/ r \in table')
      BY <2>5 DEF WillHold, At
    <3>. QED
      BY <1>0, <2>2, <2>6, <2>7, <2>8, <3>1, <3>2, <3>3
  <2>. QED
    BY <1>p, <2>3, <2>5, <2>9 DEF At
<1>5. CASE AddRuleDuplicate(t)
  <2>1. PICK x \in NextRules(t) : At(t, "add") /\ x \in table \ mem[t[1]]
    BY <1>5 DEF AddRuleDuplicate
  <2>2. x \in Rules /\ Covers(t, x)
    BY <1>0, <2>1, LoadsAreRules DEF Covers
  <2>. QED
    BY <2>1, <2>2 DEF WritesInStep
<1>. QED
  BY <1>1, <1>2, <1>3, <1>4, <1>5

LEMMA InStepKept ==
    ASSUME RunInv, WritesInStep, [RuleNext]_ruleVars
    PROVE  WritesInStep'
<1>. SUFFICES ASSUME Clean' PROVE WritesInStep'
  BY DEF WritesInStep
<1>0. RuleTypeOK /\ LoadsFit /\ Clean /\ mem \in [Instances -> SUBSET Rules]
  BY CleanBefore DEF RunInv, RuleTypeOK
<1>1. ASSUME Calm, mem' = mem PROVE WritesInStep'
  <2>1. ASSUME NEW u \in Threads, run'[u].pc \in {"save", "add"} PROVE run'[u] = run[u]
    BY <1>1, <2>1 DEF Calm
  <2>. QED
    BY <1>0, <1>1, <2>1 DEF WritesInStep, Calm, At, Covers, Scope
<1>2. ASSUME NEW i \in Instances, ReloadPolicy(i) PROVE WritesInStep'
  <2>1. /\ run' = run /\ table' = table /\ overtaken' = overtaken
        /\ mem' = [mem EXCEPT ![i] = table]
        /\ \A t \in Threads : t[1] = i => ~At(t, "save")
    BY <1>2 DEF ReloadPolicy, Clean
  <2>2. \A t \in Threads : t[1] \in Instances
    BY DEF Threads
  <2>. QED
    BY <1>0, <2>1, <2>2 DEF WritesInStep, At, Covers, Scope
<1>3. ASSUME NEW i \in Instances, ReloadPolicyError(i) PROVE FALSE
  BY <1>0, <1>3 DEF ReloadPolicyError, RuleFault, RuleTypeOK, RuleFaultKinds, Clean
<1>4. ASSUME NEW i \in Instances, Restart(i) PROVE WritesInStep'
  <2>1. /\ table' = table /\ overtaken' = overtaken /\ mem' = [mem EXCEPT ![i] = table]
        /\ \A t \in Threads : run'[t].pc \in {"save", "add"} => t[1] # i /\ run'[t] = run[t]
    BY <1>4, IdleIs DEF Restart, ghosts, order
  <2>2. \A t \in Threads : t[1] \in Instances
    BY DEF Threads
  <2>. QED
    BY <1>0, <2>1, <2>2 DEF WritesInStep, At, Covers, Scope
<1>5. ASSUME NEW t \in Threads, ReadRoles(t) PROVE WritesInStep'
  <2>1. /\ mem' = mem /\ table' = table /\ overtaken' = overtaken \ {t}
        /\ run'[t].pc \notin {"save", "add"} /\ \A u \in Threads \ {t} : run'[u] = run[u]
    BY <1>0, <1>5, ReadIs DEF Reads, BeginsAfterAll
  <2>. QED
    BY <1>0, <2>1 DEF WritesInStep, At, Covers, Scope
<1>6. ASSUME NEW t \in Threads, ReadPermissions(t) PROVE WritesInStep'
  <2>1. /\ mem' = mem /\ table' = table /\ overtaken' = overtaken
        /\ run'[t].pc = "erase" /\ \A u \in Threads \ {t} : run'[u] = run[u]
    BY <1>0, <1>6, ReadPermissionsIs DEF ReadPermissions, ghosts, order
  <2>. QED
    BY <1>0, <2>1 DEF WritesInStep, At, Covers, Scope
<1>7. ASSUME NEW t \in Threads, Erase(t) \/ SavePolicy(t) \/ AddRule(t) \/ AddRuleDuplicate(t)
      PROVE  WritesInStep'
  <2>1. Written(t) /\ t \notin overtaken
    BY <1>0, <1>7, WrittenIs DEF Written, Writes, Clean
  <2>2. ASSUME NEW u \in Threads \ overtaken', run'[u].pc \in {"save", "add"} PROVE u = t
    <3>. SUFFICES ASSUME u # t PROVE FALSE
      OBVIOUS
    <3>1. Underway(u) /\ run'[u] = run[u]
      BY <2>1, <2>2 DEF Written, Underway
    <3>. QED
      BY <2>1, <2>2, <3>1, OthersAreNewer
  <2>3. /\ At(t, "save")' => mem'[t[1]] = {}
        /\ \A r \in Rules : At(t, "add")' => (Covers(t, r)' => (r \in table' <=> r \in mem'[t[1]]))
    BY <1>0, <1>7, <2>1, WritesWhatItCarries DEF Covers, Scope
  <2>. QED
    BY <2>2, <2>3 DEF WritesInStep, At
<1>8. ChangeGraph \/ ChangeRole \/ DissolveOrg \/ RepeatEvent \/ UNCHANGED ruleVars
      \/ (\E t \in Threads : ChangeBinding(t) \/ HandleEvent(t) \/ Broadcast(t)
                             \/ BroadcastError(t) \/ RunError(t))
      \/ (\E i \in Instances : LoseReload(i))
      => mem' = mem
  BY DEF ChangeGraph, ChangeRole, DissolveOrg, RepeatEvent, ruleVars, ChangeBinding, HandleEvent,
     Broadcast, BroadcastError, RunError, LoseReload
<1>9. CASE ChangeGraph \/ ChangeRole \/ DissolveOrg \/ RepeatEvent \/ UNCHANGED ruleVars
           \/ (\E t \in Threads : ChangeBinding(t) \/ HandleEvent(t) \/ Broadcast(t)
                                  \/ BroadcastError(t) \/ RunError(t))
           \/ (\E i \in Instances : LoseReload(i))
  BY <1>0, <1>1, <1>8, <1>9, CalmSteps
<1>. QED
  BY <1>2, <1>3, <1>4, <1>5, <1>6, <1>7, <1>9 DEF RuleNext, RunStep

-----------------------------------------------------------------------------
(* What the kinds of steps do to a rule                                       *)

\* A calm step in which no run under way ends, and the rule does not change.
LEMMA CalmKeeps ==
    ASSUME Calm, NEW r \in Rules, \A u \in Threads : Underway(u) => run'[u] = run[u],
           overtaken \subseteq Threads
    PROVE  /\ OvertakenRuns' = OvertakenRuns
           /\ \A u \in Threads :
                /\ Handles(u, r)' <=> Handles(u, r)
                /\ Handles(u, r) => /\ WillHold(u, r)' <=> WillHold(u, r)
                                    /\ WillRead(u, r)' <=> WillRead(u, r)
<1>1. \A u \in Threads : (Underway(u)' <=> Underway(u)) /\ (Underway(u) => run'[u] = run[u])
  BY DEF Calm, Underway
<1>2. table' = table /\ overtaken' = overtaken
  BY DEF Calm
<1>3. OvertakenRuns' = OvertakenRuns
  BY <1>1, <1>2 DEF OvertakenRuns
<1>. QED
  BY <1>1, <1>2, <1>3 DEF Handles, Covers, Scope, WillHold, WillRead, At

LEMMA CalmSettled ==
    ASSUME Calm, NEW r \in Rules, \A u \in Threads : Underway(u) => run'[u] = run[u],
           overtaken \subseteq Threads,
           r \in truth' <=> r \in truth, r \in Active(truth)' <=> r \in Active(truth), Settled(r)
    PROVE  Settled(r)'
<1>1. \A u \in Threads : /\ Handles(u, r)' <=> Handles(u, r)
                         /\ Handles(u, r) => (Right(u, r)' <=> Right(u, r))
  BY CalmKeeps DEF Right
<1>2. \A u \in Threads : Wrong(u, r)' <=> Wrong(u, r)
  BY <1>1 DEF Wrong
<1>3. table' = table /\ newer' = newer
  BY DEF Calm
<1>. QED
  BY <1>1, <1>2, <1>3 DEF Settled

\* A run that reads leaves the others as they are; if the rule is its business it is
\* the newest, and right.
LEMMA ReadKeeps ==
    ASSUME RuleTypeOK, NEW t \in Threads, Reads(t), NEW r \in Rules
    PROVE  /\ OvertakenRuns' = OvertakenRuns
           /\ ~Handles(t, r) /\ (Handles(t, r)' <=> Covers(t, r))
           /\ Covers(t, r) => /\ ~Revives(t, r)' \/ r \in truth
                              /\ Right(t, r)'
           /\ \A u \in Threads \ {t} :
                /\ Handles(u, r)' <=> Handles(u, r)
                /\ WillHold(u, r)' <=> WillHold(u, r)
                /\ WillRead(u, r)' <=> WillRead(u, r)
                /\ Underway(u) => t \in newer'[u]
                /\ \A v \in Threads \ {t} : v \in newer[u] => v \in newer'[u]
<1>0. /\ newer \in [Threads -> SUBSET Threads] /\ overtaken \subseteq Threads
      /\ run[t] \in Run /\ Scope(t) \in Scopes
  BY LoadsAreRules DEF RuleTypeOK, Scope
<1>1. /\ \A u \in Threads \ {t} : newer'[u] = IF Underway(u) THEN newer[u] \cup {t} ELSE newer[u] \ {t}
      /\ overtaken' = overtaken \ {t}
  BY <1>0 DEF Reads, BeginsAfterAll, Underway
<1>2. \A u \in Threads \ {t} : run'[u] = run[u] /\ table' = table
  BY DEF Reads
<1>3. ~Underway(t) /\ Underway(t)' /\ run'[t].scope = run[t].scope
  BY DEF Reads, Underway, At
<1>4. OvertakenRuns' = OvertakenRuns
  BY <1>0, <1>1, <1>2, <1>3 DEF OvertakenRuns, Underway
<1>5. ASSUME Covers(t, r)
      PROVE  Right(t, r)' /\ (~Revives(t, r)' \/ r \in truth)
  <2>0. UNCHANGED <<truth, enabled>> /\ Active(truth)' = Active(truth)
    BY DEF Reads, Active
  <2>1. CASE Scope(t) = Graph
    <3>1. At(t, "readPermissions")' /\ run'[t].todo = truth \cap Bindings
      BY <2>1 DEF Reads, At
    <3>2. CASE r \in Permissions
      BY <3>1, <3>2 DEF Right, WillRead, Revives
    <3>3. CASE r \in Bindings
      <4>1. WillHold(t, r)' <=> r \in truth
        BY <3>1, <3>3 DEF WillHold, At
      <4>. QED
        BY <2>0, <4>1 DEF Right, Revives, Active
    <3>. QED
      BY <3>2, <3>3 DEF Rules
  <2>2. CASE Scope(t) # Graph
    <3>0. Scope(t) \in Subjects
      BY <1>0, <2>2 DEF Scopes
    <3>1. At(t, "erase")' /\ run'[t].todo = Active(InScope(truth \cap Bindings, Scope(t)))
      BY <2>2 DEF Reads, At
    <3>2. r \in Bindings /\ r \in {Scope(t)} \X Roles
      BY <1>5, <2>2, <3>0, ScopesAre DEF Covers, Bindings
    <3>3. WillHold(t, r)' <=> r \in Active(truth)
      BY <2>2, <3>1, <3>2 DEF WillHold, At, Active, InScope
    <3>. QED
      BY <2>0, <3>3 DEF Right, Revives, Active
  <2>. QED
    BY <2>1, <2>2
<1>6. /\ ~Handles(t, r) /\ (Handles(t, r)' <=> Covers(t, r))
  BY <1>3 DEF Handles, Covers, Scope
<1>7. \A u \in Threads \ {t} : /\ Handles(u, r)' <=> Handles(u, r)
                               /\ WillHold(u, r)' <=> WillHold(u, r)
                               /\ WillRead(u, r)' <=> WillRead(u, r)
  BY <1>2 DEF Handles, Underway, Covers, Scope, WillHold, WillRead, At
<1>. QED
  BY <1>0, <1>1, <1>4, <1>5, <1>6, <1>7

\* A run that writes, overtaking nobody, leaves the others as they are: they are newer
\* and have not written.
LEMMA WriteKeeps ==
    ASSUME RunInv, WritesInStep, Clean, NEW t \in Threads, t \notin overtaken,
           Erase(t) \/ SavePolicy(t) \/ AddRule(t) \/ AddRuleDuplicate(t),
           OvertakenRuns' = {}, NEW r \in Rules
    PROVE  /\ OvertakenRuns = {} /\ UNCHANGED <<truth, enabled, events, reloads, newer>>
           /\ Handles(t, r) <=> Covers(t, r)
           /\ Handles(t, r)' <=> Covers(t, r) /\ Underway(t)'
           /\ ~WillRead(t, r) /\ ~WillRead(t, r)'
           /\ \A u \in Threads \ {t} :
                /\ run'[u] = run[u]
                /\ Handles(u, r)' <=> Handles(u, r)
                /\ Handles(u, r) => /\ WillHold(u, r)' <=> WillHold(u, r)
                                    /\ WillRead(u, r)' <=> WillRead(u, r)
                                    /\ u \in newer[t] /\ t \notin newer[u]
<1>0. /\ Written(t) /\ run'[t].scope = run[t].scope /\ run'[t].pc \in {"save", "add", Rest(t)}
      /\ RuleTypeOK
  BY WrittenIs, WritesWhatItCarries DEF RunInv
<1>1. /\ Underway(t) /\ ~At(t, "readPermissions") /\ ~At(t, "readPermissions")'
      /\ \A u \in Threads \ {t} : run'[u] = run[u]
      /\ overtaken \subseteq overtaken'
      /\ UNCHANGED <<truth, enabled, events, reloads, newer>>
  BY <1>0 DEF Written, Writes, Underway, At, Rest
<1>2. OvertakenRuns = {}
  BY <1>0, <1>1 DEF OvertakenRuns, Underway, RuleTypeOK
<1>3. \A u \in Threads \ {t} : Underway(u) => u \notin overtaken'
  BY <1>1 DEF OvertakenRuns, Underway
<1>4. ASSUME NEW u \in Threads \ {t}
      PROVE  /\ Handles(u, r)' <=> Handles(u, r)
             /\ Handles(u, r) => /\ WillHold(u, r)' <=> WillHold(u, r)
                                 /\ WillRead(u, r)' <=> WillRead(u, r)
                                 /\ u \in newer[t] /\ t \notin newer[u]
  <2>1. Handles(u, r)' <=> Handles(u, r)
    BY <1>1 DEF Handles, Underway, Covers, Scope
  <2>2. ASSUME Handles(u, r)
        PROVE  /\ u \in newer[t] /\ t \notin newer[u]
               /\ run[u].pc \in {"readPermissions", "erase"} /\ run'[u] = run[u]
    BY <1>0, <1>3, <2>2, OthersAreNewer DEF Handles
  <2>. QED
    BY <2>1, <2>2 DEF WillHold, WillRead, At
<1>5. /\ Handles(t, r) <=> Covers(t, r)
      /\ Handles(t, r)' <=> Covers(t, r) /\ Underway(t)'
  BY <1>0, <1>1 DEF Handles, Covers, Scope
<1>. QED
  BY <1>1, <1>2, <1>4, <1>5 DEF WillRead

-----------------------------------------------------------------------------
(* The table settles                                                          *)

\* A change of the relations sends an event whose scope covers what changed.
LEMMA ChangesAreAnnounced ==
    ASSUME RuleTypeOK, NEW r \in Rules
    PROVE  /\ ChangeGraph \/ ChangeRole => EventDue(r)'
           /\ (\E t \in Threads : ChangeBinding(t)) =>
                \/ EventDue(r)'
                \/ /\ r \in truth' <=> r \in truth
                   /\ r \in Active(truth)' <=> r \in Active(truth)
           /\ RepeatEvent /\ EventDue(r) => EventDue(r)'
<1>0. Graph \in Scopes /\ events \in [Scopes -> Nat]
  BY DEF Scopes, RuleTypeOK
<1>1. CASE ChangeGraph \/ ChangeRole
  <2>1. events' = [events EXCEPT ![Graph] = @ + 1]
    BY <1>1 DEF ChangeGraph, ChangeRole
  <2>2. events'[Graph] > 0
    BY <1>0, <2>1
  <2>3. r \in InScope(Rules, Graph)
    BY ScopesAre
  <2>. QED
    BY <1>0, <2>2, <2>3, PermissionAssumption DEF EventDue, ChangeGraph, ChangeRole, RepeatEvent
<1>2. ASSUME NEW t \in Threads, ChangeBinding(t)
      PROVE  \/ EventDue(r)'
             \/ /\ r \in truth' <=> r \in truth
                /\ r \in Active(truth)' <=> r \in Active(truth)
  <2>1. PICK s \in Subjects, new \in SUBSET Roles :
              /\ truth' = (truth \ ({s} \X Roles)) \cup ({s} \X new)
              /\ events' = [events EXCEPT ![s] = @ + 1]
    BY <1>2 DEF ChangeBinding
  <2>2. CASE r \in {s} \X Roles
    <3>1. events'[s] > 0 /\ s \in Scopes
      BY <1>0, <2>1 DEF Scopes
    <3>2. r \in InScope(Rules, s)
      BY <2>2, ScopesAre
    <3>. QED
      BY <3>1, <3>2 DEF EventDue
  <2>3. CASE r \notin {s} \X Roles
    <3>1. r \in truth' <=> r \in truth
      BY <2>1, <2>3
    <3>. QED
      BY <1>2, <3>1 DEF Active, ChangeBinding
  <2>. QED
    BY <2>2, <2>3
<1>3. RepeatEvent /\ EventDue(r) => EventDue(r)'
  <2>. SUFFICES ASSUME RepeatEvent, EventDue(r) PROVE EventDue(r)'
    OBVIOUS
  <2>1. PICK s \in Scopes : events[s] > 0 /\ events' = [events EXCEPT ![s] = @ + 1]
    BY DEF RepeatEvent
  <2>2. \A x \in Scopes : events[x] > 0 => events'[x] > 0
    BY <1>0, <2>1
  <2>. QED
    BY <2>2 DEF EventDue
<1>. QED
  BY <1>1, <1>2, <1>3

\* The consumer that takes the event off the stream will read.
LEMMA EventsAreTaken ==
    ASSUME RuleTypeOK, NEW r \in Rules, NEW t \in Threads, HandleEvent(t), EventDue(r)
    PROVE  EventDue(r)' \/ RunDue(Consumers, r)'
<1>1. PICK s \in Scopes : /\ events[s] > 0
                          /\ events' = [events EXCEPT ![s] = @ - 1]
                          /\ Start(t, s)
  BY DEF HandleEvent
<1>2. PICK x \in Scopes : events[x] > 0 /\ r \in InScope(Rules, x)
  BY DEF EventDue
<1>3. events \in [Scopes -> Nat] /\ run \in [Threads -> Run]
  BY DEF RuleTypeOK, Run
<1>4. CASE x = s
  <2>1. run'[t].pc = "readRoles" /\ run'[t].scope = s /\ t \in Consumers
    BY <1>1, <1>3, StartIs DEF HandleEvent, Consumers
  <2>. QED
    BY <1>2, <1>4, <2>1 DEF RunDue, At, Covers, Scope, Consumers
<1>5. CASE x # s
  BY <1>1, <1>2, <1>3, <1>5 DEF EventDue
<1>. QED
  BY <1>4, <1>5

\* A run that will read the rule still will, unless the step is its own or a crash.
LEMMA DueStays ==
    ASSUME NEW threads \in SUBSET Threads, NEW r \in Rules, RunDue(threads, r),
           \A u \in Threads : At(u, "readRoles") => run'[u] = run[u]
    PROVE  RunDue(threads, r)'
  BY DEF RunDue, At, Covers, Scope

\* A run that reads about the rule is the newest, and right about it.
LEMMA ReaderSettles ==
    ASSUME RuleTypeOK, NEW t \in Threads, Reads(t), NEW r \in Rules, Covers(t, r)
    PROVE  Settled(r)'
<1>1. Handles(t, r)' /\ Right(t, r)'
  BY ReadKeeps
<1>2. \A u \in Threads : Wrong(u, r)' => t \in newer'[u]
  BY <1>1, ReadKeeps DEF Wrong, Handles, Reads, Underway
<1>. QED
  BY <1>1, <1>2 DEF Settled

\* What DeleteOrg removed stops being orphaned when it is given again, with an event,
\* or when a consumer reads about it.
LEMMA OrphansFound ==
    ASSUME RuleTypeOK, OrphansAreGone, [RuleNext]_ruleVars, NEW r \in Rules, r \notin orphaned'
    PROVE  \/ r \notin orphaned
           \/ EventDue(r)'
           \/ \E t \in Consumers : Reads(t) /\ Covers(t, r)
<1>. SUFFICES ASSUME r \in orphaned
              PROVE  EventDue(r)' \/ \E t \in Consumers : Reads(t) /\ Covers(t, r)
  OBVIOUS
<1>0. r \notin truth
  BY DEF OrphansAreGone
<1>1. ASSUME NEW t \in Threads, ChangeBinding(t) PROVE EventDue(r)'
  <2>1. r \in truth'
    BY <1>1 DEF ChangeBinding
  <2>. QED
    BY <1>0, <1>1, <2>1, ChangesAreAnnounced
<1>2. ASSUME NEW t \in Threads, ReadRoles(t)
      PROVE  \E x \in Consumers : Reads(x) /\ Covers(x, r)
  <2>1. Reads(t)
    BY <1>2, ReadIs
  <2>2. t[2] = Consumer /\ r \in InScope(Rules, Scope(t))
    BY <1>2 DEF ReadRoles, BeginsAfterAll
  <2>. QED
    BY <2>1, <2>2 DEF Consumers, Covers
<1>3. \/ \E t \in Threads : ChangeBinding(t) \/ ReadRoles(t)
      \/ orphaned \subseteq orphaned'
  BY DEF RuleNext, RunStep, ChangeGraph, ChangeRole, DissolveOrg, HandleEvent, ReadPermissions,
     Erase, SavePolicy, AddRule, AddRuleDuplicate, Broadcast, BroadcastError, RunError, ReloadPolicy,
     ReloadPolicyError, LoseReload, Restart, RepeatEvent, ruleVars, ghosts, Writes
<1>. QED
  BY <1>1, <1>2, <1>3

\* Nothing but DeleteOrg leaves a binding orphaned, and it takes it from the relations.
LEMMA OrphansKept ==
    ASSUME RuleTypeOK, OrphansAreGone, [RuleNext]_ruleVars
    PROVE  OrphansAreGone'
<1>1. CASE ChangeGraph
  BY <1>1, PermissionAssumption DEF ChangeGraph, OrphansAreGone, RuleTypeOK, ghosts
<1>2. CASE DissolveOrg
  BY <1>2 DEF DissolveOrg, OrphansAreGone
<1>3. CASE \E t \in Threads : ChangeBinding(t)
  BY <1>3 DEF ChangeBinding, OrphansAreGone
<1>4. \/ ChangeGraph \/ DissolveOrg \/ \E t \in Threads : ChangeBinding(t)
      \/ truth' = truth /\ orphaned' \subseteq orphaned
  BY DEF RuleNext, RunStep, ChangeRole, HandleEvent, ReadRoles, BeginsAfterAll, ReadPermissions,
     Erase, SavePolicy, AddRule, AddRuleDuplicate, Broadcast, BroadcastError, RunError, ReloadPolicy,
     ReloadPolicyError, LoseReload, Restart, RepeatEvent, ruleVars, ghosts, Writes
<1>. QED
  BY <1>1, <1>2, <1>3, <1>4 DEF OrphansAreGone

\* What DeleteOrg did not take away is as it was.
LEMMA DissolvingIsCalm ==
    ASSUME RuleTypeOK, DissolveOrg, NEW r \in Rules, r \notin orphaned'
    PROVE  /\ Calm /\ UNCHANGED <<run, events, mem, reloads>>
           /\ r \in truth' <=> r \in truth
           /\ r \in Active(truth)' <=> r \in Active(truth)
<1>1. Calm /\ UNCHANGED <<run, events, mem, reloads, enabled>>
  BY CalmSteps DEF DissolveOrg
<1>2. r \in truth' <=> r \in truth
  BY DEF DissolveOrg
<1>. QED
  BY <1>1, <1>2 DEF Active

LEMMA RulesSettleKept ==
    ASSUME TableInv, [RuleNext]_ruleVars
    PROVE  RulesSettle'
<1>. SUFFICES ASSUME Clean', NEW r \in Rules, r \notin orphaned'
              PROVE  (Awaited(Threads, r) \/ Settled(r))'
  BY DEF RulesSettle
<1>o. SUFFICES ASSUME r \notin orphaned PROVE (Awaited(Threads, r) \/ Settled(r))'
  BY OrphansFound, ReaderSettles DEF Awaited, Consumers, TableInv, RunInv
<1>0. /\ RunInv /\ RuleTypeOK /\ LoadsFit /\ WritesInStep /\ Clean
      /\ (Awaited(Threads, r) \/ Settled(r)) /\ overtaken \subseteq Threads
      /\ Consumers \subseteq Threads /\ run \in [Threads -> Run]
  BY <1>o, CleanBefore DEF TableInv, RunInv, RuleTypeOK, RulesSettle, Consumers, Run
<1>a. UNCHANGED <<truth, enabled>> => (r \in Active(truth)' <=> r \in Active(truth))
  BY DEF Active
<1>1. CASE ChangeGraph \/ ChangeRole
  BY <1>0, <1>1, ChangesAreAnnounced DEF Awaited
<1>2. ASSUME NEW t \in Threads, ChangeBinding(t) PROVE (Awaited(Threads, r) \/ Settled(r))'
  <2>1. PICK s \in Subjects : Start(t, s) /\ events' = [events EXCEPT ![s] = @ + 1]
    BY <1>2 DEF ChangeBinding
  <2>2. Calm /\ At(t, "idle") /\ \A u \in Threads \ {t} : run'[u] = run[u]
    BY <1>0, <1>2, <2>1, CalmSteps, StartIs DEF ChangeBinding, Scopes
  <2>3. \A u \in Threads : Underway(u) \/ At(u, "readRoles") => run'[u] = run[u]
    BY <2>2 DEF Underway, At
  <2>4. EventDue(r) => EventDue(r)'
    BY <1>0, <2>1 DEF EventDue, RuleTypeOK, Scopes
  <2>5. OvertakenRuns' = OvertakenRuns
    BY <1>0, <2>2, <2>3, CalmKeeps
  <2>6. Awaited(Threads, r) => Awaited(Threads, r)'
    BY <2>3, <2>4, <2>5, DueStays DEF Awaited
  <2>. QED
    BY <1>0, <1>2, <2>2, <2>3, <2>6, CalmSettled, ChangesAreAnnounced DEF Awaited
<1>3. ASSUME NEW t \in Threads, HandleEvent(t) PROVE (Awaited(Threads, r) \/ Settled(r))'
  <2>1. PICK s \in Scopes : Start(t, s)
    BY <1>3 DEF HandleEvent
  <2>2. Calm /\ At(t, "idle") /\ \A u \in Threads \ {t} : run'[u] = run[u]
    BY <1>0, <1>3, <2>1, CalmSteps, StartIs DEF HandleEvent
  <2>3. \A u \in Threads : Underway(u) \/ At(u, "readRoles") => run'[u] = run[u]
    BY <2>2 DEF Underway, At
  <2>4. EventDue(r) => EventDue(r)' \/ RunDue(Threads, r)'
    BY <1>0, <1>3, EventsAreTaken DEF RunDue
  <2>5. OvertakenRuns' = OvertakenRuns
    BY <1>0, <2>2, <2>3, CalmKeeps
  <2>6. Awaited(Threads, r) => Awaited(Threads, r)'
    BY <2>3, <2>4, <2>5, DueStays DEF Awaited
  <2>7. UNCHANGED <<truth, enabled>>
    BY <1>3 DEF HandleEvent
  <2>. QED
    BY <1>0, <1>a, <2>2, <2>3, <2>6, <2>7, CalmSettled
<1>4. CASE \/ \E t \in Threads : Broadcast(t) \/ BroadcastError(t)
           \/ \E i \in Instances : ReloadPolicy(i) \/ LoseReload(i)
           \/ RepeatEvent \/ UNCHANGED ruleVars
  <2>1. /\ Calm /\ UNCHANGED <<truth, enabled>> /\ (EventDue(r) => EventDue(r)')
        /\ \A u \in Threads : Underway(u) \/ At(u, "readRoles") => run'[u] = run[u]
    <3>1. ASSUME NEW t \in Threads, Broadcast(t) \/ BroadcastError(t)
          PROVE  /\ Calm /\ UNCHANGED <<truth, enabled, events>>
                 /\ \A u \in Threads : Underway(u) \/ At(u, "readRoles") => run'[u] = run[u]
      <4>1. At(t, "broadcast") /\ \A u \in Threads \ {t} : run'[u] = run[u]
        BY <1>0, <3>1, AbortIs DEF Broadcast, BroadcastError
      <4>. QED
        BY <1>0, <3>1, <4>1, CalmSteps DEF Broadcast, BroadcastError, Underway, At
    <3>2. ASSUME NEW i \in Instances, ReloadPolicy(i) \/ LoseReload(i)
          PROVE  Calm /\ UNCHANGED <<truth, enabled, events, run>>
      BY <1>0, <3>2, CalmSteps DEF ReloadPolicy, LoseReload
    <3>3. ASSUME RepeatEvent
          PROVE  Calm /\ UNCHANGED <<truth, enabled, run>> /\ (EventDue(r) => EventDue(r)')
      BY <1>0, <3>3, CalmSteps, ChangesAreAnnounced DEF RepeatEvent
    <3>4. ASSUME UNCHANGED ruleVars
          PROVE  Calm /\ UNCHANGED <<truth, enabled, events, run>>
      BY <1>0, <3>4, CalmSteps DEF ruleVars
    <3>5. UNCHANGED events => (EventDue(r) => EventDue(r)')
      BY DEF EventDue
    <3>. QED
      BY <1>4, <3>1, <3>2, <3>3, <3>4, <3>5
  <2>2. OvertakenRuns' = OvertakenRuns
    BY <1>0, <2>1, CalmKeeps
  <2>3. Awaited(Threads, r) => Awaited(Threads, r)'
    BY <2>1, <2>2, DueStays DEF Awaited
  <2>. QED
    BY <1>0, <1>a, <2>1, <2>3, CalmSettled
<1>5. ASSUME \/ \E t \in Threads : RunError(t)
             \/ \E i \in Instances : ReloadPolicyError(i)
      PROVE  FALSE
  BY <1>0, <1>5 DEF RunError, ReloadPolicyError, RuleFault, RuleTypeOK, RuleFaultKinds, Clean
<1>6. ASSUME NEW i \in Instances, Restart(i) PROVE (Awaited(Threads, r) \/ Settled(r))'
  <2>1. <<i, Startup>> \in Threads /\ <<i, Startup>>[1] = i /\ <<i, Startup>>[2] = Startup
    BY DEF Threads
  <2>2. run'[<<i, Startup>>].pc = "readRoles" /\ run'[<<i, Startup>>].scope = Graph
    BY <1>6, <2>1, IdleIs DEF Restart
  <2>. QED
    BY <2>1, <2>2, ScopesAre DEF Awaited, RunDue, At, Covers, Scope
<1>d. CASE DissolveOrg
  <2>1. /\ Calm /\ UNCHANGED <<run, events>> /\ (r \in truth' <=> r \in truth)
        /\ r \in Active(truth)' <=> r \in Active(truth)
    BY <1>0, <1>d, DissolvingIsCalm
  <2>2. OvertakenRuns' = OvertakenRuns
    BY <1>0, <2>1, CalmKeeps
  <2>3. EventDue(r) => EventDue(r)'
    BY <2>1 DEF EventDue
  <2>4. Awaited(Threads, r) => Awaited(Threads, r)'
    BY <2>1, <2>2, <2>3, DueStays DEF Awaited
  <2>. QED
    BY <1>0, <2>1, <2>4, CalmSettled
<1>7. ASSUME NEW t \in Threads, ReadRoles(t) PROVE (Awaited(Threads, r) \/ Settled(r))'
  <2>0. Reads(t)
    BY <1>0, <1>7, ReadIs
  <2>1. UNCHANGED <<truth, enabled, table, events>> /\ \A u \in Threads \ {t} : run'[u] = run[u]
    BY <2>0 DEF Reads
  <2>2. \A u \in Threads \ {t} : Right(u, r)' <=> Right(u, r)
    BY <1>0, <1>a, <2>0, <2>1, ReadKeeps DEF Right
  <2>3. \A u \in Threads \ {t} : Wrong(u, r)' <=> Wrong(u, r)
    BY <1>0, <2>0, <2>2, ReadKeeps DEF Wrong
  <2>4. CASE Covers(t, r)
    BY <1>0, <2>0, <2>4, ReaderSettles
  <2>5. CASE ~Covers(t, r)
    <3>1. Awaited(Threads, r) => Awaited(Threads, r)'
      <4>1. EventDue(r) => EventDue(r)'
        BY <2>1 DEF EventDue
      <4>2. RunDue(Threads, r) => RunDue(Threads, r)'
        BY <2>1, <2>5 DEF RunDue, At, Covers, Scope
      <4>. QED
        BY <1>0, <2>0, <4>1, <4>2, ReadKeeps DEF Awaited
    <3>2. ~Wrong(t, r)' /\ ~Handles(t, r)
      BY <1>0, <2>0, <2>5, ReadKeeps DEF Wrong
    <3>3. ASSUME NEW v \in Threads, Handles(v, r), Right(v, r),
                 \A u \in Threads : Wrong(u, r) => v \in newer[u]
          PROVE  Settled(r)'
      <4>1. v # t /\ Handles(v, r)' /\ Right(v, r)'
        BY <1>0, <2>0, <2>2, <3>2, <3>3, ReadKeeps
      <4>2. \A u \in Threads : Wrong(u, r)' => v \in newer'[u]
        BY <1>0, <2>0, <2>3, <3>2, <3>3, <4>1, ReadKeeps
      <4>. QED
        BY <4>1, <4>2 DEF Settled
    <3>4. ASSUME r \in table => r \in truth, r \in Active(truth) => r \in table,
                 \A u \in Threads : ~Wrong(u, r)
          PROVE  Settled(r)'
      BY <1>a, <2>1, <2>3, <3>2, <3>4 DEF Settled
    <3>. QED
      BY <1>0, <3>1, <3>3, <3>4 DEF Settled
  <2>. QED
    BY <2>4, <2>5
<1>8. ASSUME NEW t \in Threads, ReadPermissions(t) PROVE (Awaited(Threads, r) \/ Settled(r))'
  <2>1. /\ run'[t].pc = "erase" /\ run'[t].scope = run[t].scope
        /\ run'[t].todo = run[t].todo \cup (truth \cap Permissions)
        /\ \A u \in Threads \ {t} : run'[u] = run[u]
    BY <1>0, <1>8, ReadPermissionsIs
  <2>2. At(t, "readPermissions") /\ UNCHANGED <<truth, enabled, table, events, newer, overtaken>>
    BY <1>8 DEF ReadPermissions, ghosts, order
  <2>3. \A u \in Threads : (Underway(u)' <=> Underway(u)) /\ (Handles(u, r)' <=> Handles(u, r))
    BY <2>1, <2>2 DEF Underway, Handles, Covers, Scope, At
  <2>4. Right(t, r) => Right(t, r)'
    <3>1. CASE r \in Permissions
      <4>1. r \notin run[t].todo
        BY <1>0, <2>2, <3>1, PermissionAssumption DEF LoadsFit
      <4>2. WillHold(t, r)' <=> r \in truth
        BY <2>1, <3>1, <4>1 DEF WillHold, At
      <4>. QED
        BY <2>2, <4>2, <1>a DEF Right, Active
    <3>2. CASE r \notin Permissions
      <4>1. (WillHold(t, r)' <=> WillHold(t, r)) /\ ~WillRead(t, r) /\ ~WillRead(t, r)'
        BY <2>1, <2>2, <3>2 DEF WillHold, WillRead, At
      <4>. QED
        BY <2>2, <4>1, <1>a DEF Right
    <3>. QED
      BY <3>1, <3>2
  <2>5. \A u \in Threads \ {t} : Right(u, r)' <=> Right(u, r)
    BY <1>a, <2>1, <2>2 DEF Right, WillHold, WillRead, At
  <2>6. \A u \in Threads : (Wrong(u, r)' => Wrong(u, r)) /\ (Right(u, r) => Right(u, r)')
    BY <2>3, <2>4, <2>5 DEF Wrong
  <2>7. Settled(r) => Settled(r)'
    BY <1>a, <2>2, <2>3, <2>6 DEF Settled
  <2>8. Awaited(Threads, r) => Awaited(Threads, r)'
    <3>1. OvertakenRuns' = OvertakenRuns
      BY <1>0, <2>2, <2>3 DEF OvertakenRuns
    <3>2. EventDue(r) => EventDue(r)'
      BY <2>2 DEF EventDue
    <3>3. \A u \in Threads : At(u, "readRoles") => run'[u] = run[u]
      BY <2>1, <2>2 DEF At
    <3>. QED
      BY <3>1, <3>2, <3>3, DueStays DEF Awaited
  <2>. QED
    BY <1>0, <2>7, <2>8
<1>9. ASSUME NEW t \in Threads, Erase(t) \/ SavePolicy(t) \/ AddRule(t) \/ AddRuleDuplicate(t),
             ~Awaited(Threads, r)'
      PROVE  Settled(r)'
  <2>1. t \notin overtaken /\ OvertakenRuns' = {}
    BY <1>9 DEF Clean, Awaited, Erase, SavePolicy, AddRule, AddRuleDuplicate, Writes
  <2>2. Written(t)
    BY <1>0, <1>9, WrittenIs
  <2>3. Settled(r)
    <3>1. OvertakenRuns = {} /\ UNCHANGED events
      BY <1>0, <1>9, <2>1, WriteKeeps
    <3>2. EventDue(r) => EventDue(r)'
      BY <3>1 DEF EventDue
    <3>3. \A u \in Threads : At(u, "readRoles") => run'[u] = run[u]
      BY <2>2 DEF Written, At
    <3>. QED
      BY <1>0, <1>9, <3>1, <3>2, <3>3, DueStays DEF Awaited
  <2>4. /\ UNCHANGED <<truth, enabled, newer>>
        /\ Handles(t, r) <=> Covers(t, r)
        /\ Handles(t, r)' <=> Covers(t, r) /\ Underway(t)'
        /\ ~WillRead(t, r) /\ ~WillRead(t, r)'
        /\ \A u \in Threads \ {t} :
             /\ Handles(u, r)' <=> Handles(u, r)
             /\ Handles(u, r) => /\ WillHold(u, r)' <=> WillHold(u, r)
                                 /\ WillRead(u, r)' <=> WillRead(u, r)
                                 /\ t \notin newer[u] /\ u \in newer[t]
    BY <1>0, <1>9, <2>1, WriteKeeps
  <2>5. \A u \in Threads \ {t} : /\ Handles(u, r) => (Right(u, r)' <=> Right(u, r))
                                 /\ Wrong(u, r)' <=> Wrong(u, r)
    BY <1>a, <2>4 DEF Right, Wrong
  <2>6. /\ ~Covers(t, r) => (r \in table' <=> r \in table)
        /\ Covers(t, r) /\ Underway(t)' => (WillHold(t, r)' <=> WillHold(t, r))
        /\ Covers(t, r) /\ ~Underway(t)' => (r \in table' <=> WillHold(t, r))
    BY <1>0, <1>9, <2>1, WritesWhatItCarries
  <2>7. ASSUME Covers(t, r), Right(t, r), \A u \in Threads : ~Wrong(u, r)
        PROVE  Settled(r)'
    <3>1. (WillHold(t, r) => r \in truth) /\ (r \in Active(truth) => WillHold(t, r))
      BY <2>4, <2>7 DEF Right
    <3>2. CASE Underway(t)'
      <4>1. Handles(t, r)' /\ Right(t, r)'
        BY <1>a, <2>4, <2>6, <2>7, <3>1, <3>2 DEF Right
      <4>2. \A u \in Threads : ~Wrong(u, r)'
        BY <2>5, <2>7, <4>1 DEF Wrong
      <4>. QED
        BY <4>1, <4>2 DEF Settled
    <3>3. CASE ~Underway(t)'
      <4>1. \A u \in Threads : ~Wrong(u, r)'
        BY <2>4, <2>5, <2>7, <3>3 DEF Wrong
      <4>. QED
        BY <1>a, <2>4, <2>6, <2>7, <3>1, <3>3, <4>1 DEF Settled
    <3>. QED
      BY <3>2, <3>3
  <2>8. ASSUME NEW v \in Threads, Handles(v, r), Right(v, r),
               \A u \in Threads : Wrong(u, r) => v \in newer[u]
        PROVE  Settled(r)'
    <3>1. CASE v = t
      <4>1. \A u \in Threads : ~Wrong(u, r)
        BY <2>4, <2>8, <3>1 DEF Wrong
      <4>. QED
        BY <2>4, <2>7, <2>8, <3>1, <4>1
    <3>2. CASE v # t
      <4>1. Handles(v, r)' /\ Right(v, r)' /\ v \in newer[t]
        BY <2>4, <2>5, <2>8, <3>2
      <4>2. \A u \in Threads : Wrong(u, r)' => v \in newer'[u]
        BY <2>4, <2>5, <2>8, <4>1
      <4>. QED
        BY <4>1, <4>2 DEF Settled
    <3>. QED
      BY <3>1, <3>2
  <2>9. ASSUME r \in table => r \in truth, r \in Active(truth) => r \in table,
               \A u \in Threads : ~Wrong(u, r)
        PROVE  Settled(r)'
    <3>1. CASE Covers(t, r)
      BY <2>4, <2>7, <2>9, <3>1 DEF Wrong
    <3>2. CASE ~Covers(t, r)
      <4>1. \A u \in Threads : ~Wrong(u, r)'
        BY <2>4, <2>5, <2>9, <3>2 DEF Wrong
      <4>. QED
        BY <1>a, <2>4, <2>6, <2>9, <3>2, <4>1 DEF Settled
    <3>. QED
      BY <3>1, <3>2
  <2>. QED
    BY <2>3, <2>8, <2>9 DEF Settled
<1>10. ASSUME NEW t \in Threads, ChangeBinding(t) \/ HandleEvent(t) \/ RunStep(t)
                                 \/ BroadcastError(t) \/ RunError(t)
       PROVE  (Awaited(Threads, r) \/ Settled(r))'
  <2>1. CASE Erase(t) \/ SavePolicy(t) \/ AddRule(t) \/ AddRuleDuplicate(t)
    BY <1>9, <2>1
  <2>. QED
    BY <1>2, <1>3, <1>4, <1>5, <1>7, <1>8, <1>10, <2>1 DEF RunStep
<1>11. ASSUME NEW i \in Instances, ReloadPolicy(i) \/ ReloadPolicyError(i) \/ LoseReload(i)
                                   \/ Restart(i)
       PROVE  (Awaited(Threads, r) \/ Settled(r))'
  BY <1>4, <1>5, <1>6, <1>11
<1>. QED
  BY <1>1, <1>4, <1>d, <1>10, <1>11 DEF RuleNext

-----------------------------------------------------------------------------
(* Revoked rules are forgotten                                                *)

\* The step before the save leaves the table alone.
LEMMA SavingIsNext ==
    ASSUME RunInv, NEW t \in Threads, At(t, "save")',
           Erase(t) \/ SavePolicy(t) \/ AddRule(t) \/ AddRuleDuplicate(t)
    PROVE  table' = table
<1>0. run \in [Threads -> Run] /\ run[t].todo \in SUBSET Rules
  BY LoadsAreRules DEF RunInv, RuleTypeOK, Run
<1>1. RunPCs = {"idle", "readRoles", "readPermissions", "erase", "save", "add", "broadcast"}
      /\ Adding(t) \in {"add", "idle", "broadcast"} /\ Rest(t) \in {"idle", "broadcast"}
  BY DEF RunPCs, Adding, Rest
<1>2. CASE Erase(t) /\ Scope(t) = Graph
  BY <1>2 DEF Erase
<1>3. CASE (Erase(t) /\ Scope(t) # Graph) \/ SavePolicy(t)
  <2>1. Step(t, Adding(t), run[t].todo)
    BY <1>3 DEF Erase, SavePolicy
  <2>. QED
    BY <1>0, <1>1, <2>1, StepIs DEF At
<1>4. CASE AddRule(t)
  <2>1. PICK x \in NextRules(t) : Step(t, IF run[t].todo = {x} THEN Rest(t) ELSE "add", run[t].todo \ {x})
    BY <1>4 DEF AddRule
  <2>2. PICK pc \in {"add", "idle", "broadcast"} : pc = IF run[t].todo = {x} THEN Rest(t) ELSE "add"
    BY <1>1
  <2>3. run[t].todo \ {x} \in SUBSET Rules
    BY <1>0
  <2>. QED
    BY <1>0, <1>1, <2>1, <2>2, <2>3, StepIs DEF At
<1>5. CASE AddRuleDuplicate(t)
  BY <1>0, <1>5, AbortIs DEF AddRuleDuplicate, At
<1>. QED
  BY <1>2, <1>3, <1>4, <1>5

\* A consumer that reads about a rule the relations do not hold will take it away.
LEMMA ReaderForgets ==
    ASSUME RuleTypeOK, NEW t \in Consumers, Reads(t), NEW r \in Rules \ truth, Covers(t, r)
    PROVE  Forgotten(r)'
<1>0. t \in Threads
  BY DEF Consumers
<1>1. Handles(t, r)' /\ ~Revives(t, r)' /\ ~Handles(t, r)
  BY <1>0, ReadKeeps
<1>2. \A u \in Threads : Revives(u, r)' => t \in newer'[u]
  BY <1>0, <1>1, ReadKeeps DEF Revives, Handles
<1>. QED
  BY <1>0, <1>1, <1>2 DEF Forgotten, Consumers

\* For a rule that the relations no longer hold, no step undoes what was reached.
LEMMA RevocationsSettleKept ==
    ASSUME RevocationInv, [RuleNext]_ruleVars
    PROVE  RevocationsSettle'
<1>. SUFFICES ASSUME Faultless', NEW r \in Rules, r \notin truth', r \notin orphaned'
              PROVE  (Awaited(Consumers, r) \/ Forgotten(r))'
  BY DEF RevocationsSettle
<1>o. SUFFICES ASSUME r \notin orphaned PROVE (Awaited(Consumers, r) \/ Forgotten(r))'
  <2>1. \A t \in Consumers : Reads(t) /\ Covers(t, r) => Forgotten(r)'
    BY ReaderForgets DEF Reads, RevocationInv, TableInv, RunInv
  <2>. QED
    BY <2>1, OrphansFound DEF Awaited, RevocationInv, TableInv, RunInv
<1>0. /\ RunInv /\ RuleTypeOK /\ LoadsFit /\ WritesInStep /\ Clean /\ Faultless
      /\ (r \notin truth => Awaited(Consumers, r) \/ Forgotten(r)) /\ overtaken \subseteq Threads
      /\ Consumers \in SUBSET Threads /\ Consumers' = Consumers /\ run \in [Threads -> Run]
      /\ mem \in [Instances -> SUBSET Rules] /\ reloads \in [Instances -> Nat]
      /\ \A t \in Threads : t[1] \in Instances
  BY <1>o, CleanBefore DEF RevocationInv, TableInv, RunInv, RuleTypeOK, RevocationsSettle, Consumers,
     Run, Threads
<1>f. ASSUME NEW k \in RuleFaultKinds, RuleFault(k) PROVE FALSE
  BY <1>0, <1>f DEF RuleFault, Faultless, RuleTypeOK
<1>g. "db" \in RuleFaultKinds /\ "redis" \in RuleFaultKinds /\ "message" \in RuleFaultKinds
      /\ "crash" \in RuleFaultKinds
  BY DEF RuleFaultKinds
<1>h. ASSUME \/ \E t \in Threads : RunError(t) \/ BroadcastError(t)
             \/ \E i \in Instances : ReloadPolicyError(i) \/ LoseReload(i) \/ Restart(i)
             \/ RepeatEvent
      PROVE  FALSE
  BY <1>f, <1>g, <1>h DEF RunError, BroadcastError, ReloadPolicyError, LoseReload, Restart, RepeatEvent
\* A calm step: a run that is due stays so, and so does a rule that is forgotten.
<1>c. ASSUME Calm, \A u \in Threads : Underway(u) => run'[u] = run[u]
      PROVE  /\ OvertakenRuns' = OvertakenRuns
             /\ \A u \in Threads : /\ Handles(u, r)' <=> Handles(u, r)
                                   /\ Revives(u, r)' <=> Revives(u, r)
  BY <1>0, <1>c, CalmKeeps DEF Revives
<1>d. ASSUME Calm, \A u \in Threads : Underway(u) => run'[u] = run[u], Forgotten(r),
             \A i \in Instances : r \in mem'[i] /\ r \notin table =>
                 \/ r \in mem[i] /\ reloads'[i] >= reloads[i] /\ (Broadcasting => Broadcasting')
                 \/ reloads'[i] > 0
      PROVE  Forgotten(r)'
  <2>1. table' = table /\ newer' = newer
    BY <1>d DEF Calm
  <2>2. ASSUME NEW v \in Consumers, Handles(v, r), ~Revives(v, r),
               \A u \in Threads : Revives(u, r) => v \in newer[u]
        PROVE  Forgotten(r)'
    BY <1>0, <1>c, <1>d, <2>1, <2>2 DEF Forgotten
  <2>3. ASSUME r \notin table, \A u \in Threads : ~Revives(u, r),
               \A i \in Instances : r \in mem[i] => (reloads[i] > 0 \/ Broadcasting)
        PROVE  Forgotten(r)'
    <3>1. ASSUME NEW i \in Instances, r \in mem'[i] PROVE reloads'[i] > 0 \/ Broadcasting'
      <4>1. CASE r \in mem[i] /\ reloads'[i] >= reloads[i] /\ (Broadcasting => Broadcasting')
        <5>1. CASE Broadcasting
          BY <4>1, <5>1
        <5>2. CASE reloads[i] > 0
          <6>1. reloads'[i] \in Nat
            BY Typing DEF RuleTypeOK, RevocationInv, TableInv, RunInv
          <6>. QED
            BY <1>0, <4>1, <5>2, <6>1
        <5>. QED
          BY <2>3, <4>1, <5>1, <5>2
      <4>. QED
        BY <1>d, <2>3, <3>1, <4>1
    <3>2. r \notin table' /\ \A u \in Threads : ~Revives(u, r)'
      BY <1>c, <1>d, <2>1, <2>3
    <3>. QED
      BY <3>1, <3>2 DEF Forgotten
  <2>. QED
    BY <1>d, <2>2, <2>3 DEF Forgotten
<1>1. CASE ChangeGraph \/ ChangeRole
  BY <1>0, <1>1, ChangesAreAnnounced DEF Awaited
<1>2. ASSUME NEW t \in Threads, ChangeBinding(t) PROVE (Awaited(Consumers, r) \/ Forgotten(r))'
  <2>1. PICK s \in Subjects : Start(t, s) /\ events' = [events EXCEPT ![s] = @ + 1]
    BY <1>2 DEF ChangeBinding
  <2>2. Calm /\ At(t, "idle") /\ \A u \in Threads \ {t} : run'[u] = run[u]
    BY <1>0, <1>2, <2>1, CalmSteps, StartIs DEF ChangeBinding, Scopes
  <2>3. \A u \in Threads : Underway(u) \/ At(u, "readRoles") \/ At(u, "broadcast") => run'[u] = run[u]
    BY <2>2 DEF Underway, At
  <2>4. EventDue(r) => EventDue(r)'
    BY <1>0, <2>1 DEF EventDue, RuleTypeOK, Scopes
  <2>5. OvertakenRuns' = OvertakenRuns
    BY <1>c, <2>2, <2>3
  <2>6. Awaited(Consumers, r) => Awaited(Consumers, r)'
    BY <1>0, <2>3, <2>4, <2>5, DueStays DEF Awaited
  <2>7. mem' = mem /\ reloads' = reloads /\ (Broadcasting => Broadcasting')
    BY <1>2, <2>3 DEF ChangeBinding, Broadcasting, At
  <2>8. Forgotten(r) => Forgotten(r)'
    BY <1>0, <1>d, <2>2, <2>3, <2>7
  <2>9. EventDue(r)' \/ r \notin truth
    BY <1>0, <1>2, ChangesAreAnnounced
  <2>. QED
    BY <1>0, <2>6, <2>8, <2>9 DEF Awaited
<1>3. ASSUME NEW t \in Threads, HandleEvent(t) PROVE (Awaited(Consumers, r) \/ Forgotten(r))'
  <2>1. PICK s \in Scopes : Start(t, s)
    BY <1>3 DEF HandleEvent
  <2>2. Calm /\ At(t, "idle") /\ \A u \in Threads \ {t} : run'[u] = run[u]
    BY <1>0, <1>3, <2>1, CalmSteps, StartIs DEF HandleEvent
  <2>3. \A u \in Threads : Underway(u) \/ At(u, "readRoles") \/ At(u, "broadcast") => run'[u] = run[u]
    BY <2>2 DEF Underway, At
  <2>4. EventDue(r) => EventDue(r)' \/ RunDue(Consumers, r)'
    BY <1>0, <1>3, EventsAreTaken
  <2>5. OvertakenRuns' = OvertakenRuns
    BY <1>c, <2>2, <2>3
  <2>6. Awaited(Consumers, r) => Awaited(Consumers, r)'
    BY <1>0, <2>3, <2>4, <2>5, DueStays DEF Awaited
  <2>7. /\ mem' = mem /\ reloads' = reloads /\ (Broadcasting => Broadcasting')
        /\ truth' = truth
    BY <1>3, <2>3 DEF HandleEvent, Broadcasting, At
  <2>8. Forgotten(r) => Forgotten(r)'
    BY <1>0, <1>d, <2>2, <2>3, <2>7
  <2>. QED
    BY <1>0, <2>6, <2>7, <2>8
<1>4. ASSUME NEW t \in Threads, Broadcast(t) PROVE (Awaited(Consumers, r) \/ Forgotten(r))'
  <2>1. At(t, "broadcast") /\ Calm /\ \A u \in Threads \ {t} : run'[u] = run[u]
    BY <1>0, <1>4, AbortIs, CalmSteps DEF Broadcast
  <2>2. \A u \in Threads : Underway(u) \/ At(u, "readRoles") => run'[u] = run[u]
    BY <2>1 DEF Underway, At
  <2>3. UNCHANGED <<truth, events>> /\ \A i \in Instances : reloads'[i] > 0
    BY <1>0, <1>4 DEF Broadcast
  <2>4. EventDue(r) => EventDue(r)'
    BY <2>3 DEF EventDue
  <2>5. OvertakenRuns' = OvertakenRuns
    BY <1>c, <2>1, <2>2
  <2>6. Awaited(Consumers, r) => Awaited(Consumers, r)'
    BY <1>0, <2>2, <2>4, <2>5, DueStays DEF Awaited
  <2>7. Forgotten(r) => Forgotten(r)'
    BY <1>d, <2>1, <2>2, <2>3
  <2>. QED
    BY <1>0, <2>3, <2>6, <2>7
<1>5. ASSUME NEW j \in Instances, ReloadPolicy(j) PROVE (Awaited(Consumers, r) \/ Forgotten(r))'
  <2>1. /\ Calm /\ UNCHANGED <<run, truth, events>>
        /\ reloads' = [reloads EXCEPT ![j] = @ - 1] /\ mem' = [mem EXCEPT ![j] = table]
    BY <1>0, <1>5, CalmSteps DEF ReloadPolicy
  <2>2. EventDue(r)' = EventDue(r) /\ RunDue(Consumers, r)' = RunDue(Consumers, r)
        /\ Broadcasting' = Broadcasting
    BY <1>0, <2>1 DEF EventDue, RunDue, Broadcasting, At, Covers, Scope
  <2>3. OvertakenRuns' = OvertakenRuns
    BY <1>c, <2>1
  <2>4. \A i \in Instances : r \in mem'[i] /\ r \notin table => r \in mem[i] /\ reloads'[i] >= reloads[i]
    BY <1>0, <2>1
  <2>5. Forgotten(r) => Forgotten(r)'
    BY <1>d, <2>1, <2>2, <2>4
  <2>. QED
    BY <1>0, <2>1, <2>2, <2>3, <2>5 DEF Awaited
<1>6. CASE UNCHANGED ruleVars
  <2>1. Calm /\ UNCHANGED <<run, truth, events, reloads, mem>>
    BY <1>0, <1>6, CalmSteps DEF ruleVars
  <2>2. EventDue(r)' = EventDue(r) /\ RunDue(Consumers, r)' = RunDue(Consumers, r)
        /\ Broadcasting' = Broadcasting
    BY <1>0, <2>1 DEF EventDue, RunDue, Broadcasting, At, Covers, Scope
  <2>3. OvertakenRuns' = OvertakenRuns
    BY <1>c, <2>1
  <2>4. Forgotten(r) => Forgotten(r)'
    BY <1>0, <1>d, <2>1, <2>2
  <2>. QED
    BY <1>0, <2>1, <2>2, <2>3, <2>4 DEF Awaited
<1>e. CASE DissolveOrg
  <2>1. Calm /\ UNCHANGED <<run, events, reloads, mem>> /\ r \notin truth
    BY <1>0, <1>e, DissolvingIsCalm
  <2>2. EventDue(r)' = EventDue(r) /\ RunDue(Consumers, r)' = RunDue(Consumers, r)
        /\ Broadcasting' = Broadcasting
    BY <1>0, <2>1 DEF EventDue, RunDue, Broadcasting, At, Covers, Scope
  <2>3. OvertakenRuns' = OvertakenRuns
    BY <1>c, <2>1
  <2>4. Forgotten(r) => Forgotten(r)'
    BY <1>0, <1>d, <2>1, <2>2
  <2>. QED
    BY <1>0, <2>1, <2>2, <2>3, <2>4 DEF Awaited
<1>7. ASSUME NEW t \in Threads, ReadRoles(t) PROVE (Awaited(Consumers, r) \/ Forgotten(r))'
  <2>0. Reads(t)
    BY <1>0, <1>7, ReadIs
  <2>1. /\ UNCHANGED <<truth, table, mem, reloads, events>>
        /\ At(t, "readRoles") /\ \A u \in Threads \ {t} : run'[u] = run[u]
    BY <2>0 DEF Reads
  <2>2. r \notin truth /\ (Awaited(Consumers, r) \/ Forgotten(r))
    BY <1>0, <2>1
  <2>3. ~Revives(t, r)' /\ ~Revives(t, r)
    BY <1>0, <2>0, <2>2, ReadKeeps DEF Revives
  <2>4. \A u \in Threads \ {t} : Revives(u, r)' <=> Revives(u, r)
    BY <1>0, <2>0, ReadKeeps DEF Revives
  <2>5. CASE t \in Consumers /\ Covers(t, r)
    BY <1>0, <2>0, <2>2, <2>5, ReaderForgets
  <2>6. CASE ~(t \in Consumers /\ Covers(t, r))
    <3>1. Awaited(Consumers, r) => Awaited(Consumers, r)'
      <4>1. EventDue(r) => EventDue(r)'
        BY <2>1 DEF EventDue
      <4>2. RunDue(Consumers, r) => RunDue(Consumers, r)'
        BY <1>0, <2>1, <2>6 DEF RunDue, At, Covers, Scope
      <4>. QED
        BY <1>0, <2>0, <4>1, <4>2, ReadKeeps DEF Awaited
    <3>2. ~Handles(t, r)
      BY <1>0, <2>0, ReadKeeps
    <3>3. ASSUME NEW v \in Consumers, Handles(v, r), ~Revives(v, r),
                 \A u \in Threads : Revives(u, r) => v \in newer[u]
          PROVE  Forgotten(r)'
      <4>1. v # t /\ v \in Threads /\ Handles(v, r)' /\ ~Revives(v, r)'
        BY <1>0, <2>0, <2>4, <3>2, <3>3, ReadKeeps
      <4>2. \A u \in Threads : Revives(u, r)' => v \in newer'[u]
        BY <1>0, <2>0, <2>3, <2>4, <3>3, <4>1, ReadKeeps
      <4>. QED
        BY <1>0, <3>3, <4>1, <4>2 DEF Forgotten
    <3>4. ASSUME r \notin table, \A u \in Threads : ~Revives(u, r),
                 \A i \in Instances : r \in mem[i] => (reloads[i] > 0 \/ Broadcasting)
          PROVE  Forgotten(r)'
      <4>1. Broadcasting => Broadcasting'
        BY <2>1 DEF Broadcasting, At
      <4>. QED
        BY <2>1, <2>3, <2>4, <3>4, <4>1 DEF Forgotten
    <3>. QED
      BY <2>2, <3>1, <3>3, <3>4 DEF Forgotten
  <2>. QED
    BY <2>5, <2>6
<1>8. ASSUME NEW t \in Threads, ReadPermissions(t) PROVE (Awaited(Consumers, r) \/ Forgotten(r))'
  <2>1. /\ run'[t].pc = "erase" /\ run'[t].scope = run[t].scope
        /\ run'[t].todo = run[t].todo \cup (truth \cap Permissions)
        /\ \A u \in Threads \ {t} : run'[u] = run[u]
    BY <1>0, <1>8, ReadPermissionsIs
  <2>2. At(t, "readPermissions")
        /\ UNCHANGED <<truth, table, mem, reloads, events, newer, overtaken>>
    BY <1>8 DEF ReadPermissions, ghosts, order
  <2>3. \A u \in Threads : (Underway(u)' <=> Underway(u)) /\ (Handles(u, r)' <=> Handles(u, r))
    BY <2>1, <2>2 DEF Underway, Handles, Covers, Scope, At
  <2>4. Revives(t, r)' => Revives(t, r)
    <3>1. CASE r \in Permissions
      <4>1. r \notin run[t].todo
        BY <1>0, <2>2, <3>1, PermissionAssumption DEF LoadsFit
      <4>2. ~WillHold(t, r)'
        BY <2>1, <2>2, <3>1, <4>1 DEF WillHold, At
      <4>. QED
        BY <4>2 DEF Revives
    <3>2. CASE r \notin Permissions
      <4>1. (WillHold(t, r)' <=> WillHold(t, r)) /\ ~WillRead(t, r) /\ ~WillRead(t, r)'
        BY <2>1, <2>2, <3>2 DEF WillHold, WillRead, At
      <4>. QED
        BY <2>3, <4>1 DEF Revives
    <3>. QED
      BY <3>1, <3>2
  <2>5. \A u \in Threads \ {t} : Revives(u, r)' <=> Revives(u, r)
    BY <2>1, <2>2, <2>3 DEF Revives, WillHold, WillRead, At
  <2>6. \A u \in Threads : Revives(u, r)' => Revives(u, r)
    BY <2>4, <2>5
  <2>7. Broadcasting => Broadcasting'
    BY <2>1, <2>2 DEF Broadcasting, At
  <2>8. Forgotten(r) => Forgotten(r)'
    BY <1>0, <2>2, <2>3, <2>6, <2>7 DEF Forgotten
  <2>9. Awaited(Consumers, r) => Awaited(Consumers, r)'
    <3>1. OvertakenRuns' = OvertakenRuns
      BY <1>0, <2>2, <2>3 DEF OvertakenRuns
    <3>2. EventDue(r) => EventDue(r)'
      BY <2>2 DEF EventDue
    <3>3. \A u \in Threads : At(u, "readRoles") => run'[u] = run[u]
      BY <2>1, <2>2 DEF At
    <3>. QED
      BY <1>0, <3>1, <3>2, <3>3, DueStays DEF Awaited
  <2>. QED
    BY <1>0, <2>2, <2>8, <2>9
<1>9. ASSUME NEW t \in Threads, Erase(t) \/ SavePolicy(t) \/ AddRule(t) \/ AddRuleDuplicate(t),
             ~Awaited(Consumers, r)'
      PROVE  Forgotten(r)'
  <2>1. t \notin overtaken /\ OvertakenRuns' = {}
    BY <1>9 DEF Faultless, Awaited, Erase, SavePolicy, AddRule, AddRuleDuplicate, Writes
  <2>2. Written(t)
    BY <1>0, <1>9, WrittenIs
  <2>3. Forgotten(r)
    <3>1. OvertakenRuns = {} /\ UNCHANGED <<events, truth>>
      BY <1>0, <1>9, <2>1, WriteKeeps
    <3>2. EventDue(r) => EventDue(r)'
      BY <3>1 DEF EventDue
    <3>3. \A u \in Threads : At(u, "readRoles") => run'[u] = run[u]
      BY <2>2 DEF Written, At
    <3>. QED
      BY <1>0, <1>9, <3>1, <3>2, <3>3, DueStays DEF Awaited
  <2>4. /\ UNCHANGED <<reloads, newer>>
        /\ Handles(t, r) <=> Covers(t, r)
        /\ Handles(t, r)' <=> Covers(t, r) /\ Underway(t)'
        /\ ~WillRead(t, r) /\ ~WillRead(t, r)'
        /\ \A u \in Threads \ {t} :
             /\ run'[u] = run[u]
             /\ Handles(u, r)' <=> Handles(u, r)
             /\ Handles(u, r) => /\ WillHold(u, r)' <=> WillHold(u, r)
                                 /\ WillRead(u, r)' <=> WillRead(u, r)
                                 /\ t \notin newer[u] /\ u \in newer[t]
    BY <1>0, <1>9, <2>1, WriteKeeps
  <2>5. \A u \in Threads \ {t} : Revives(u, r)' <=> Revives(u, r)
    BY <2>4 DEF Revives
  <2>6. /\ ~Covers(t, r) => (r \in table' <=> r \in table)
        /\ Covers(t, r) /\ Underway(t)' => (WillHold(t, r)' <=> WillHold(t, r))
        /\ Covers(t, r) /\ ~Underway(t)' => (r \in table' <=> WillHold(t, r))
        /\ run'[t].pc \in {"save", "add", Rest(t)}
        /\ \A i \in Instances : r \in mem'[i] => r \in mem[i] \/ (Covers(t, r) /\ WillHold(t, r))
        /\ Covers(t, r) /\ At(t, "add")' => (r \in table' <=> r \in mem'[t[1]])
    BY <1>0, <1>9, <2>1, WritesWhatItCarries
  <2>7. Revives(t, r)' => Revives(t, r)
    BY <2>4, <2>6 DEF Revives, Handles
  <2>8. Broadcasting => Broadcasting'
    BY <2>2, <2>4 DEF Written, Broadcasting, At
  <2>9. ASSUME NEW v \in Consumers, Handles(v, r), ~Revives(v, r),
               \A u \in Threads : Revives(u, r) => v \in newer[u]
        PROVE  Forgotten(r)'
    <3>1. CASE v = t
      <4>1. \A u \in Threads : ~Revives(u, r)
        BY <2>4, <2>9, <3>1 DEF Revives
      <4>2. \A u \in Threads : ~Revives(u, r)'
        BY <2>5, <2>7, <4>1
      <4>3. Covers(t, r) /\ ~WillHold(t, r)
        BY <2>4, <2>9, <3>1 DEF Revives
      <4>4. CASE Underway(t)'
        <5>1. Handles(t, r)' /\ ~Revives(t, r)' /\ t \in Consumers'
          BY <1>0, <2>4, <2>9, <3>1, <4>2, <4>3, <4>4
        <5>. QED
          BY <1>0, <4>2, <5>1 DEF Forgotten
      <4>5. CASE ~Underway(t)'
        <5>1. r \notin table'
          BY <2>6, <4>3, <4>5
        <5>2. run'[t].pc = "broadcast"
          BY <2>6, <2>9, <3>1, <4>5 DEF Underway, Rest, Consumers
        <5>3. Broadcasting'
          BY <5>2 DEF Broadcasting, At
        <5>. QED
          BY <4>2, <5>1, <5>3 DEF Forgotten
      <4>. QED
        BY <4>4, <4>5
    <3>2. CASE v # t
      <4>1. v \in Threads /\ Handles(v, r)' /\ ~Revives(v, r)' /\ v \in newer[t]
        BY <1>0, <2>4, <2>5, <2>9, <3>2
      <4>2. \A u \in Threads : Revives(u, r)' => v \in newer'[u]
        BY <2>4, <2>5, <2>9, <4>1
      <4>. QED
        BY <1>0, <2>9, <4>1, <4>2 DEF Forgotten
    <3>. QED
      BY <3>1, <3>2
  <2>10. ASSUME r \notin table, \A u \in Threads : ~Revives(u, r),
                \A i \in Instances : r \in mem[i] => (reloads[i] > 0 \/ Broadcasting)
         PROVE  Forgotten(r)'
    <3>1. Covers(t, r) => ~WillHold(t, r)
      BY <2>4, <2>10 DEF Revives
    <3>2. \A u \in Threads : ~Revives(u, r)'
      BY <2>5, <2>7, <2>10
    <3>3. \A i \in Instances : r \in mem'[i] => (reloads'[i] > 0 \/ Broadcasting')
      BY <2>4, <2>6, <2>8, <2>10, <3>1
    <3>4. r \notin table'
      <4>1. CASE ~Covers(t, r) \/ ~Underway(t)'
        BY <2>6, <2>10, <3>1, <4>1
      <4>2. CASE Covers(t, r) /\ At(t, "add")'
        BY <2>6, <3>1, <4>2 DEF WillHold, Underway, At
      <4>3. CASE At(t, "save")'
        BY <1>0, <1>9, <2>1, <2>10, <4>3, SavingIsNext
      <4>. QED
        BY <2>6, <4>1, <4>2, <4>3 DEF Underway, At, Rest
    <3>. QED
      BY <3>2, <3>3, <3>4 DEF Forgotten
  <2>. QED
    BY <2>3, <2>9, <2>10 DEF Forgotten
<1>10. ASSUME NEW t \in Threads, ChangeBinding(t) \/ HandleEvent(t) \/ RunStep(t)
                                 \/ BroadcastError(t) \/ RunError(t)
       PROVE  (Awaited(Consumers, r) \/ Forgotten(r))'
  <2>1. CASE Erase(t) \/ SavePolicy(t) \/ AddRule(t) \/ AddRuleDuplicate(t)
    BY <1>9, <2>1
  <2>. QED
    BY <1>2, <1>3, <1>4, <1>7, <1>8, <1>h, <1>10, <2>1 DEF RunStep
<1>11. ASSUME NEW i \in Instances, ReloadPolicy(i) \/ ReloadPolicyError(i) \/ LoseReload(i)
                                   \/ Restart(i)
       PROVE  (Awaited(Consumers, r) \/ Forgotten(r))'
  BY <1>5, <1>h, <1>11
<1>. QED
  BY <1>1, <1>6, <1>e, <1>10, <1>11, <1>h DEF RuleNext

-----------------------------------------------------------------------------
(* Theorems                                                                   *)

LEMMA InvStarts == RuleInit => RevocationInv
<1>. SUFFICES ASSUME RuleInit PROVE RevocationInv
  OBVIOUS
<1>1. RuleTypeOK
  BY TypesStart
<1>2. \A t \in Threads : run[t].pc = "idle" /\ run[t].todo = {} /\ newer[t] = {}
  BY IdleIs DEF RuleInit
<1>3. RunInv
  BY <1>1, <1>2 DEF RunInv, LoadsFit, ReadsAreOrdered, WritersOvertake, Underway, At
<1>4. WritesInStep
  BY <1>2 DEF WritesInStep, At
<1>5. \A r \in Rules : r \notin table /\ r \notin truth /\ \A i \in Instances : r \notin mem[i]
  BY DEF RuleInit
<1>6. \A r \in Rules, t \in Threads : ~Handles(t, r)
  BY <1>2 DEF Handles, Underway
<1>7. RulesSettle
  BY <1>5, <1>6 DEF RulesSettle, Settled, Wrong, Active
<1>8. RevocationsSettle
  BY <1>5, <1>6 DEF RevocationsSettle, Forgotten, Revives
<1>9. OrphansAreGone
  BY DEF RuleInit, OrphansAreGone
<1>. QED
  BY <1>3, <1>4, <1>7, <1>8, <1>9 DEF RevocationInv, TableInv

LEMMA InvKept == RevocationInv /\ [RuleNext]_ruleVars => RevocationInv'
<1>. SUFFICES ASSUME RevocationInv, [RuleNext]_ruleVars PROVE RevocationInv'
  OBVIOUS
<1>1. RunInv'
  BY Typing, OrderKept DEF RevocationInv, TableInv, RunInv
<1>2. WritesInStep' /\ OrphansAreGone' /\ RulesSettle' /\ RevocationsSettle'
  BY InStepKept, OrphansKept, RulesSettleKept, RevocationsSettleKept
  DEF RevocationInv, TableInv, RunInv
<1>. QED
  BY <1>1, <1>2 DEF RevocationInv, TableInv

\* The projection is typed, and its runs are ordered as the ghosts say.
THEOREM ProjectionIsTyped == RuleSpec => []RuleTypeOK
<1>1. RevocationInv => RuleTypeOK
  BY DEF RevocationInv, TableInv, RunInv
<1>. QED
  BY <1>1, InvStarts, InvKept, PTL DEF RuleSpec

\* However requests, consumers and start-up rebuilds interleave, with whatever events
\* repeated, messages lost and processes killed: when everything is at rest, the
\* casbin_rule table agrees with the relations, unless an older run wrote after a newer
\* one, a reload undid the clear of a rebuild, or a database call failed; and but for
\* the bindings DeleteOrg removed that no consumer has looked for since.
THEOREM TableAgrees == RuleSpec => []DriftNeedsCrossing
<1>1. ASSUME RevocationInv PROVE DriftNeedsCrossing
  <2>. SUFFICES ASSUME AtRest, Clean PROVE Agrees(table)
    BY DEF DriftNeedsCrossing, Clean
  <2>1. \A t \in Threads : run[t].pc = "idle"
    BY DEF AtRest, At
  <2>2. \A r \in Rules : ~Awaited(Threads, r) /\ \A t \in Threads : ~Handles(t, r)
    BY <1>1, <2>1 DEF Awaited, EventDue, RunDue, OvertakenRuns, Handles, Underway, AtRest, At,
       RevocationInv, TableInv, RunInv, RuleTypeOK
  <2>3. \A r \in Rules \ orphaned : Settled(r)
    BY <1>1, <2>2 DEF RevocationInv, TableInv, RulesSettle
  <2>4. \A r \in Rules \ orphaned :
           (r \in table => r \in truth) /\ (r \in Active(truth) => r \in table)
    BY <2>2, <2>3 DEF Settled
  <2>6. Active(truth) \cap orphaned = {}
    BY <1>1 DEF RevocationInv, TableInv, OrphansAreGone, Active
  <2>5. table \subseteq Rules /\ Active(truth) \subseteq Rules
    BY <1>1 DEF RevocationInv, TableInv, RunInv, RuleTypeOK, Active
  <2>. QED
    BY <2>4, <2>5, <2>6 DEF Agrees
<1>. QED
  BY <1>1, InvStarts, InvKept, PTL DEF RuleSpec

\* Without faults and crossings, no instance's enforcer still grants, at rest, what the
\* relations have revoked with an event: wherever the event was handled, the broadcast
\* that follows the write reaches all of them.  What DeleteOrg revoked is forgotten as
\* soon as a consumer has handled an event that covers it.
THEOREM RevocationsReachAll == RuleSpec => []RevocationReachesAll
<1>1. ASSUME RevocationInv PROVE RevocationReachesAll
  <2>. SUFFICES ASSUME AtRest, Faultless, NEW i \in Instances
                PROVE  mem[i] \subseteq truth \cup orphaned
    BY DEF RevocationReachesAll, Faultless
  <2>0. Consumers \subseteq Threads /\ mem[i] \subseteq Rules
    BY <1>1 DEF Consumers, RevocationInv, TableInv, RunInv, RuleTypeOK
  <2>1. \A t \in Threads : run[t].pc = "idle"
    BY DEF AtRest, At
  <2>2. \A r \in Rules : ~Awaited(Consumers, r) /\ \A t \in Threads : ~Handles(t, r)
    BY <1>1, <2>0, <2>1 DEF Awaited, EventDue, RunDue, OvertakenRuns, Handles, Underway, AtRest, At,
       RevocationInv, TableInv, RunInv, RuleTypeOK
  <2>3. \A r \in Rules \ (truth \cup orphaned) : Forgotten(r)
    BY <1>1, <2>2 DEF RevocationInv, RevocationsSettle
  <2>4. ~Broadcasting /\ reloads[i] = 0
    BY <2>1 DEF Broadcasting, AtRest, At
  <2>5. \A r \in Rules \ (truth \cup orphaned) : r \notin mem[i]
    BY <2>0, <2>2, <2>3, <2>4 DEF Forgotten
  <2>. QED
    BY <2>0, <2>5
<1>. QED
  BY <1>1, InvStarts, InvKept, PTL DEF RuleSpec
=============================================================================
