------------------------------ MODULE ConsoleProofs ------------------------------
(* What holds of roles, menus and APIs, of the sessions of a user, and of the    *)
(* question bank and the task items, for any number of menus, APIs, roles,       *)
(* instances, requests, titles, questions, tasks, syncs, calls and faults.       *)
EXTENDS AccessGraph, Sessions, QuestionIntake, FiniteSetTheorems, TLAPS

-----------------------------------------------------------------------------
(* Roles, menus and APIs: the inductive invariant.                             *)

\* What a call has read, by what it does.
RoleEdit  == [op : {"updateRole"}, role : Roles, was : SUBSET Menus, menus : SUBSET Menus]
RoleEnd   == [op : {"deleteRole"}, role : Roles]
Granting  == [op : {"assign"}, role : Roles, able : BOOLEAN, menus : SUBSET Menus,
              apis : SUBSET Apis]
Holding   == [op : {"hold"}, role : Roles, give : BOOLEAN]
MenuStart == [op : {"createMenu"}, menu : Menus, parent : Menus \cup {NoMenu}]
MenuEdit  == [op : {"updateMenu"}, menu : Menus, parent : Menus \cup {NoMenu},
              apis : SUBSET Apis]
MenuEnd   == [op : {"deleteMenu"}, menu : Menus]
Binding   == [op : {"bind"}, menu : Menus, apis : SUBSET Apis]
ApiStart  == [op : {"createAPI"}, api : Apis, menu : Menus]
ApiEdit   == [op : {"updateAPI"}, api : Apis, menu : Menus \cup {"keep", NoMenu},
              saved : ApiRows]
ApiEnd    == [op : {"deleteAPI"}, api : Apis]
Syncing   == [op : {"sync"}, routes : SUBSET Apis, read : [Apis -> ApiRows]]

CallStates == {NoCall} \cup RoleEdit \cup RoleEnd \cup Granting \cup Holding
                \cup MenuStart \cup MenuEdit \cup MenuEnd \cup Binding
                \cup ApiStart \cup ApiEdit \cup ApiEnd \cup Syncing

CallsAreTyped == call \in [Calls -> CallStates]

\* An update of a role saves again what it preloaded, and it preloaded no menu that the
\* role did not have.
PreloadsAreTheirs == \A q \in Calls : call[q].op = "updateRole" => call[q].menus \subseteq call[q].was

\* A menu that was ever created.
Created(m) == m \in Menus /\ menu[m].state # "absent"

\* Relations, and what calls are going to write to them, name menus that were created.
NamesCreated(c) ==
    /\ c.op \in {"updateRole", "assign"} => \A m \in c.menus : Created(m)
    /\ c.op \in {"updateMenu", "deleteMenu", "bind", "createAPI"} => Created(c.menu)
    /\ c.op = "updateAPI" => c.menu \in {"keep", NoMenu} \/ Created(c.menu)

RelatedAreCreated ==
    /\ \A r \in Roles : \A m \in roleMenus[r] : Created(m)
    /\ \A a \in Apis : menuOf[a] # NoMenu => Created(menuOf[a])
    /\ \A q \in Calls : NamesCreated(call[q])

AccessInv == /\ AccessTypeOK /\ CallsAreTyped /\ PreloadsAreTheirs /\ RelatedAreCreated
             /\ GrantsAreCurrent /\ GraphIsAnnounced

USE AccessAssumption

\* The operation of a call says what it has read.
LEMMA CallOf ==
    ASSUME CallsAreTyped, NEW q \in Calls
    PROVE  /\ call[q].op = "updateRole" => call[q] \in RoleEdit
           /\ call[q].op = "deleteRole" => call[q] \in RoleEnd
           /\ call[q].op = "assign" => call[q] \in Granting
           /\ call[q].op = "hold" => call[q] \in Holding
           /\ call[q].op = "createMenu" => call[q] \in MenuStart
           /\ call[q].op = "updateMenu" => call[q] \in MenuEdit
           /\ call[q].op = "deleteMenu" => call[q] \in MenuEnd
           /\ call[q].op = "bind" => call[q] \in Binding
           /\ call[q].op = "createAPI" => call[q] \in ApiStart
           /\ call[q].op = "updateAPI" => call[q] \in ApiEdit
           /\ call[q].op = "deleteAPI" => call[q] \in ApiEnd
           /\ call[q].op = "sync" => call[q] \in Syncing
<1> call[q] \in CallStates
  BY DEF CallsAreTyped
<1> QED
  BY DEF CallStates, NoCall, RoleEdit, RoleEnd, Granting, Holding, MenuStart, MenuEdit,
         MenuEnd, Binding, ApiStart, ApiEdit, ApiEnd, Syncing

-----------------------------------------------------------------------------
(* What calls have in common.                                                  *)

\* A transaction, or an error, ends one call and leaves the others.
LEMMA CallEnds ==
    ASSUME CallsAreTyped, NEW q \in Calls, call' = [call EXCEPT ![q] = NoCall]
    PROVE  /\ CallsAreTyped'
           /\ call'[q] = NoCall
           /\ \A p \in Calls : call'[p] = NoCall \/ call'[p] = call[p]
<1>1. call' \in [Calls -> CallStates]
  BY DEF CallsAreTyped, CallStates
<1> QED
  BY <1>1 DEF CallsAreTyped

\* A call that begins is one of those that are typed, and nothing but the calls changes.
LEMMA CallBegins ==
    ASSUME AccessTypeOK, CallsAreTyped, NEW q \in Calls, NEW c \in CallStates, Begin(q, c)
    PROVE  /\ CallsAreTyped' /\ AccessTypeOK'
           /\ call'[q] = c
           /\ \A p \in Calls : p # q => call'[p] = call[p]
<1>1. call' \in [Calls -> CallStates] /\ call'[q] = c
  BY DEF CallsAreTyped, Begin
<1>2. AccessTypeOK'
  BY <1>1 DEF AccessTypeOK, Begin, rows, relations, histories, ApiRows
<1> QED
  BY <1>1, <1>2 DEF CallsAreTyped, Begin

\* A call begins with menus that are live, and an update with menus its role has.
WellRead(c) ==
    /\ c.op = "updateRole" => c.menus \subseteq c.was
    /\ c.op \in {"updateRole", "assign"} => \A m \in c.menus : Live(m)
    /\ c.op \in {"updateMenu", "deleteMenu", "bind", "createAPI"} => Live(c.menu)
    /\ c.op = "updateAPI" => c.menu \in {"keep", NoMenu} \/ Live(c.menu)

\* What each of the reads begins with is a call of one of the kinds.
LEMMA ReadsAreTyped ==
    ASSUME AccessTypeOK, NEW q \in Calls, Reads(q)
    PROVE  \E c \in CallStates : Begin(q, c) /\ WellRead(c)
<1> DEFINE P(c) == Begin(q, c) /\ WellRead(c)
<1>1. ASSUME NEW r \in Roles, ReadForUpdateRole(q, r)
      PROVE  \E c \in CallStates : P(c)
  <2> DEFINE c == [op |-> "updateRole", role |-> r, was |-> roleMenus[r],
                   menus |-> {m \in roleMenus[r] : Live(m)}]
  <2>1. c \in RoleEdit
    BY DEF RoleEdit, AccessTypeOK
  <2>2. P(c)
    BY <1>1 DEF ReadForUpdateRole, WellRead
  <2> QED
    BY <2>1, <2>2 DEF CallStates
<1>2. ASSUME NEW r \in Roles, ReadForDeleteRole(q, r)
      PROVE  \E c \in CallStates : P(c)
  <2> DEFINE c == [op |-> "deleteRole", role |-> r]
  <2>1. c \in RoleEnd
    BY DEF RoleEnd
  <2>2. P(c)
    BY <1>2 DEF ReadForDeleteRole, WellRead
  <2> QED
    BY <2>1, <2>2 DEF CallStates
<1>3. ASSUME NEW r \in Roles, NEW ms \in SUBSET Menus, NEW as \in SUBSET Apis,
             NEW ability \in BOOLEAN, ReadForAssign(q, r, ms, as, ability)
      PROVE  \E c \in CallStates : P(c)
  <2> DEFINE c == [op |-> "assign", role |-> r, able |-> ability,
                   menus |-> {m \in ms : Live(m)}, apis |-> {a \in as : Projectable(a)}]
  <2>1. c \in Granting
    BY DEF Granting
  <2>2. P(c)
    BY <1>3 DEF ReadForAssign, WellRead
  <2> QED
    BY <2>1, <2>2 DEF CallStates
<1>4. ASSUME NEW r \in Roles, NEW give \in BOOLEAN, ReadForHold(q, r, give)
      PROVE  \E c \in CallStates : P(c)
  <2> DEFINE c == [op |-> "hold", role |-> r, give |-> give]
  <2>1. c \in Holding
    BY DEF Holding
  <2>2. P(c)
    BY <1>4 DEF ReadForHold, WellRead
  <2> QED
    BY <2>1, <2>2 DEF CallStates
<1>5. ASSUME NEW m \in Menus, NEW p \in Menus \cup {NoMenu},
             ReadForCreateMenu(q, m, p)
      PROVE  \E c \in CallStates : P(c)
  <2> DEFINE c == [op |-> "createMenu", menu |-> m, parent |-> p]
  <2>1. c \in MenuStart
    BY DEF MenuStart
  <2>2. P(c)
    BY <1>5 DEF ReadForCreateMenu, WellRead
  <2> QED
    BY <2>1, <2>2 DEF CallStates
<1>6. ASSUME NEW m \in Menus, NEW p \in Menus \cup {NoMenu},
             ReadForUpdateMenu(q, m, p)
      PROVE  \E c \in CallStates : P(c)
  <2> DEFINE c == [op |-> "updateMenu", menu |-> m, parent |-> p,
                   apis |-> {a \in Apis : menuOf[a] = m /\ Projectable(a)}]
  <2>1. c \in MenuEdit
    BY DEF MenuEdit
  <2>2. P(c)
    BY <1>6 DEF ReadForUpdateMenu, WellRead
  <2> QED
    BY <2>1, <2>2 DEF CallStates
<1>7. ASSUME NEW m \in Menus, ReadForDeleteMenu(q, m)
      PROVE  \E c \in CallStates : P(c)
  <2> DEFINE c == [op |-> "deleteMenu", menu |-> m]
  <2>1. c \in MenuEnd
    BY DEF MenuEnd
  <2>2. P(c)
    BY <1>7 DEF ReadForDeleteMenu, WellRead
  <2> QED
    BY <2>1, <2>2 DEF CallStates
<1>8. ASSUME NEW m \in Menus, NEW as \in SUBSET Apis, ReadForBind(q, m, as)
      PROVE  \E c \in CallStates : P(c)
  <2> DEFINE c == [op |-> "bind", menu |-> m, apis |-> {a \in as : Projectable(a)}]
  <2>1. c \in Binding
    BY DEF Binding
  <2>2. P(c)
    BY <1>8 DEF ReadForBind, WellRead
  <2> QED
    BY <2>1, <2>2 DEF CallStates
<1>9. ASSUME NEW a \in Apis, NEW m \in Menus, ReadForCreateAPI(q, a, m)
      PROVE  \E c \in CallStates : P(c)
  <2> DEFINE c == [op |-> "createAPI", api |-> a, menu |-> m]
  <2>1. c \in ApiStart
    BY DEF ApiStart
  <2>2. P(c)
    BY <1>9 DEF ReadForCreateAPI, WellRead
  <2> QED
    BY <2>1, <2>2 DEF CallStates
<1>10. ASSUME NEW a \in Apis, NEW on \in BOOLEAN, NEW m \in Menus \cup {"keep", NoMenu},
              ReadForUpdateAPI(q, a, on, m)
       PROVE  \E c \in CallStates : P(c)
  <2> DEFINE c == [op |-> "updateAPI", api |-> a, menu |-> m, saved |-> [api[a] EXCEPT !.on = on]]
  <2>1. c \in ApiEdit
    BY DEF ApiEdit, AccessTypeOK, ApiRows
  <2>2. P(c)
    BY <1>10 DEF ReadForUpdateAPI, WellRead
  <2> QED
    BY <2>1, <2>2 DEF CallStates
<1>11. ASSUME NEW a \in Apis, ReadForDeleteAPI(q, a)
       PROVE  \E c \in CallStates : P(c)
  <2> DEFINE c == [op |-> "deleteAPI", api |-> a]
  <2>1. c \in ApiEnd
    BY DEF ApiEnd
  <2>2. P(c)
    BY <1>11 DEF ReadForDeleteAPI, WellRead
  <2> QED
    BY <2>1, <2>2 DEF CallStates
<1>12. ASSUME NEW routes \in RouteSets, ReadForSync(q, routes)
       PROVE  \E c \in CallStates : P(c)
  <2> DEFINE c == [op |-> "sync", routes |-> routes, read |-> api]
  <2>1. c \in Syncing
    BY DEF Syncing, AccessTypeOK
  <2>2. P(c)
    BY <1>12 DEF ReadForSync, WellRead
  <2> QED
    BY <2>1, <2>2 DEF CallStates
<1> QED
  BY <1>1, <1>2, <1>3, <1>4, <1>5, <1>6, <1>7, <1>8, <1>9, <1>10, <1>11, <1>12 DEF Reads

-----------------------------------------------------------------------------
(* Types.                                                                      *)

\* The transactions keep the types of rows, relations and calls, and end their call.
LEMMA WritesAreTyped ==
    ASSUME AccessTypeOK, CallsAreTyped, NEW q \in Calls, Writes(q)
    PROVE  /\ AccessTypeOK' /\ CallsAreTyped'
           /\ call'[q] = NoCall
           /\ \A p \in Calls : call'[p] = NoCall \/ call'[p] = call[p]
<1> USE CallOf DEF AccessTypeOK, Announce, rows, relations, histories
<1>1. call' = [call EXCEPT ![q] = NoCall] /\ begun' = begun
  BY DEF Writes, Commits, UpdateRole, DeleteRole, AssignPermissions, Hold, CreateMenu,
         UpdateMenu, DeleteMenu, BindAPIs, CreateAPI, UpdateAPI, DeleteAPI, SyncAPI, Fail
<1>2. /\ CallsAreTyped'
      /\ call'[q] = NoCall
      /\ \A p \in Calls : call'[p] = NoCall \/ call'[p] = call[p]
  BY <1>1, CallEnds
<1>3. DOMAIN call' = Calls /\ begun' \in 0..MaxAccessCalls
  BY <1>1
<1>4. AccessTypeOK'
  <2>1. CASE UpdateRole(q)
    <3>1. call[q].role \in Roles /\ call[q].menus \subseteq Menus
      BY <2>1 DEF UpdateRole, Commits, RoleEdit
    <3>2. role' \in [Roles -> {"live", "deleted"}] /\ overtook' \subseteq Roles
      BY <2>1, <3>1 DEF UpdateRole
    <3>3. roleMenus' \in [Roles -> SUBSET Menus]
      BY <2>1, <3>1 DEF UpdateRole
    <3> QED
      BY <1>3, <2>1, <3>2, <3>3 DEF UpdateRole
  <2>2. CASE DeleteRole(q)
    BY <1>3, <2>2 DEF DeleteRole, Commits, RoleEnd
  <2>3. CASE AssignPermissions(q)
    <3>1. /\ call[q].role \in Roles
          /\ call[q].menus \subseteq Menus /\ call[q].apis \subseteq Apis
      BY <2>3 DEF AssignPermissions, Commits, Granting
    <3>2. roleMenus' \in [Roles -> SUBSET Menus] /\ granted' \in [Roles -> SUBSET Menus]
      BY <2>3, <3>1 DEF AssignPermissions
    <3>3. /\ roleApis' \in [Roles -> SUBSET Apis]
          /\ able' \subseteq Roles /\ overtook' \subseteq Roles
      BY <2>3, <3>1 DEF AssignPermissions
    <3> QED
      BY <1>3, <2>3, <3>2, <3>3 DEF AssignPermissions
  <2>4. CASE Hold(q)
    BY <1>3, <2>4 DEF Hold, Commits, Holding
  <2>5. CASE CreateMenu(q)
    BY <1>3, <2>5 DEF CreateMenu, Commits, MenuStart
  <2>6. CASE UpdateMenu(q)
    BY <1>3, <2>6 DEF UpdateMenu, Commits, MenuEdit
  <2>7. CASE DeleteMenu(q)
    <3>1. call[q].menu \in Menus
      BY <2>7 DEF DeleteMenu, Commits, MenuEnd
    <3>2. menu' \in [Menus -> [state : {"absent", "live", "deleted"}, parent : Menus \cup {NoMenu}]]
      BY <2>7, <3>1 DEF DeleteMenu
    <3>3. menuOf' \in [Apis -> Menus \cup {NoMenu}]
      BY <2>7, <3>1 DEF DeleteMenu
    <3> QED
      BY <1>3, <2>7, <3>2, <3>3 DEF DeleteMenu
  <2>8. CASE BindAPIs(q)
    BY <1>3, <2>8 DEF BindAPIs, Commits, Binding
  <2>9. CASE CreateAPI(q)
    BY <1>3, <2>9 DEF CreateAPI, Commits, ApiStart, ApiRows
  <2>10. CASE UpdateAPI(q)
    BY <1>3, <2>10 DEF UpdateAPI, Commits, ApiEdit
  <2>11. CASE DeleteAPI(q)
    BY <1>3, <2>11 DEF DeleteAPI, Commits, ApiEnd, ApiRows
  <2>12. CASE SyncAPI(q)
    <3>1. call[q] \in Syncing
      BY <2>12 DEF SyncAPI, Commits
    <3>2. ASSUME NEW a \in Apis PROVE Synced(call[q], a) \in ApiRows
      BY <3>1 DEF Synced, Syncing, ApiRows
    <3>3. api' \in [Apis -> ApiRows]
      BY <2>12, <3>2 DEF SyncAPI
    <3>4. silent' \in BOOLEAN
      BY <2>12 DEF SyncAPI, Overwrites
    <3> QED
      BY <1>3, <2>12, <3>3, <3>4 DEF SyncAPI
  <2>13. CASE Fail(q)
    BY <1>3, <2>13 DEF Fail
  <2> QED
    BY <2>1, <2>2, <2>3, <2>4, <2>5, <2>6, <2>7, <2>8, <2>9, <2>10, <2>11, <2>12, <2>13 DEF Writes
<1> QED
  BY <1>2, <1>4

-----------------------------------------------------------------------------
(* Menus that were created.                                                    *)

\* No menu disappears.
LEMMA CreatedStay ==
    ASSUME AccessTypeOK, CallsAreTyped, NEW q \in Calls, Reads(q) \/ Writes(q)
    PROVE  \A m \in Menus : Created(m) => Created(m)'
<1> USE DEF AccessTypeOK, Created, rows
<1>1. CASE Reads(q)
  <2>1. PICK c \in CallStates : Begin(q, c)
    BY <1>1, ReadsAreTyped
  <2> QED
    BY <2>1 DEF Begin
<1>2. CASE menu' = menu
  BY <1>2
<1>3. CASE CreateMenu(q)
  BY <1>3, CallOf DEF CreateMenu, Commits, MenuStart
<1>4. CASE UpdateMenu(q)
  BY <1>4, CallOf DEF UpdateMenu, Commits, MenuEdit
<1>5. CASE DeleteMenu(q)
  BY <1>5, CallOf DEF DeleteMenu, Commits, MenuEnd
<1> QED
  BY <1>1, <1>2, <1>3, <1>4, <1>5
     DEF Writes, UpdateRole, DeleteRole, AssignPermissions, Hold, BindAPIs, CreateAPI, UpdateAPI,
         DeleteAPI, SyncAPI, Fail

\* Relations are written with menus that were read live, or are moved and cut.
LEMMA RelatedStep ==
    ASSUME AccessTypeOK, CallsAreTyped, RelatedAreCreated,
           NEW q \in Calls, Reads(q) \/ Writes(q)
    PROVE  RelatedAreCreated'
<1>1. \A m : Created(m) => Created(m)'
  BY CreatedStay DEF Created
<1>2. \A m : Live(m) => Created(m)
  BY DEF Live, Created
<1>3. CASE Reads(q)
  <2>1. PICK c \in CallStates : Begin(q, c) /\ WellRead(c)
    BY <1>3, ReadsAreTyped
  <2>2. /\ call'[q] = c
        /\ \A p \in Calls : p # q => call'[p] = call[p]
    BY <2>1, CallBegins
  <2>3. (/\ \A r \in Roles : \A m \in roleMenus[r] : Created(m)
         /\ \A a \in Apis : menuOf[a] # NoMenu => Created(menuOf[a]))'
    BY <1>1, <2>1 DEF Begin, relations, RelatedAreCreated
  <2>4. ASSUME NEW p \in Calls PROVE NamesCreated(call[p])'
    <3>1. CASE p = q
      BY <1>1, <1>2, <2>1, <2>2, <3>1 DEF WellRead, NamesCreated
    <3>2. CASE p # q
      BY <1>1, <2>2, <3>2 DEF RelatedAreCreated, NamesCreated
    <3> QED
      BY <3>1, <3>2
  <2> QED
    BY <2>3, <2>4 DEF RelatedAreCreated
<1>4. CASE Writes(q)
  <2>1. /\ call'[q] = NoCall
        /\ \A p \in Calls : call'[p] = NoCall \/ call'[p] = call[p]
    BY <1>4, WritesAreTyped
  <2>2. ASSUME NEW p \in Calls PROVE NamesCreated(call[p])'
    BY <1>1, <2>1 DEF RelatedAreCreated, NoCall, NamesCreated
  <2>3. ASSUME NEW r \in Roles, NEW m \in roleMenus'[r] PROVE Created(m)
    <3>1. CASE UpdateRole(q)
      BY <3>1, CallOf DEF UpdateRole, Commits, RoleEdit, RelatedAreCreated, NamesCreated, AccessTypeOK
    <3>2. CASE DeleteRole(q)
      BY <3>2, CallOf DEF DeleteRole, Commits, RoleEnd, RelatedAreCreated, NamesCreated, AccessTypeOK
    <3>3. CASE AssignPermissions(q)
      BY <3>3, CallOf DEF AssignPermissions, Commits, Granting, RelatedAreCreated, NamesCreated, AccessTypeOK
    <3>4. CASE roleMenus' = roleMenus
      BY <3>4 DEF RelatedAreCreated
    <3> QED
      BY <1>4, <3>1, <3>2, <3>3, <3>4
         DEF Writes, Hold, CreateMenu, UpdateMenu, DeleteMenu, BindAPIs, CreateAPI, UpdateAPI,
             DeleteAPI, SyncAPI, Fail, relations
  <2>4. ASSUME NEW a \in Apis, menuOf'[a] # NoMenu PROVE Created(menuOf'[a])
    <3>1. CASE UpdateMenu(q)
      BY <2>4, <3>1, CallOf DEF UpdateMenu, Commits, MenuEdit, RelatedAreCreated, NamesCreated, AccessTypeOK
    <3>2. CASE DeleteMenu(q)
      BY <2>4, <3>2, CallOf DEF DeleteMenu, Commits, MenuEnd, RelatedAreCreated, NamesCreated, AccessTypeOK
    <3>3. CASE BindAPIs(q)
      BY <2>4, <3>3, CallOf DEF BindAPIs, Commits, Binding, RelatedAreCreated, NamesCreated, AccessTypeOK
    <3>4. CASE CreateAPI(q)
      BY <2>4, <3>4, CallOf DEF CreateAPI, Commits, ApiStart, RelatedAreCreated, NamesCreated, AccessTypeOK
    <3>5. CASE UpdateAPI(q)
      BY <2>4, <3>5, CallOf DEF UpdateAPI, Commits, ApiEdit, RelatedAreCreated, NamesCreated, AccessTypeOK
    <3>6. CASE DeleteAPI(q)
      BY <2>4, <3>6, CallOf DEF DeleteAPI, Commits, ApiEnd, RelatedAreCreated, NamesCreated, AccessTypeOK
    <3>7. CASE menuOf' = menuOf
      BY <2>4, <3>7 DEF RelatedAreCreated
    <3> QED
      BY <1>4, <3>1, <3>2, <3>3, <3>4, <3>5, <3>6, <3>7
         DEF Writes, UpdateRole, DeleteRole, AssignPermissions, Hold, CreateMenu, SyncAPI, Fail,
             relations
  <2>5. (/\ \A r \in Roles : \A m \in roleMenus[r] : Created(m)
         /\ \A a \in Apis : menuOf[a] # NoMenu => Created(menuOf[a]))'
    BY <1>1, <2>3, <2>4
  <2> QED
    BY <2>2, <2>5 DEF RelatedAreCreated
<1> QED
  BY <1>3, <1>4

-----------------------------------------------------------------------------
(* The menus of roles.                                                         *)

\* No call changes what another has read.
LEMMA PreloadsStep ==
    ASSUME AccessTypeOK, CallsAreTyped, PreloadsAreTheirs, NEW q \in Calls, Reads(q) \/ Writes(q)
    PROVE  PreloadsAreTheirs'
<1>1. CASE Reads(q)
  <2>1. PICK c \in CallStates : Begin(q, c) /\ WellRead(c)
    BY <1>1, ReadsAreTyped
  <2> QED
    BY <2>1, CallBegins DEF PreloadsAreTheirs, WellRead
<1>2. CASE Writes(q)
  BY <1>2, WritesAreTyped DEF PreloadsAreTheirs, NoCall
<1> QED
  BY <1>1, <1>2

\* An update of a role adds only what it has preloaded: nothing, when the menus of the
\* role are still those it read.
LEMMA GrantsStep ==
    ASSUME AccessTypeOK, CallsAreTyped, PreloadsAreTheirs, GrantsAreCurrent,
           NEW q \in Calls, Reads(q) \/ Writes(q)
    PROVE  GrantsAreCurrent'
<1> USE DEF AccessTypeOK, GrantsAreCurrent
<1>1. CASE Reads(q)
  <2>1. PICK c \in CallStates : Begin(q, c)
    BY <1>1, ReadsAreTyped
  <2> QED
    BY <2>1 DEF Begin, relations, histories
<1>2. CASE UpdateRole(q)
  <2>1. /\ call[q].role \in Roles
        /\ call[q].menus \subseteq call[q].was
    BY <1>2, CallOf DEF UpdateRole, Commits, RoleEdit, PreloadsAreTheirs
  <2> QED
    BY <1>2, <2>1 DEF UpdateRole
<1>3. CASE DeleteRole(q)
  BY <1>3, CallOf DEF DeleteRole, Commits, RoleEnd
<1>4. CASE AssignPermissions(q)
  BY <1>4, CallOf DEF AssignPermissions, Commits, Granting
<1>5. CASE UNCHANGED <<roleMenus, granted, overtook>>
  BY <1>5
<1> QED
  BY <1>1, <1>2, <1>3, <1>4, <1>5
     DEF Writes, Hold, CreateMenu, UpdateMenu, DeleteMenu, BindAPIs, CreateAPI, UpdateAPI,
         DeleteAPI, SyncAPI, Fail, relations, histories

-----------------------------------------------------------------------------
(* The graph that was announced.                                               *)

\* The graph depends on no other rows.
LEMMA GraphStays ==
    UNCHANGED <<role, menu, api, relations>> => UNCHANGED Graph
BY DEF relations, Graph, Live, Projectable

\* A synchronisation that sees no change and overwrites none makes none.
LEMMA SyncKeeps ==
    ASSUME AccessTypeOK, NEW c \in Syncing, ~SeesChange(c), ~Overwrites(c), NEW a \in Apis
    PROVE  Synced(c, a) = api[a]
<1>1. api[a] \in ApiRows /\ c.read[a] \in ApiRows
  BY DEF AccessTypeOK, Syncing
<1> QED
  BY <1>1 DEF SeesChange, Overwrites, Synced, ApiRows

\* A menu no relation names is created without any effect on the graph.
LEMMA NewMenuKeeps ==
    ASSUME AccessTypeOK, CallsAreTyped, RelatedAreCreated, NEW q \in Calls, CreateMenu(q)
    PROVE  UNCHANGED Graph
<1>1. call[q].menu \in Menus
  BY CallOf DEF CreateMenu, Commits, MenuStart
<1>2. CASE menu[call[q].menu].state # "absent"
  BY <1>2, GraphStays DEF CreateMenu
<1>3. CASE menu[call[q].menu].state = "absent"
  <2>1. \A m \in Menus : m # call[q].menu => (Live(m)' <=> Live(m))
    BY <1>1, <1>3 DEF CreateMenu, Live, AccessTypeOK
  <2>2. /\ \A r \in Roles : call[q].menu \notin roleMenus[r]
        /\ \A a \in Apis : menuOf[a] # call[q].menu
    BY <1>1, <1>3 DEF RelatedAreCreated, Created
  <2> QED
    BY <2>1, <2>2 DEF CreateMenu, relations, Graph, Projectable
<1> QED
  BY <1>2, <1>3

\* A step announces the graph it leaves, or leaves it alone, or is a synchronisation
\* that overwrites unseen.
LEMMA GraphStep ==
    ASSUME AccessTypeOK, CallsAreTyped, RelatedAreCreated, GraphIsAnnounced,
           NEW q \in Calls, Reads(q) \/ Writes(q)
    PROVE  GraphIsAnnounced'
<1> USE DEF GraphIsAnnounced
<1>1. CASE Reads(q)
  <2>1. PICK c \in CallStates : Begin(q, c)
    BY <1>1, ReadsAreTyped
  <2> QED
    BY <2>1, GraphStays DEF Begin, rows
<1>2. CASE Announce
  BY <1>2 DEF Announce
<1>3. CASE Hold(q) \/ Fail(q)
  BY <1>3, GraphStays DEF Hold, Fail, rows
<1>4. CASE CreateMenu(q)
  BY <1>4, NewMenuKeeps DEF CreateMenu
<1>5. CASE SyncAPI(q) /\ ~SeesChange(call[q])
  <2>1. call[q] \in Syncing
    BY <1>5, CallOf DEF SyncAPI, Commits
  <2>2. CASE Overwrites(call[q])
    BY <1>5, <2>2 DEF SyncAPI
  <2>3. CASE ~Overwrites(call[q])
    <3>1. api' = api
      BY <1>5, <2>1, <2>3, SyncKeeps DEF SyncAPI, AccessTypeOK
    <3> QED
      BY <1>5, <2>3, <3>1, GraphStays DEF SyncAPI
  <2> QED
    BY <2>2, <2>3
<1> QED
  BY <1>1, <1>2, <1>3, <1>4, <1>5
     DEF Writes, UpdateRole, DeleteRole, AssignPermissions, UpdateMenu, DeleteMenu, BindAPIs,
         CreateAPI, UpdateAPI, DeleteAPI, SyncAPI

-----------------------------------------------------------------------------
(* The theorems.                                                               *)

\* The first graph is announced, and no call has read anything.
LEMMA AccessInvInit == AccessInit => AccessInv
<1> SUFFICES ASSUME AccessInit PROVE AccessInv
  OBVIOUS
<1> USE DEF AccessInit
<1>1. AccessTypeOK
  <2>1. menu \in [Menus -> [state : {"absent", "live", "deleted"}, parent : Menus \cup {NoMenu}]]
    <3>1. menu \in [Menus -> [state : {"absent", "live"}, parent : {NoMenu}]]
      OBVIOUS
    <3>2. [state : {"absent", "live"}, parent : {NoMenu}]
            \subseteq [state : {"absent", "live", "deleted"}, parent : Menus \cup {NoMenu}]
      OBVIOUS
    <3> QED
      BY <3>1, <3>2
  <2>2. api \in [Apis -> ApiRows]
    <3>1. {[state |-> "absent", on |-> FALSE], [state |-> "registered", on |-> TRUE]} \subseteq ApiRows
      BY DEF ApiRows
    <3> QED
      BY <3>1
  <2>3. /\ role \in [Roles -> {"live", "deleted"}] /\ held \subseteq Roles
        /\ roleApis \in [Roles -> SUBSET Apis] /\ able \subseteq Roles
    OBVIOUS
  <2>4. /\ menuOf \in [Apis -> Menus \cup {NoMenu}]
        /\ DOMAIN call = Calls /\ begun \in 0..MaxAccessCalls
        /\ overtook \subseteq Roles
    OBVIOUS
  <2>5. roleMenus \in [Roles -> SUBSET Menus] /\ granted \in [Roles -> SUBSET Menus]
    <3>1. SUBSET {m \in Menus : Live(m)} \subseteq SUBSET Menus
      OBVIOUS
    <3> QED
      BY <3>1
  <2>6. silent \in BOOLEAN
    OBVIOUS
  <2> QED
    BY <2>1, <2>2, <2>3, <2>4, <2>5, <2>6 DEF AccessTypeOK
<1>2. CallsAreTyped
  BY DEF CallsAreTyped, CallStates
<1>3. PreloadsAreTheirs
  BY DEF PreloadsAreTheirs, NoCall
<1>4. RelatedAreCreated
  BY DEF RelatedAreCreated, NamesCreated, NoCall, Created, Live
<1>5. GrantsAreCurrent /\ GraphIsAnnounced
  BY DEF GrantsAreCurrent, GraphIsAnnounced
<1> QED
  BY <1>1, <1>2, <1>3, <1>4, <1>5 DEF AccessInv

\* Every step keeps the inductive invariant.
LEMMA AccessInvStep == AccessInv /\ [AccessNext]_accessVars => AccessInv'
<1>1. ASSUME AccessInv, AccessNext PROVE AccessInv'
  <2>1. PICK q \in Calls : Reads(q) \/ Writes(q)
    BY <1>1 DEF AccessNext
  <2>2. AccessTypeOK' /\ CallsAreTyped'
    BY <1>1, <2>1, ReadsAreTyped, CallBegins, WritesAreTyped DEF AccessInv
  <2> QED
    BY <1>1, <2>1, <2>2, PreloadsStep, RelatedStep, GrantsStep, GraphStep DEF AccessInv
<1>2. ASSUME AccessInv, UNCHANGED accessVars PROVE AccessInv'
  <2>1. UNCHANGED Graph
    BY <1>2, GraphStays DEF accessVars, relations
  <2> QED
    BY <1>2, <2>1
       DEF AccessInv, accessVars, AccessTypeOK, CallsAreTyped, PreloadsAreTheirs, RelatedAreCreated,
           NamesCreated, Created, GrantsAreCurrent, GraphIsAnnounced
<1> QED
  BY <1>1, <1>2

\* The inductive invariant holds in every reachable state.
LEMMA AccessInvariance == AccessSpec => []AccessInv
<1> QED
  BY AccessInvInit, AccessInvStep, PTL DEF AccessSpec

\* The rows, their relations and the calls keep their types.
THEOREM AccessIsTyped == AccessSpec => [](AccessTypeOK /\ CallsAreTyped)
<1>1. AccessInv => AccessTypeOK /\ CallsAreTyped
  BY DEF AccessInv
<1> QED
  BY <1>1, AccessInvariance, PTL

\* Every transaction that changes the graph of permissions announces it
\* (PublishPermissionGraphChangedInTx), but for a synchronisation of the routes that
\* overwrites what it has not seen.
THEOREM GraphsAreAnnounced == AccessSpec => []GraphIsAnnounced
<1>1. AccessInv => GraphIsAnnounced
  BY DEF AccessInv
<1> QED
  BY <1>1, AccessInvariance, PTL

\* A role has the menus that AssignPermissions last gave it, and others only after a late
\* UpdateRole.
THEOREM GrantsStand == AccessSpec => []GrantsAreCurrent
<1>1. AccessInv => GrantsAreCurrent
  BY DEF AccessInv
<1> QED
  BY <1>1, AccessInvariance, PTL

\* DeleteAPI archives for good: only a call that read the row before brings it back.
THEOREM ArchivesStay == AccessSpec => ArchivedStays
<1> DEFINE Stays ==
      \A a \in Apis :
         api[a].state = "archived" /\ api'[a].state # "archived" =>
            \E q \in Calls :
                /\ call'[q] = NoCall
                /\ \/ call[q].op = "updateAPI" /\ call[q].saved.state # "archived"
                   \/ call[q].op = "sync" /\ call[q].read[a].state # "archived"
<1>1. AccessInv /\ [AccessNext]_accessVars => [Stays]_accessVars
  <2> SUFFICES ASSUME AccessInv, AccessNext, NEW a \in Apis,
                      api[a].state = "archived", api'[a].state # "archived"
               PROVE  \E q \in Calls :
                        /\ call'[q] = NoCall
                        /\ \/ call[q].op = "updateAPI" /\ call[q].saved.state # "archived"
                           \/ call[q].op = "sync" /\ call[q].read[a].state # "archived"
    OBVIOUS
  <2>1. PICK q \in Calls : Reads(q) \/ Writes(q)
    BY DEF AccessNext
  <2> USE DEF AccessInv, AccessTypeOK, ApiRows
  <2>2. CASE Reads(q)
    BY <2>2, ReadsAreTyped DEF Begin, rows
  <2>3. CASE Writes(q)
    <3>1. call'[q] = NoCall
      BY <2>3, WritesAreTyped
    <3>2. CASE CreateAPI(q)
      BY <3>2, CallOf DEF CreateAPI, Commits, ApiStart
    <3>3. CASE UpdateAPI(q)
      BY <3>1, <3>3, CallOf DEF UpdateAPI, Commits, ApiEdit
    <3>4. CASE DeleteAPI(q)
      BY <3>4, CallOf DEF DeleteAPI, Commits, ApiEnd
    <3>5. CASE SyncAPI(q)
      <4>1. call[q].op = "sync" /\ Synced(call[q], a).state # "archived"
        BY <3>5 DEF SyncAPI, Commits
      <4>2. call[q].read[a].state # "archived"
        BY <4>1 DEF Synced
      <4> QED
        BY <3>1, <4>1, <4>2
    <3>6. CASE api' = api
      BY <3>6
    <3> QED
      BY <2>3, <3>2, <3>3, <3>4, <3>5, <3>6
         DEF Writes, UpdateRole, DeleteRole, AssignPermissions, Hold, CreateMenu, UpdateMenu,
             DeleteMenu, BindAPIs, Fail, rows
  <2> QED
    BY <2>1, <2>2, <2>3
<1> QED
  BY <1>1, AccessInvariance, PTL DEF AccessSpec, ArchivedStays

-----------------------------------------------------------------------------
(* Sessions: the inductive invariant.                                          *)

\* A token is in a cache only after it is in the table that a restart reads.
RefusedIsListed == \A i \in Instances : refused[i] \subseteq listed

\* A login begins without a former token, and has put the one it found in the table
\* when it passes the list step.
OldIsListed ==
    \A q \in Requests : /\ req[q].pc = "get" => req[q].old = NoToken
                        /\ req[q].pc = "cache" => req[q].old \in listed
                        /\ req[q].pc = "set" => req[q].old \in listed \cup {NoToken}

\* Logouts whose token is still to be listed.
Revoking == {q \in Requests : req[q].pc = "revoke"}

\* A call that saves the row changes at most the password of what it read.
SavesWhatItRead ==
    \A q \in Requests : req[q].pc = "save" =>
        req[q].row = [req[q].was EXCEPT !.password = req[q].row.password]

SessionInv == SessionTypeOK /\ RefusedIsListed /\ OldIsListed /\ OthersAreListed
               /\ SavesWhatItRead /\ StatusIsDecided

-----------------------------------------------------------------------------
(* The states of a request.                                                    *)

Getting  == [pc : {"get", "set"}, at : Instances, token : Tokens, old : Tokens \cup {NoToken}]
Listing  == [pc : {"list", "revoke"}, at : Instances, token : Tokens, old : Tokens]
Caching  == [pc : {"cache"}, at : Instances, token : Tokens, old : Tokens, back : BOOLEAN]
Saving   == [pc : {"save"}, was : Rows, row : Rows]
Deciding == [pc : {"status", "forget"}, active : BOOLEAN]
States   == {Idle} \cup Getting \cup Listing \cup Caching \cup Saving \cup Deciding

USE SessionAssumption

\* The pc of a request says which of its states it is in.
LEMMA StateOf ==
    ASSUME SessionTypeOK, NEW q \in Requests
    PROVE  /\ req \in [Requests -> States]
           /\ req[q].pc \in {"get", "set"} => req[q] \in Getting
           /\ req[q].pc \in {"list", "revoke"} => req[q] \in Listing
           /\ req[q].pc = "cache" => req[q] \in Caching
           /\ req[q].pc = "save" => req[q] \in Saving
           /\ req[q].pc \in {"status", "forget"} => req[q] \in Deciding
<1>1. req \in [Requests -> States]
  BY DEF SessionTypeOK, States, Getting, Listing, Caching, Saving, Deciding
<1> QED
  BY <1>1 DEF States, Getting, Listing, Caching, Saving, Deciding, Idle

-----------------------------------------------------------------------------
(* The invariant is inductive.                                                 *)

\* Nobody is logged in and the row is as it was decided.
LEMMA SessionInvInit == SessionInit => SessionInv
<1> SUFFICES ASSUME SessionInit PROVE SessionInv
  OBVIOUS
<1>1. SessionTypeOK
  <2>1. req \in [Requests -> States]
    BY DEF SessionInit, States
  <2>2. /\ now \in Tokens /\ recorded \in Tokens \cup {NoToken} /\ row \in Rows
        /\ decided \in Rows /\ calls \in 0..MaxCalls /\ faults \in 0..MaxFaults
    BY DEF SessionInit, Tokens, Rows
  <2> QED
    BY <2>1, <2>2 DEF SessionInit, SessionTypeOK, States, Getting, Listing, Caching, Saving, Deciding
<1>2. \A q \in Requests : req[q].pc = "idle"
  BY DEF SessionInit, Idle
<1>3. RefusedIsListed /\ OldIsListed /\ SavesWhatItRead
  BY <1>2 DEF SessionInit, RefusedIsListed, OldIsListed, SavesWhatItRead
<1>4. OthersAreListed /\ StatusIsDecided
  BY DEF SessionInit, OthersAreListed, StatusIsDecided
<1> QED
  BY <1>1, <1>3, <1>4 DEF SessionInv

\* What a lost record adds to forgotten is a token.
LEMMA DroppedType == SessionTypeOK => Dropped \subseteq Tokens
BY DEF SessionTypeOK, Dropped

\* Request q goes on in state c.
Moves(q, c) == req' = [req EXCEPT ![q] = c]

\* Types.
LEMMA TypeStep == SessionTypeOK /\ [SessionNext]_sessionVars => SessionTypeOK'
<1> SUFFICES ASSUME SessionTypeOK, [SessionNext]_sessionVars PROVE SessionTypeOK'
  OBVIOUS
<1> USE DEF Rows, Fault
<1> DEFINE Typed == req' \in [Requests -> States]
<1>0. SessionTypeOK' <=> /\ now' \in Tokens /\ recorded' \in Tokens \cup {NoToken}
                  /\ listed' \subseteq Tokens /\ refused' \in [Instances -> SUBSET Tokens]
                  /\ issued' \subseteq Tokens /\ row' \in Rows /\ Typed
                  /\ calls' \in 0..MaxCalls /\ faults' \in 0..MaxFaults
                  /\ forgotten' \subseteq Tokens /\ blind' \subseteq Instances
                  /\ decided' \in Rows /\ overlapped' \in BOOLEAN
  BY DEF SessionTypeOK, States, Getting, Listing, Caching, Saving, Deciding
<1>1. /\ req \in [Requests -> States] /\ Idle \in States
      /\ \A q \in Requests, c \in States : Moves(q, c) => Typed
  BY DEF SessionTypeOK, States, Getting, Listing, Caching, Saving, Deciding, Moves
<1> HIDE DEF Typed
<1>2. CASE UNCHANGED sessionVars
  BY <1>2 DEF sessionVars, SessionTypeOK
<1>3. CASE Tick
  BY <1>3 DEF Tick, SessionTypeOK, Tokens, tokens, user
<1>4. ASSUME NEW q \in Requests, NEW i \in Instances, Login(q, i)
      PROVE  SessionTypeOK'
  <2>1. [pc |-> "get", at |-> i, token |-> now, old |-> NoToken] \in States
    BY DEF SessionTypeOK, States, Getting
  <2>2. Typed
    BY <1>1, <1>4, <2>1 DEF Login, Call, Moves
  <2> QED
    BY <1>0, <1>4, <2>2 DEF Login, Call, SessionTypeOK, tokens, user
<1>5. ASSUME NEW q \in Requests, NEW i \in Instances, NEW t \in Tokens, Logout(q, i, t)
      PROVE  SessionTypeOK'
  <2>1. [pc |-> "revoke", at |-> i, token |-> t, old |-> t] \in States
    BY DEF SessionTypeOK, States, Listing
  <2>2. Typed
    BY <1>1, <1>5, <2>1 DEF Logout, Call, Moves
  <2>3. forgotten' \subseteq Tokens
    BY <1>5, DroppedType DEF Logout, SessionTypeOK
  <2> QED
    BY <1>0, <1>5, <2>2, <2>3 DEF Logout, Call, SessionTypeOK, user
<1>6. ASSUME NEW q \in Requests, GetRedisJWT(q)
      PROVE  SessionTypeOK'
  <2> DEFINE c == IF recorded = NoToken THEN [req[q] EXCEPT !.pc = "set"]
                  ELSE [req[q] EXCEPT !.pc = "list", !.old = recorded]
  <2>1. req[q] \in Getting
    BY <1>6, StateOf DEF GetRedisJWT
  <2>2. c \in States
    BY <2>1 DEF SessionTypeOK, States, Getting, Listing
  <2>3. Moves(q, c)
    BY <1>6 DEF GetRedisJWT, SessionTypeOK, Moves
  <2> HIDE DEF c
  <2> QED
    BY <1>0, <1>1, <1>6, <2>2, <2>3 DEF GetRedisJWT, SessionTypeOK, tokens, user
<1>7. ASSUME NEW q \in Requests, CreateJwtBlacklist(q)
      PROVE  SessionTypeOK'
  <2> DEFINE c == [pc |-> "cache", at |-> req[q].at, token |-> req[q].token,
                   old |-> req[q].old, back |-> req[q].pc = "list"]
  <2>1. req[q] \in Listing
    BY <1>7, StateOf DEF CreateJwtBlacklist
  <2>2. c \in States
    BY <2>1 DEF States, Listing, Caching
  <2>3. Moves(q, c)
    BY <1>7 DEF CreateJwtBlacklist, SessionTypeOK, Moves
  <2>4. listed' \subseteq Tokens
    BY <1>7, <2>1 DEF CreateJwtBlacklist, SessionTypeOK, Listing
  <2> HIDE DEF c
  <2> QED
    BY <1>0, <1>1, <1>7, <2>2, <2>3, <2>4 DEF CreateJwtBlacklist, SessionTypeOK, user
<1>8. ASSUME NEW q \in Requests, SetBlackCache(q)
      PROVE  SessionTypeOK'
  <2> DEFINE c == req[q]
             d == IF c.back THEN [pc |-> "set", at |-> c.at, token |-> c.token, old |-> c.old]
                  ELSE Idle
  <2>1. c \in Caching
    BY <1>8, StateOf DEF SetBlackCache
  <2>2. d \in States
    BY <2>1 DEF States, Caching, Getting
  <2>3. Moves(q, d)
    BY <1>8 DEF SetBlackCache, SessionTypeOK, Moves
  <2>4. refused' \in [Instances -> SUBSET Tokens]
    BY <1>8, <2>1 DEF SetBlackCache, SessionTypeOK, Caching
  <2> HIDE DEF d
  <2> QED
    BY <1>0, <1>1, <1>8, <2>2, <2>3, <2>4 DEF SetBlackCache, SessionTypeOK, user
<1>9. ASSUME NEW q \in Requests, SetRedisJWT(q) \/ LoginError(q)
      PROVE  SessionTypeOK'
  <2>1. Typed
    BY <1>1, <1>9 DEF SetRedisJWT, LoginError, End, Moves
  <2>2. req[q].pc = "set" => req[q].token \in Tokens
    BY StateOf DEF Getting
  <2>3. /\ recorded' \in Tokens \cup {NoToken} /\ forgotten' \subseteq Tokens
        /\ issued' \subseteq Tokens
    BY <1>9, <2>2, DroppedType DEF SetRedisJWT, LoginError, Record, SessionTypeOK
  <2> QED
    BY <1>0, <1>9, <2>1, <2>3 DEF SetRedisJWT, LoginError, SessionTypeOK, user
<1>10. ASSUME NEW q \in Requests, LogoutError(q)
       PROVE  SessionTypeOK'
  <2>1. Typed
    BY <1>1, <1>10 DEF LogoutError, End, Moves
  <2>2. req[q].old \in Tokens
    BY <1>10, StateOf DEF LogoutError, Listing
  <2> QED
    BY <1>0, <1>10, <2>1, <2>2 DEF LogoutError, SessionTypeOK, user
<1>11. ASSUME NEW q \in Requests, NEW active \in BOOLEAN, ReadForStatus(q, active)
       PROVE  SessionTypeOK'
  <2>1. [pc |-> "status", active |-> active] \in States
    BY DEF States, Deciding
  <2>2. Typed
    BY <1>1, <1>11, <2>1 DEF ReadForStatus, Call, Moves
  <2> QED
    BY <1>0, <1>11, <2>2 DEF ReadForStatus, Call, SessionTypeOK, tokens, user
<1>12. ASSUME NEW q \in Requests, UpdateUserStatus(q)
       PROVE  SessionTypeOK'
  <2> DEFINE c == [req[q] EXCEPT !.pc = "forget"]
  <2>1. req[q] \in Deciding
    BY <1>12, StateOf DEF UpdateUserStatus
  <2>2. c \in States
    BY <2>1 DEF States, Deciding
  <2>3. Moves(q, c)
    BY <1>12 DEF UpdateUserStatus, Goto, SessionTypeOK, Moves
  <2>4. row' \in Rows /\ decided' \in Rows
    BY <1>12, <2>1 DEF UpdateUserStatus, SessionTypeOK, Deciding
  <2> HIDE DEF c
  <2> QED
    BY <1>0, <1>1, <1>12, <2>2, <2>3, <2>4 DEF UpdateUserStatus, SessionTypeOK, tokens
<1>13. ASSUME NEW q \in Requests, ForgetSession(q)
       PROVE  SessionTypeOK'
  <2>1. Typed
    BY <1>1, <1>13 DEF ForgetSession, End, Moves
  <2> QED
    BY <1>0, <1>13, <2>1, DroppedType DEF ForgetSession, SessionTypeOK, user
<1>14. ASSUME NEW q \in Requests, NEW password \in {row.password, calls + 1},
              ReadForSave(q, password)
       PROVE  SessionTypeOK'
  <2>1. password \in 0..MaxCalls
    BY <1>14 DEF ReadForSave, Call, SessionTypeOK
  <2>2. [pc |-> "save", was |-> row, row |-> [row EXCEPT !.password = password]] \in States
    BY <2>1 DEF States, Saving, SessionTypeOK
  <2>3. Typed
    BY <1>1, <1>14, <2>2 DEF ReadForSave, Call, Moves
  <2> QED
    BY <1>0, <1>14, <2>3 DEF ReadForSave, Call, SessionTypeOK, tokens, user
<1>15. ASSUME NEW q \in Requests, SaveUser(q)
       PROVE  SessionTypeOK'
  <2>1. req[q] \in Saving
    BY <1>15, StateOf DEF SaveUser
  <2>2. Typed
    BY <1>1, <1>15 DEF SaveUser, End, Moves
  <2>3. row' \in Rows /\ decided' \in Rows /\ overlapped' \in BOOLEAN
    BY <1>15, <2>1 DEF SaveUser, Saving, SessionTypeOK
  <2> QED
    BY <1>0, <1>15, <2>2, <2>3 DEF SaveUser, SessionTypeOK, tokens
<1>16. ASSUME NEW i \in Instances, Restart(i)
       PROVE  SessionTypeOK'
  <2>1. Typed
    BY <1>1, <1>16 DEF Restart, Typed
  <2>2. \A q \in Requests : req[q].pc = "revoke" => req[q].old \in Tokens
    BY StateOf DEF Listing
  <2>3. forgotten' \subseteq Tokens
    BY <1>16, <2>2 DEF Restart, SessionTypeOK
  <2>4. refused' \in [Instances -> SUBSET Tokens] /\ blind' \subseteq Instances
    BY <1>16 DEF Restart, SessionTypeOK
  <2> QED
    BY <1>0, <1>16, <2>1, <2>3, <2>4 DEF Restart, SessionTypeOK, user
<1> QED
  BY <1>2, <1>3, <1>4, <1>5, <1>6, <1>7, <1>8, <1>9, <1>10, <1>11, <1>12, <1>13, <1>14,
     <1>15, <1>16 DEF SessionNext

\* The table only grows, a cache gets a token after the table and a login goes on to
\* set after the cache.
LEMMA ListedStep ==
    SessionTypeOK /\ RefusedIsListed /\ OldIsListed /\ [SessionNext]_sessionVars
      => RefusedIsListed' /\ OldIsListed'
<1> SUFFICES ASSUME SessionTypeOK, RefusedIsListed, OldIsListed, [SessionNext]_sessionVars
             PROVE  RefusedIsListed' /\ OldIsListed'
  OBVIOUS
<1>1. ASSUME listed \subseteq listed', refused' = refused,
             \A p \in Requests : req'[p] = req[p] \/ req'[p].pc \notin {"get", "cache", "set"}
      PROVE  RefusedIsListed' /\ OldIsListed'
  BY <1>1 DEF RefusedIsListed, OldIsListed
<1>2. CASE UNCHANGED sessionVars \/ Tick
  BY <1>1, <1>2 DEF sessionVars, Tick, tokens
<1>3. ASSUME NEW q \in Requests,
             \/ \E i \in Instances, t \in Tokens : Logout(q, i, t)
             \/ \E active \in BOOLEAN : ReadForStatus(q, active)
             \/ \E password \in {row.password, calls + 1} : ReadForSave(q, password)
      PROVE  RefusedIsListed' /\ OldIsListed'
  <2>1. \A p \in Requests : req'[p] = req[p] \/ req'[p].pc \notin {"get", "cache", "set"}
    BY <1>3 DEF Logout, ReadForStatus, ReadForSave, Call, SessionTypeOK
  <2> QED
    BY <1>1, <1>3, <2>1 DEF Logout, ReadForStatus, ReadForSave, tokens
<1>4. ASSUME NEW q \in Requests, \/ LoginError(q) \/ LogoutError(q) \/ UpdateUserStatus(q)
                                 \/ ForgetSession(q) \/ SaveUser(q) \/ SetRedisJWT(q)
      PROVE  RefusedIsListed' /\ OldIsListed'
  <2>1. \A p \in Requests : req'[p] = req[p] \/ req'[p].pc \notin {"get", "cache", "set"}
    <3>1. CASE UpdateUserStatus(q)
      <4>1. req[q] \in Deciding
        BY <3>1, StateOf DEF UpdateUserStatus
      <4> QED
        BY <3>1, <4>1 DEF UpdateUserStatus, Goto, SessionTypeOK, Deciding
    <3> QED
      BY <1>4, <3>1 DEF LoginError, LogoutError, ForgetSession, SaveUser, SetRedisJWT,
                        End, Idle, SessionTypeOK
  <2> QED
    BY <1>1, <1>4, <2>1 DEF LoginError, LogoutError, UpdateUserStatus, ForgetSession,
                            SaveUser, SetRedisJWT, tokens
<1>5. ASSUME NEW q \in Requests, GetRedisJWT(q)
      PROVE  RefusedIsListed' /\ OldIsListed'
  <2>1. req[q] \in Getting /\ req[q].pc = "get"
    BY <1>5, StateOf DEF GetRedisJWT
  <2>2. UNCHANGED <<listed, refused>>
    BY <1>5 DEF GetRedisJWT, tokens
  <2>3. CASE recorded # NoToken
    BY <1>1, <1>5, <2>1, <2>2, <2>3 DEF GetRedisJWT, SessionTypeOK, Getting
  <2>4. CASE recorded = NoToken
    BY <1>5, <2>1, <2>2, <2>4 DEF GetRedisJWT, SessionTypeOK, RefusedIsListed, OldIsListed, Getting
  <2> QED
    BY <2>3, <2>4
<1>6. ASSUME NEW q \in Requests, CreateJwtBlacklist(q)
      PROVE  RefusedIsListed' /\ OldIsListed'
  BY <1>6 DEF CreateJwtBlacklist, SessionTypeOK, RefusedIsListed, OldIsListed
<1>7. ASSUME NEW q \in Requests, SetBlackCache(q)
      PROVE  RefusedIsListed' /\ OldIsListed'
  <2>1. req[q] \in Caching /\ req[q].pc = "cache"
    BY <1>7, StateOf DEF SetBlackCache
  <2>2. RefusedIsListed'
    <3>1. req[q].old \in listed /\ listed' = listed
      BY <1>7, <2>1 DEF SetBlackCache, OldIsListed
    <3>2. \A i \in Instances : refused'[i] \subseteq refused[i] \cup {req[q].old}
      BY <1>7 DEF SetBlackCache, SessionTypeOK
    <3> QED
      BY <3>1, <3>2 DEF RefusedIsListed
  <2>3. OldIsListed'
    BY <1>7, <2>1 DEF SetBlackCache, SessionTypeOK, OldIsListed, Idle
  <2> QED
    BY <2>2, <2>3
<1>8. ASSUME NEW i \in Instances, Restart(i)
      PROVE  RefusedIsListed' /\ OldIsListed'
  <2>1. RefusedIsListed'
    BY <1>8 DEF Restart, SessionTypeOK, RefusedIsListed
  <2>2. OldIsListed'
    BY <1>8 DEF Restart, OldIsListed, Idle
  <2> QED
    BY <2>1, <2>2
<1>9. ASSUME NEW q \in Requests, NEW i \in Instances, Login(q, i)
      PROVE  RefusedIsListed' /\ OldIsListed'
  <2>1. /\ \A p \in Requests : p # q => req'[p] = req[p]
        /\ req'[q].pc = "get" /\ req'[q].old = NoToken
        /\ UNCHANGED <<listed, refused>>
    BY <1>9 DEF Login, Call, tokens, SessionTypeOK
  <2> QED
    BY <2>1 DEF RefusedIsListed, OldIsListed
<1> QED
  BY <1>2, <1>3, <1>4, <1>5, <1>6, <1>7, <1>8, <1>9 DEF SessionNext

\* A record is written over only by a login that has listed what it read there, or
\* its token is forgotten.
LEMMA OthersStep ==
    SessionTypeOK /\ OldIsListed /\ OthersAreListed /\ [SessionNext]_sessionVars
      => OthersAreListed'
<1> SUFFICES ASSUME SessionTypeOK, OldIsListed, OthersAreListed, [SessionNext]_sessionVars,
                    NEW t, t \in issued', t \notin listed', t # recorded', t \notin forgotten'
             PROVE  \E p \in Revoking' : t = req'[p].old
  BY DEF OthersAreListed, Revoking
<1>1. t \in issued /\ t \notin listed =>
         t = recorded \/ t \in forgotten \/ \E p \in Revoking : t = req[p].old
  BY DEF OthersAreListed, Revoking
<1>2. ASSUME t \in issued, listed \subseteq listed', forgotten \subseteq forgotten',
             t = recorded => t \in Dropped,
             Dropped \subseteq forgotten' \/ recorded' = recorded,
             \A p \in Revoking : req'[p] = req[p] \/ req[p].old \in forgotten' \cup listed'
      PROVE  \E p \in Revoking' : t = req'[p].old
  BY <1>1, <1>2 DEF Revoking
<1>3. t \in issued /\ t \notin listed /\ t = recorded => t \in Dropped
  BY DEF Dropped
<1>4. CASE UNCHANGED sessionVars \/ Tick
  BY <1>1, <1>4 DEF sessionVars, Tick, tokens, Revoking
<1>5. ASSUME NEW q \in Requests,
             \/ \E i \in Instances : Login(q, i)
             \/ \E active \in BOOLEAN : ReadForStatus(q, active)
             \/ \E password \in {row.password, calls + 1} : ReadForSave(q, password)
             \/ GetRedisJWT(q) \/ SetBlackCache(q) \/ UpdateUserStatus(q) \/ SaveUser(q)
      PROVE  \E p \in Revoking' : t = req'[p].old
  <2>1. UNCHANGED <<recorded, listed, issued, forgotten>>
    BY <1>5 DEF Login, ReadForStatus, ReadForSave, GetRedisJWT, SetBlackCache,
                UpdateUserStatus, SaveUser, tokens
  <2>2. \A p \in Revoking : req'[p] = req[p]
    BY <1>5 DEF Login, ReadForStatus, ReadForSave, GetRedisJWT, SetBlackCache, Idle,
                UpdateUserStatus, SaveUser, Call, Goto, End, Revoking, SessionTypeOK
  <2> QED
    BY <1>1, <2>1, <2>2 DEF Revoking
<1>6. ASSUME NEW q \in Requests, NEW i \in Instances, NEW x \in Tokens, Logout(q, i, x)
      PROVE  \E p \in Revoking' : t = req'[p].old
  <2>1. \A p \in Revoking : req'[p] = req[p]
    BY <1>6 DEF Logout, Call, Revoking, Idle, SessionTypeOK
  <2>2. q \in Revoking' /\ req'[q].old = x
    BY <1>6 DEF Logout, Call, Revoking, SessionTypeOK
  <2>3. t \in issued /\ t \notin listed
    BY <1>6 DEF Logout
  <2>4. CASE t = x
    BY <2>2, <2>4
  <2>5. CASE t # x
    <3>1. t # recorded /\ t \notin forgotten
      BY <1>3, <1>6, <2>3, <2>5 DEF Logout
    <3> QED
      BY <1>1, <2>1, <2>3, <3>1 DEF Revoking
  <2> QED
    BY <2>4, <2>5
<1>7. ASSUME NEW q \in Requests, CreateJwtBlacklist(q)
      PROVE  \E p \in Revoking' : t = req'[p].old
  <2>1. \A p \in Requests : p # q => req'[p] = req[p]
    BY <1>7 DEF CreateJwtBlacklist, SessionTypeOK
  <2>2. req[q].old \in listed' /\ UNCHANGED <<recorded, issued, forgotten>>
    BY <1>7 DEF CreateJwtBlacklist
  <2>3. listed \subseteq listed'
    BY <1>7 DEF CreateJwtBlacklist
  <2> QED
    BY <1>1, <2>1, <2>2, <2>3 DEF Revoking
<1>8. ASSUME NEW q \in Requests, SetRedisJWT(q) \/ LoginError(q) \/ LogoutError(q) \/ ForgetSession(q)
      PROVE  \E p \in Revoking' : t = req'[p].old
  <2>1. /\ UNCHANGED listed /\ forgotten \subseteq forgotten'
        /\ \A p \in Requests : p # q => req'[p] = req[p]
    BY <1>8 DEF SetRedisJWT, LoginError, LogoutError, ForgetSession, Record, End, SessionTypeOK
  <2>2. q \in Revoking => req[q].old \in forgotten'
    BY <1>8 DEF SetRedisJWT, LoginError, LogoutError, ForgetSession, Revoking
  <2>3. t \in issued /\ t \notin listed
    BY <1>8, <2>1 DEF SetRedisJWT, LoginError, LogoutError, ForgetSession, Record
  <2>4. t # recorded
    <3>1. ASSUME req[q].pc = "set", Record(req[q])
          PROVE  t # recorded
      <4>1. req[q].old \in listed \cup {NoToken}
        BY <3>1 DEF OldIsListed
      <4>2. t # NoToken
        BY <2>3 DEF SessionTypeOK, Tokens
      <4> QED
        BY <1>3, <2>3, <3>1, <4>1, <4>2 DEF Record
    <3> QED
      BY <1>3, <1>8, <2>3, <3>1 DEF SetRedisJWT, LoginError, LogoutError, ForgetSession
  <2> QED
    BY <1>1, <2>1, <2>2, <2>3, <2>4 DEF Revoking
<1>9. ASSUME NEW i \in Instances, Restart(i)
      PROVE  \E p \in Revoking' : t = req'[p].old
  <2>1. UNCHANGED <<recorded, listed, issued>> /\ forgotten \subseteq forgotten'
    BY <1>9 DEF Restart
  <2>2. \A p \in Revoking : req'[p] = req[p] \/ req[p].old \in forgotten'
    BY <1>9 DEF Restart, Revoking
  <2> QED
    BY <1>1, <2>1, <2>2 DEF Revoking
<1> QED
  BY <1>4, <1>5, <1>6, <1>7, <1>8, <1>9 DEF SessionNext

\* As long as no saved row had changed since it was read, a save writes the row as it
\* is and the password it decides.
LEMMA SaveStep ==
    SessionTypeOK /\ SavesWhatItRead /\ StatusIsDecided /\ [SessionNext]_sessionVars
      => SavesWhatItRead' /\ StatusIsDecided'
<1> SUFFICES ASSUME SessionTypeOK, SavesWhatItRead, StatusIsDecided, [SessionNext]_sessionVars
             PROVE  SavesWhatItRead' /\ StatusIsDecided'
  OBVIOUS
<1>1. ASSUME UNCHANGED user,
             \A p \in Requests : req'[p] = req[p] \/ req'[p].pc # "save"
      PROVE  SavesWhatItRead' /\ StatusIsDecided'
  BY <1>1 DEF user, SavesWhatItRead, StatusIsDecided
<1>2. CASE UNCHANGED sessionVars \/ Tick
  BY <1>1, <1>2 DEF sessionVars, Tick, user
<1>3. ASSUME NEW q \in Requests,
             \/ \E i \in Instances : Login(q, i) \/ \E t \in Tokens : Logout(q, i, t)
             \/ \E active \in BOOLEAN : ReadForStatus(q, active)
             \/ LoginError(q) \/ LogoutError(q) \/ ForgetSession(q) \/ SetRedisJWT(q)
             \/ GetRedisJWT(q) \/ CreateJwtBlacklist(q) \/ SetBlackCache(q)
      PROVE  SavesWhatItRead' /\ StatusIsDecided'
  <2>1. UNCHANGED user
    BY <1>3 DEF Login, Logout, ReadForStatus, LoginError, LogoutError, ForgetSession,
                SetRedisJWT, GetRedisJWT, CreateJwtBlacklist, SetBlackCache, user
  <2>2. \A p \in Requests : p # q => req'[p] = req[p]
    BY <1>3 DEF Login, Logout, ReadForStatus, LoginError, LogoutError, ForgetSession,
                SetRedisJWT, GetRedisJWT, CreateJwtBlacklist, SetBlackCache, Call, End, SessionTypeOK
  <2>3. req'[q].pc # "save"
    <3>1. CASE GetRedisJWT(q)
      <4>1. req[q] \in Getting
        BY <3>1, StateOf DEF GetRedisJWT
      <4> QED
        BY <3>1, <4>1 DEF GetRedisJWT, SessionTypeOK, Getting
    <3>2. CASE ~GetRedisJWT(q)
      BY <1>3, <3>2 DEF Login, Logout, ReadForStatus, LoginError, LogoutError, ForgetSession,
                SetRedisJWT, CreateJwtBlacklist, SetBlackCache, Call, End, Idle, SessionTypeOK
    <3> QED
      BY <3>1, <3>2
  <2> QED
    BY <1>1, <2>1, <2>2, <2>3
<1>4. ASSUME NEW q \in Requests, UpdateUserStatus(q)
      PROVE  SavesWhatItRead' /\ StatusIsDecided'
  <2>1. req[q] \in Deciding
    BY <1>4, StateOf DEF UpdateUserStatus
  <2>2. \A p \in Requests : req'[p] = req[p] \/ req'[p].pc # "save"
    BY <1>4, <2>1 DEF UpdateUserStatus, Goto, SessionTypeOK, Deciding
  <2> QED
    BY <1>4, <2>2 DEF UpdateUserStatus, SavesWhatItRead, StatusIsDecided
<1>5. ASSUME NEW q \in Requests, NEW password \in {row.password, calls + 1},
             ReadForSave(q, password)
      PROVE  SavesWhatItRead' /\ StatusIsDecided'
  <2> DEFINE new == [row EXCEPT !.password = password]
  <2>1. /\ \A p \in Requests : p # q => req'[p] = req[p]
        /\ req'[q].was = row /\ req'[q].row = new
    BY <1>5 DEF ReadForSave, Call, SessionTypeOK
  <2>2. new = [row EXCEPT !.password = new.password]
    BY DEF SessionTypeOK, Rows
  <2> HIDE DEF new
  <2>3. SavesWhatItRead'
    BY <2>1, <2>2 DEF SavesWhatItRead
  <2> QED
    BY <1>5, <2>3 DEF ReadForSave, StatusIsDecided, user
<1>6. ASSUME NEW q \in Requests, SaveUser(q)
      PROVE  SavesWhatItRead' /\ StatusIsDecided'
  <2> DEFINE c == req[q]
  <2>1. /\ c.was \in Rows /\ c.row \in Rows
        /\ c.row = [c.was EXCEPT !.password = c.row.password]
    BY <1>6, StateOf DEF SaveUser, Saving, SavesWhatItRead
  <2>2. SavesWhatItRead'
    BY <1>6 DEF SaveUser, End, Idle, SessionTypeOK, SavesWhatItRead
  <2>3. ASSUME ~overlapped'
        PROVE  row' = decided'
    <3>1. row = c.was /\ decided = row
      BY <1>6, <2>3 DEF SaveUser, StatusIsDecided
    <3>2. row' = c.row
      BY <1>6 DEF SaveUser
    <3>3. decided' = IF c.row.password = c.was.password THEN decided
                     ELSE [decided EXCEPT !.password = c.row.password]
      BY <1>6 DEF SaveUser
    <3> QED
      BY <2>1, <3>1, <3>2, <3>3 DEF Rows
  <2> QED
    BY <2>2, <2>3 DEF StatusIsDecided
<1>7. ASSUME NEW i \in Instances, Restart(i)
      PROVE  SavesWhatItRead' /\ StatusIsDecided'
  <2>1. \A p \in Requests : req'[p] = req[p] \/ req'[p].pc # "save"
    BY <1>7 DEF Restart, Idle
  <2> QED
    BY <1>1, <1>7, <2>1 DEF Restart
<1> QED
  BY <1>2, <1>3, <1>4, <1>5, <1>6, <1>7 DEF SessionNext

\* The inductive invariant holds in every reachable state.
LEMMA SessionInvHolds == SessionSpec => []SessionInv
<1>1. SessionInit => SessionInv
  BY SessionInvInit
<1>2. SessionInv /\ [SessionNext]_sessionVars => SessionInv'
  BY TypeStep, ListedStep, OthersStep, SaveStep DEF SessionInv
<1> QED
  BY <1>1, <1>2, PTL DEF SessionSpec

-----------------------------------------------------------------------------
(* The theorems.                                                               *)

\* The records of sessions and requests keep their types.
THEOREM SessionsAreTyped == SessionSpec => []SessionTypeOK
<1>1. SessionInv => SessionTypeOK
  BY DEF SessionInv
<1> QED
  BY <1>1, SessionInvHolds, PTL

\* A refused token stays refused on its instance through restarts: JoinInBlacklist
\* writes the table before the cache, and LoadJWTBlacklistWithRepository reads it all.
THEOREM RefusalStands == SessionSpec => RefusedStaysRefused
<1> DEFINE Stays == \A i \in Instances, t \in issued :
                      row.active /\ ~Accepts(i, t) => ~Accepts(i, t)' \/ i \in blind'
<1>1. SessionInv /\ [SessionNext]_sessionVars => [Stays]_sessionVars
  <2> SUFFICES ASSUME SessionInv, SessionNext, NEW i \in Instances, NEW t \in issued,
                      row.active, ~Accepts(i, t), i \notin blind'
               PROVE  ~Accepts(i, t)'
    BY DEF SessionInv
  <2>1. t \in refused[i] /\ t \in listed
    BY DEF Accepts, SessionInv, RefusedIsListed
  <2>2. t \in refused'[i]
    <3>1. CASE \E q \in Requests : SetBlackCache(q)
      BY <2>1, <3>1 DEF SetBlackCache, SessionInv, SessionTypeOK
    <3>2. CASE \E j \in Instances : Restart(j)
      BY <2>1, <3>2 DEF Restart, SessionInv, SessionTypeOK
    <3>3. CASE refused' = refused
      BY <2>1, <3>3
    <3> QED
      BY <3>1, <3>2, <3>3
         DEF SessionNext, Tick, Login, Logout, GetRedisJWT, CreateJwtBlacklist, SetRedisJWT,
             LoginError, LogoutError, ReadForStatus, UpdateUserStatus, ForgetSession,
             ReadForSave, SaveUser, tokens
  <2> QED
    BY <2>2 DEF Accepts
<1>2. SessionSpec => []SessionInv
  BY SessionInvHolds
<1> QED
  BY <1>1, <1>2, PTL DEF SessionSpec, RefusedStaysRefused

\* Of the tokens that logins returned only the recorded one can still be used
\* elsewhere, but for those whose record was lost on the way.
THEOREM SessionsAreListed == SessionSpec => []OthersAreListed
<1>1. SessionInv => OthersAreListed
  BY DEF SessionInv
<1> QED
  BY <1>1, SessionInvHolds, PTL

\* Blocking a user and changing the password stand until a call saves a row that had
\* changed since it was read.
THEOREM DecisionsStand == SessionSpec => []StatusIsDecided
<1>1. SessionInv => StatusIsDecided
  BY DEF SessionInv
<1> QED
  BY <1>1, SessionInvHolds, PTL

-----------------------------------------------------------------------------
(* Question intake: the inductive invariant.                                   *)

\* Ids that are still to be given out name no row.
FreshIsUnused ==
    \A i \in ItemIds : i >= fresh => item[i] = None /\ intake[i] = None

\* An item that waits has no question, and an intake that says so.
PendingIsBare ==
    \A i \in ItemIds :
        item[i] # None /\ item[i].state = "pending" => item[i].q = None /\ intake[i] # None

\* A draft is about the task that writes it.
DraftsAreTheirs ==
    \A k \in Tasks : tx[k].op \in {"create", "update"} =>
        /\ IsFiniteSet(tx[k].rows)
        /\ \A p \in tx[k].rows : /\ p[2].task = k
                                 /\ p[2].state = "pending" => p[2].q = None

\* Rows that were read have one value for an id.
OncePerId(pairs) == \A p, r \in pairs : p[1] = r[1] => p = r

\* The check before an execution has every item of its task that waits, and decides it.
ChecksAreTheirs ==
    \A k \in Tasks : tx[k].op = "preflight" =>
        /\ OncePerId(tx[k].rows)
        /\ \A p \in tx[k].rows : /\ p[1] \in ItemsOf(k)
                                 /\ p[2].task = k /\ p[2].state # "pending"
        /\ \A i \in ItemsOf(k) : item[i].state = "pending" => i \in IdsIn(tx[k].rows)

\* An item a handler read is where it was, or an edit has come in between.
HandlersReadThem ==
    \A h \in Handlers :
        /\ OncePerId(handler[h].rows)
        /\ \A p \in handler[h].rows :
             /\ p[1] < fresh
             /\ IF item[p[1]] = None THEN p[2].task \in crossed
                                     ELSE item[p[1]].task = p[2].task

\* Handlers that have read one item know it as the same task's.
HandlersAgree ==
    \A g, h \in Handlers : \A p \in handler[g].rows, r \in handler[h].rows :
        p[1] = r[1] => p[2].task = r[2].task

\* A handler has every item that waits for its title, but for those that were written
\* when the question was there.
HandlersHaveAll ==
    \A h \in Handlers : handler[h].title # None =>
        /\ Candidates(bank, handler[h].title) # {}
        /\ \A i \in ItemIds :
             /\ item[i] # None /\ item[i].state = "pending"
             /\ item[i].title = handler[h].title
             => i \in IdsIn(handler[h].rows) \cup late

IInv == /\ IntakeTypeOK /\ FreshIsUnused /\ PendingIsBare
        /\ DraftsAreTheirs /\ ChecksAreTheirs
        /\ HandlersReadThem /\ HandlersAgree /\ HandlersHaveAll
        /\ DraftsAreWhole /\ PendingWasMissed /\ ExecutedIsDecided

USE IntakeAssumption

-----------------------------------------------------------------------------
(* What the helpers do                                                         *)

\* The row that was read with an id.
LEMMA ReadRow ==
    ASSUME NEW pairs, OncePerId(pairs), NEW i \in IdsIn(pairs)
    PROVE  \E p \in pairs : p[1] = i /\ RowIn(pairs, i) = p[2]
<1>1. PICK p \in pairs : p[1] = i
  BY DEF IdsIn
<1>2. PICK r : r = CHOOSE x \in pairs : x[1] = i
  OBVIOUS
<1>3. r \in pairs /\ r[1] = i
  BY <1>1, <1>2
<1> QED
  BY <1>2, <1>3 DEF RowIn

\* A title has finitely many questions, and the one that is taken is one of them.
LEMMA CandidatesCount ==
    ASSUME NEW b, b \subseteq Questions, NEW t
    PROVE  /\ Cardinality(Candidates(b, t)) \in Nat
           /\ Candidates(b, t) # {} => Cardinality(Candidates(b, t)) > 0
           /\ Candidates(b, t) = {} => Cardinality(Candidates(b, t)) = 0
           /\ Candidates(b, t) # {} => TheQuestion(b, t) \in Questions
<1>1. IsFiniteSet(Candidates(b, t))
  BY FS_Subset DEF Candidates
<1>2. /\ Cardinality(Candidates(b, t)) \in Nat
      /\ Cardinality(Candidates(b, t)) = 0 <=> Candidates(b, t) = {}
  BY <1>1, FS_CardinalityType, FS_EmptySet
<1>3. Candidates(b, t) # {} => TheQuestion(b, t) \in Candidates(b, t)
  BY DEF TheQuestion
<1>4. Candidates(b, t) \subseteq Questions
  BY DEF Candidates
<1> QED
  BY <1>2, <1>3, <1>4

\* A title with one question in the bank has that one.
LEMMA OneCandidate ==
    ASSUME NEW b, b \subseteq Questions, NEW t, Cardinality(Candidates(b, t)) = 1
    PROVE  Candidates(b, t) # {} /\ TheQuestion(b, t) \in Questions
<1>1. Candidates(b, t) # {}
  BY CandidatesCount
<1> QED
  BY <1>1, CandidatesCount

\* The items of a draft are rows, and those that wait have no question.
LEMMA DraftRows ==
    ASSUME bank \subseteq Questions, NEW k \in Tasks, NEW d \in Drafts
    PROVE  /\ Materialized(k, d) \subseteq (0 .. MaxItems) \X Row
           /\ IsFiniteSet(Materialized(k, d))
           /\ \A p \in Materialized(k, d) :
                p[2].task = k /\ (p[2].state = "pending" => p[2].q = None)
<1>1. d \subseteq Titles \X (bank \cup {None})
  BY DEF Drafts
<1>2. PICK m : m = [p \in d |->
          <<0, IF p[2] # None THEN Resolved(k, p[1], p[2])
               ELSE IF Candidates(bank, p[1]) = {} THEN Pending(k, p[1])
               ELSE Resolved(k, p[1], TheQuestion(bank, p[1]))>>]
  OBVIOUS
<1>3. Materialized(k, d) = {m[p] : p \in d}
  BY <1>2 DEF Materialized
<1>4. IsFiniteSet(d)
  <2>1. IsFiniteSet(bank)
    BY FS_Subset
  <2>2. IsFiniteSet(bank \cup {None})
    BY <2>1, FS_AddElement
  <2>3. IsFiniteSet(Titles \X (bank \cup {None}))
    BY <2>2, FS_Product
  <2> QED
    BY <1>1, <2>3, FS_Subset
<1>5. IsFiniteSet(Materialized(k, d))
  <2>1. m \in Surjection(d, Materialized(k, d))
    BY <1>2, <1>3 DEF Surjection, Range
  <2> QED
    BY <1>4, <2>1, FS_Surjection
<1>6. ASSUME NEW p \in d
      PROVE  /\ m[p] \in (0 .. MaxItems) \X Row
             /\ m[p][2].task = k /\ (m[p][2].state = "pending" => m[p][2].q = None)
  <2>1. p[1] \in Titles /\ p[2] \in Questions \cup {None} /\ 0 \in 0 .. MaxItems
    BY <1>1
  <2>2. Candidates(bank, p[1]) # {} => TheQuestion(bank, p[1]) \in Questions
    BY CandidatesCount
  <2>3. ASSUME NEW q \in Questions \cup {None}
        PROVE  /\ Resolved(k, p[1], q) \in Row /\ Resolved(k, p[1], q).task = k
               /\ Resolved(k, p[1], q).state # "pending"
    BY <2>1 DEF Resolved, Row
  <2>4. /\ Pending(k, p[1]) \in Row /\ Pending(k, p[1]).task = k /\ Pending(k, p[1]).q = None
    BY <2>1 DEF Pending, Row
  <2>5. CASE p[2] # None
    BY <1>2, <2>1, <2>3, <2>5
  <2>6. CASE p[2] = None /\ Candidates(bank, p[1]) = {}
    BY <1>2, <2>1, <2>4, <2>6
  <2>7. CASE p[2] = None /\ Candidates(bank, p[1]) # {}
    BY <1>2, <2>1, <2>2, <2>3, <2>7
  <2> QED
    BY <2>5, <2>6, <2>7
<1> QED
  BY <1>3, <1>5, <1>6

\* The check of a row decides it and leaves it its task.
LEMMA CheckedRow ==
    ASSUME bank \subseteq Questions, NEW entry \in Row
    PROVE  /\ Checked(entry) \in Row /\ Checked(entry).task = entry.task
           /\ Checked(entry).state # "pending"
           /\ entry.state # "pending" => Checked(entry) = entry
<1>1. Cardinality(Candidates(bank, entry.title)) = 1 => TheQuestion(bank, entry.title) \in Questions
  BY OneCandidate
<1>2. entry.task \in Tasks /\ entry.title \in Titles /\ entry.q \in Questions \cup {None}
      /\ entry = [task |-> entry.task, title |-> entry.title, q |-> entry.q, state |-> entry.state]
  BY DEF Row
<1> QED
  BY <1>1, <1>2 DEF Checked, Unresolved, Row

-----------------------------------------------------------------------------
(* The steps                                                                   *)

\* The syncs add questions to the bank and announce each of them.
LEMMA BankKeeps ==
    ASSUME IInv,
           FillCache \/ \E s \in Syncs : ReadProblems(s) \/ InsertProblems(s) \/ InsertError(s)
    PROVE  IInv'
<1>1. UNCHANGED <<taskVars, handler, history>>
  BY DEF FillCache, ReadProblems, InsertProblems, InsertError
<1>2. IntakeTypeOK /\ bank \subseteq Questions
  BY DEF IInv, IntakeTypeOK
<1>3. /\ bank \subseteq bank' /\ bank' \subseteq Questions
      /\ \A t \in Titles : /\ events'[t] \in Nat
                           /\ events'[t] = 0 => /\ events[t] = 0
                                                /\ Candidates(bank', t) = Candidates(bank, t)
  <2>1. CASE \E s \in Syncs : InsertProblems(s)
    <3>1. PICK s \in Syncs : InsertProblems(s)
      BY <2>1
    <3>2. sync[s] \subseteq Questions
      BY <1>2 DEF IntakeTypeOK
    <3>3. bank' = bank \cup sync[s]
      BY <3>1 DEF InsertProblems
    <3>4. ASSUME NEW t \in Titles
          PROVE  /\ events'[t] \in Nat
                 /\ events'[t] = 0 => /\ events[t] = 0
                                      /\ Candidates(bank', t) = Candidates(bank, t)
      <4>1. PICK n : n = Cardinality(Candidates(sync[s], t))
        OBVIOUS
      <4>2. n \in Nat /\ (n = 0 => Candidates(sync[s], t) = {})
        <5>1. /\ Cardinality(Candidates(sync[s], t)) \in Nat
              /\ Candidates(sync[s], t) # {} => Cardinality(Candidates(sync[s], t)) > 0
          BY <3>2, CandidatesCount, Zenon
        <5> QED
          BY <4>1, <5>1
      <4>3. events'[t] = events[t] + n /\ events[t] \in Nat
        <5>1. events' = [u \in Titles |-> events[u] + Cardinality(Candidates(sync[s], u))]
          BY <3>1 DEF InsertProblems
        <5>2. events \in [Titles -> Nat]
          BY <1>2 DEF IntakeTypeOK
        <5> QED
          BY <4>1, <5>1, <5>2
      <4>4. Candidates(bank', t) = Candidates(bank, t) \cup Candidates(sync[s], t)
        BY <3>3 DEF Candidates
      <4> QED
        BY <4>2, <4>3, <4>4
    <3> QED
      BY <1>2, <3>2, <3>3, <3>4
  <2>2. CASE bank' = bank /\ events' = events
    BY <1>2, <2>2 DEF IntakeTypeOK
  <2> QED
    BY <2>1, <2>2 DEF FillCache, ReadProblems, InsertError
<1>4. IntakeTypeOK'
  <2>1. events' \in [Titles -> Nat]
    <3>1. events' = events \/ events' = [t \in Titles |-> events'[t]]
      BY <1>2 DEF FillCache, ReadProblems, InsertProblems, InsertError, IntakeTypeOK
    <3> QED
      BY <1>2, <1>3, <3>1 DEF IntakeTypeOK
  <2>2. cache' \in [Questions -> {"none", "row", "gone"}]
    BY <1>2 DEF FillCache, ReadProblems, InsertProblems, InsertError, IntakeTypeOK
  <2>3. filling' \subseteq Questions \X {"row", "gone"}
    BY <1>2 DEF FillCache, ReadProblems, InsertProblems, InsertError, IntakeTypeOK
  <2>4. sync' \in [Syncs -> SUBSET Questions]
    BY <1>2 DEF FillCache, ReadProblems, InsertProblems, InsertError, IntakeTypeOK
  <2>5. intakeFaults' \in 0 .. MaxIntakeFaults
    BY <1>2 DEF FillCache, ReadProblems, InsertProblems, InsertError, IntakeFault, IntakeTypeOK
  <2> QED
    BY <1>1, <1>2, <1>3, <2>1, <2>2, <2>3, <2>4, <2>5 DEF IntakeTypeOK, taskVars, history
<1>5. HandlersHaveAll'
  <2>1. \A t : Candidates(bank, t) # {} => Candidates(bank', t) # {}
    BY <1>3 DEF Candidates
  <2> QED
    BY <1>1, <2>1 DEF IInv, HandlersHaveAll, taskVars, history
<1>6. PendingWasMissed'
  <2> SUFFICES ASSUME NEW i \in ItemIds, item[i] # None, item[i].state = "pending",
                      Cardinality(Candidates(bank', item[i].title)) = 1,
                      events'[item[i].title] = 0,
                      \A h \in Handlers : handler[h].title # item[i].title
               PROVE  i \in late
    BY <1>1 DEF PendingWasMissed, taskVars, history
  <2>1. item[i].title \in Titles
    BY <1>2 DEF IntakeTypeOK, Row
  <2>2. events[item[i].title] = 0 /\ Cardinality(Candidates(bank, item[i].title)) = 1
    BY <1>3, <2>1
  <2> QED
    BY <2>2 DEF IInv, PendingWasMissed
<1>7. FreshIsUnused' /\ PendingIsBare' /\ DraftsAreTheirs' /\ HandlersReadThem' /\ HandlersAgree'
  BY <1>1 DEF IInv, FreshIsUnused, PendingIsBare, DraftsAreTheirs, HandlersReadThem, HandlersAgree,
     taskVars, history
<1>8. ChecksAreTheirs' /\ ExecutedIsDecided'
  BY <1>1 DEF IInv, ChecksAreTheirs, ItemsOf, ExecutedIsDecided, taskVars, history
<1>9. DraftsAreWhole'
  BY <1>1 DEF IInv, DraftsAreWhole, IntakeFollowsItem, ItemsOf, taskVars, history
<1> QED
  BY <1>4, <1>5, <1>6, <1>7, <1>8, <1>9 DEF IInv

\* Rows of a task that are copied, as they are written.
LEMMA CopiedRows ==
    ASSUME IntakeTypeOK, PendingIsBare, NEW k \in Tasks, NEW from \in Tasks
    PROVE  /\ CopiedItems(k, from) \subseteq (0 .. MaxItems) \X Row
           /\ IsFiniteSet(CopiedItems(k, from))
           /\ \A p \in CopiedItems(k, from) :
                p[2].task = k /\ (p[2].state = "pending" => p[2].q = None)
<1>2. PICK f : f = [i \in ItemsOf(from) |-> <<i, [item[i] EXCEPT !.task = k]>>]
  OBVIOUS
<1>3. ItemsOf(from) \subseteq ItemIds /\ IsFiniteSet(ItemsOf(from))
  <2>1. IsFiniteSet(ItemIds)
    BY FS_Interval DEF ItemIds
  <2>2. ItemsOf(from) \subseteq ItemIds
    BY DEF ItemsOf
  <2> QED
    BY <2>1, <2>2, FS_Subset
<1>4. IsFiniteSet(CopiedItems(k, from))
  <2>1. f \in Surjection(ItemsOf(from), CopiedItems(k, from))
    BY <1>2 DEF Surjection, Range, CopiedItems
  <2> QED
    BY <1>3, <2>1, FS_Surjection
<1>5. ASSUME NEW i \in ItemsOf(from)
      PROVE  LET r == [item[i] EXCEPT !.task = k]
             IN  i \in 0 .. MaxItems /\ r \in Row /\ r.task = k /\ (r.state = "pending" => r.q = None)
  <2>1. i \in ItemIds /\ item[i] # None /\ item[i] \in Row
    BY DEF ItemsOf, IntakeTypeOK
  <2>2. item[i].state = "pending" => item[i].q = None
    BY <2>1 DEF PendingIsBare
  <2> QED
    BY <2>1, <2>2 DEF Row, ItemIds
<1>6. ASSUME NEW p \in CopiedItems(k, from)
      PROVE  p \in (0 .. MaxItems) \X Row /\ p[2].task = k /\ (p[2].state = "pending" => p[2].q = None)
  <2>1. PICK i \in ItemsOf(from) : p = <<i, [item[i] EXCEPT !.task = k]>>
    BY DEF CopiedItems
  <2> QED
    BY <1>5, <2>1
<1> QED
  BY <1>4, <1>6

\* What begins or ends without a row of a task being written.
LEMMA TasksKeep ==
    ASSUME IInv,
           \E k \in Tasks : \/ BeginCreate(k) \/ BeginUpdate(k) \/ DraftError(k)
                            \/ Execute(k) \/ ReadItems(k) \/ PreFlightError(k)
                            \/ \E from \in Tasks : BeginRetry(k, from)
    PROVE  IInv'
<1>1. UNCHANGED <<bankVars, item, intake, fresh, handler, history>>
  BY DEF BeginCreate, BeginUpdate, DraftError, Execute, ReadItems, PreFlightError, BeginRetry
<1>2. IntakeTypeOK /\ bank \subseteq Questions
  BY DEF IInv, IntakeTypeOK
<1>3. PICK k \in Tasks : \/ BeginCreate(k) \/ BeginUpdate(k) \/ DraftError(k)
                         \/ Execute(k) \/ ReadItems(k) \/ PreFlightError(k)
                         \/ \E from \in Tasks : BeginRetry(k, from)
  OBVIOUS
<1>4. \A j \in Tasks \ {k} : tx'[j] = tx[j]
  BY <1>2, <1>3 DEF BeginCreate, BeginUpdate, DraftError, Execute, ReadItems, PreFlightError, BeginRetry,
     IntakeTypeOK
<1>5. intakeFaults' \in 0 .. MaxIntakeFaults
  BY <1>2, <1>3 DEF BeginCreate, BeginUpdate, DraftError, Execute, ReadItems, PreFlightError, BeginRetry,
     IntakeFault, IntakeTypeOK
<1>6. /\ status' \in [Tasks -> {"none", "scheduled", "executing", "executed", "failed"}]
      /\ \A j \in Tasks : status'[j] = "executed" => status[j] = "executed"
  BY <1>2, <1>3 DEF BeginCreate, BeginUpdate, DraftError, Execute, ReadItems, PreFlightError, BeginRetry,
     IntakeTypeOK
<1>7. \/ tx' = tx
      \/ \E r \in [op : {"none", "create", "update", "preflight"},
                   rows : SUBSET ((0 .. MaxItems) \X Row)] :
           /\ tx' = [tx EXCEPT ![k] = r]
           /\ r.op \in {"create", "update"} =>
                /\ IsFiniteSet(r.rows)
                /\ \A p \in r.rows : p[2].task = k /\ (p[2].state = "pending" => p[2].q = None)
           /\ r.op = "preflight" =>
                /\ OncePerId(r.rows)
                /\ \A p \in r.rows : p[1] \in ItemsOf(k) /\ p[2].task = k /\ p[2].state # "pending"
                /\ \A i \in ItemsOf(k) : item[i].state = "pending" => i \in IdsIn(r.rows)
  <2>1. CASE Execute(k)
    BY <2>1 DEF Execute
  <2>2. CASE DraftError(k) \/ PreFlightError(k)
    <3>1. tx' = [tx EXCEPT ![k] = NoTx] /\ NoTx.op = "none"
          /\ NoTx \in [op : {"none", "create", "update", "preflight"},
                       rows : SUBSET ((0 .. MaxItems) \X Row)]
      BY <2>2 DEF DraftError, PreFlightError, NoTx
    <3> QED
      BY <3>1
  <2>3. CASE BeginCreate(k) \/ BeginUpdate(k)
    <3>1. PICK d \in Drafts, o \in {"create", "update"} :
            tx' = [tx EXCEPT ![k] = [op |-> o, rows |-> Materialized(k, d)]]
      BY <2>3 DEF BeginCreate, BeginUpdate
    <3>2. PICK r : r = [op |-> o, rows |-> Materialized(k, d)]
      OBVIOUS
    <3>3. /\ r.rows \subseteq (0 .. MaxItems) \X Row /\ IsFiniteSet(r.rows)
          /\ \A p \in r.rows : p[2].task = k /\ (p[2].state = "pending" => p[2].q = None)
      BY <1>2, <3>2, DraftRows
    <3>4. r.op \in {"create", "update"}
          /\ r \in [op : {"none", "create", "update", "preflight"},
                    rows : SUBSET ((0 .. MaxItems) \X Row)]
      BY <3>2, <3>3
    <3> QED
      BY <3>1, <3>2, <3>3, <3>4
  <2>4. CASE \E from \in Tasks : BeginRetry(k, from)
    <3>1. PICK from \in Tasks : BeginRetry(k, from)
      BY <2>4
    <3>2. PICK pairs : pairs = CopiedItems(k, from)
      OBVIOUS
    <3>3. PICK r : r = [op |-> "create", rows |-> pairs]
      OBVIOUS
    <3>4. tx' = [tx EXCEPT ![k] = r]
      BY <3>1, <3>2, <3>3 DEF BeginRetry
    <3>5. /\ pairs \subseteq (0 .. MaxItems) \X Row /\ IsFiniteSet(pairs)
          /\ \A p \in pairs : p[2].task = k /\ (p[2].state = "pending" => p[2].q = None)
      BY <1>2, <3>2, CopiedRows DEF IInv
    <3>6. r.op = "create" /\ r.rows = pairs
          /\ r \in [op : {"none", "create", "update", "preflight"},
                    rows : SUBSET ((0 .. MaxItems) \X Row)]
      BY <3>3, <3>5
    <3> QED
      BY <3>4, <3>5, <3>6
  <2>5. CASE ReadItems(k)
    <3>1. PICK pairs : pairs = {<<i, Checked(item[i])>> :
                                i \in {j \in ItemsOf(k) : Checked(item[j]) # item[j]}}
      OBVIOUS
    <3>2. PICK r : r = [op |-> "preflight", rows |-> pairs]
      OBVIOUS
    <3>3. tx' = [tx EXCEPT ![k] = r]
      BY <2>5, <3>1, <3>2 DEF ReadItems
    <3>4. ASSUME NEW i \in ItemsOf(k)
          PROVE  /\ i \in 0 .. MaxItems /\ item[i] \in Row /\ item[i].task = k
                 /\ Checked(item[i]) \in Row /\ Checked(item[i]).task = k
                 /\ Checked(item[i]).state # "pending"
      <4>0. i \in ItemIds /\ item[i] # None /\ item[i].task = k
        BY DEF ItemsOf
      <4>1. i \in 0 .. MaxItems /\ item[i] \in Row /\ item[i].task = k
        <5>1. item \in [ItemIds -> Row \cup {None}]
          BY <1>2 DEF IntakeTypeOK
        <5>2. i \in 0 .. MaxItems
          BY <4>0 DEF ItemIds
        <5> QED
          BY <4>0, <5>1, <5>2
      <4> QED
        BY <1>2, <4>1, CheckedRow
    <3>5. /\ pairs \subseteq (0 .. MaxItems) \X Row
          /\ \A p \in pairs : p[1] \in ItemsOf(k) /\ p[2].task = k /\ p[2].state # "pending"
      BY <3>1, <3>4
    <3>6. OncePerId(pairs)
      BY <3>1 DEF OncePerId
    <3>7. \A i \in ItemsOf(k) : item[i].state = "pending" => i \in IdsIn(pairs)
      <4>1. ASSUME NEW i \in ItemsOf(k), item[i].state = "pending" PROVE i \in IdsIn(pairs)
        <5>1. Checked(item[i]) # item[i]
          BY <3>4, <4>1
        <5>2. <<i, Checked(item[i])>> \in pairs
          BY <3>1, <5>1
        <5> QED
          BY <5>2 DEF IdsIn
      <4> QED
        BY <4>1
    <3>8. r.op = "preflight" /\ r.rows = pairs
          /\ r \in [op : {"none", "create", "update", "preflight"},
                    rows : SUBSET ((0 .. MaxItems) \X Row)]
      BY <3>2, <3>5
    <3> QED
      BY <3>3, <3>5, <3>6, <3>7, <3>8
  <2> QED
    BY <1>3, <2>1, <2>2, <2>3, <2>4, <2>5
<1>8. ItemsOf(k)' = ItemsOf(k) /\ \A j \in Tasks : ItemsOf(j)' = ItemsOf(j)
  BY <1>1 DEF ItemsOf
<1>9. IntakeTypeOK' /\ DraftsAreTheirs' /\ ChecksAreTheirs'
  <2>1. CASE tx' = tx
    <3>1. IntakeTypeOK'
      BY <1>1, <1>2, <1>5, <1>6, <2>1 DEF IntakeTypeOK, bankVars, history
    <3>2. DraftsAreTheirs'
      BY <2>1 DEF IInv, DraftsAreTheirs
    <3>3. ChecksAreTheirs'
      BY <1>1, <1>8, <2>1 DEF IInv, ChecksAreTheirs
    <3> QED
      BY <3>1, <3>2, <3>3
  <2>2. CASE tx' # tx
    <3>1. PICK r \in [op : {"none", "create", "update", "preflight"},
                      rows : SUBSET ((0 .. MaxItems) \X Row)] :
           /\ tx' = [tx EXCEPT ![k] = r]
           /\ r.op \in {"create", "update"} =>
                /\ IsFiniteSet(r.rows)
                /\ \A p \in r.rows : p[2].task = k /\ (p[2].state = "pending" => p[2].q = None)
           /\ r.op = "preflight" =>
                /\ OncePerId(r.rows)
                /\ \A p \in r.rows : p[1] \in ItemsOf(k) /\ p[2].task = k /\ p[2].state # "pending"
                /\ \A i \in ItemsOf(k) : item[i].state = "pending" => i \in IdsIn(r.rows)
      BY <1>7, <2>2
    <3>2. tx' \in [Tasks -> [op : {"none", "create", "update", "preflight"},
                             rows : SUBSET ((0 .. MaxItems) \X Row)]]
          /\ tx'[k] = r
      BY <1>2, <3>1 DEF IntakeTypeOK
    <3>3. IntakeTypeOK'
      BY <1>1, <1>2, <1>5, <1>6, <3>2 DEF IntakeTypeOK, bankVars, history
    <3>4. DraftsAreTheirs'
      BY <1>4, <3>1, <3>2 DEF IInv, DraftsAreTheirs
    <3>5. ChecksAreTheirs'
      BY <1>1, <1>4, <1>8, <3>1, <3>2 DEF IInv, ChecksAreTheirs
    <3> QED
      BY <3>3, <3>4, <3>5
  <2> QED
    BY <2>1, <2>2
<1>10. /\ FreshIsUnused' /\ PendingIsBare' /\ HandlersReadThem' /\ HandlersAgree' /\ HandlersHaveAll'
       /\ PendingWasMissed'
  BY <1>1 DEF IInv, FreshIsUnused, PendingIsBare, HandlersReadThem, HandlersAgree, HandlersHaveAll,
     PendingWasMissed, bankVars, history
<1>11. ExecutedIsDecided'
  <2>1. \A i \in ItemIds : item[i] # None => item[i].task \in Tasks
    BY <1>2 DEF IntakeTypeOK, Row
  <2> QED
    BY <1>1, <1>6, <2>1 DEF IInv, ExecutedIsDecided
<1>12. DraftsAreWhole'
  BY <1>1, <1>8 DEF IInv, DraftsAreWhole, IntakeFollowsItem, history
<1> QED
  BY <1>9, <1>10, <1>11, <1>12 DEF IInv

\* A draft replaces the items of its task, with ids that name nothing yet.
LEMMA DraftKeeps ==
    ASSUME IInv, NEW k \in Tasks, CommitDraft(k)
    PROVE  IInv'
<1>1. IntakeTypeOK /\ bank \subseteq Questions
  BY DEF IInv, IntakeTypeOK
<1>2. UNCHANGED <<bankVars, handler, intakeFaults>>
  BY DEF CommitDraft
<1>3. PICK n : n = Cardinality(tx[k].rows)
  OBVIOUS
<1>4. n \in Nat /\ MaxItems \in Nat /\ fresh \in 1 .. MaxItems + 1
  <2>1. tx[k].op \in {"create", "update"}
    BY DEF CommitDraft
  <2> QED
    BY <1>1, <1>3, <2>1, FS_CardinalityType DEF IInv, DraftsAreTheirs, IntakeTypeOK
<1>5. NewIds(k) = fresh .. fresh + n - 1 /\ fresh' = fresh + n /\ NewIds(k) \subseteq ItemIds
  BY <1>3 DEF NewIds, CommitDraft
<1>6. PICK new \in [NewIds(k) -> tx[k].rows] :
        /\ item' = [i \in ItemIds |-> IF i \in NewIds(k) THEN new[i][2]
                                      ELSE IF i \in OldItems(k) THEN None ELSE item[i]]
        /\ intake' = [i \in ItemIds |-> IF i \in NewIds(k) THEN IntakeOf(new[i][2])
                                        ELSE IF i \in OldItems(k) THEN None ELSE intake[i]]
        /\ late' = late \cup {i \in NewIds(k) : /\ new[i][2].state = "pending"
                                             /\ Candidates(bank, new[i][2].title) # {}}
  BY DEF CommitDraft
<1>7. ASSUME NEW i \in NewIds(k)
      PROVE  /\ i \in ItemIds /\ i >= fresh /\ i < fresh'
             /\ item[i] = None /\ intake[i] = None
             /\ item'[i] = new[i][2] /\ item'[i] \in Row /\ item'[i].task = k
             /\ item'[i].state = "pending" => item'[i].q = None
             /\ intake'[i] = IF item'[i].state = "pending" THEN [state |-> "pending", q |-> None]
                                                           ELSE None
             /\ item'[i] # None
             /\ item'[i].state = "pending" /\ Candidates(bank, item'[i].title) # {} => i \in late'
  <2>1. i \in ItemIds /\ i >= fresh /\ i < fresh'
    BY <1>4, <1>5 DEF ItemIds
  <2>2. item[i] = None /\ intake[i] = None
    BY <2>1 DEF IInv, FreshIsUnused
  <2>3. new[i] \in tx[k].rows /\ new[i][2] \in Row
    BY <1>1, <1>6 DEF IntakeTypeOK
  <2>4. tx[k].op \in {"create", "update"}
    BY DEF CommitDraft
  <2>5. new[i][2].task = k /\ (new[i][2].state = "pending" => new[i][2].q = None)
    BY <2>3, <2>4 DEF IInv, DraftsAreTheirs
  <2>6. item'[i] = new[i][2] /\ intake'[i] = IntakeOf(new[i][2])
    BY <1>6, <2>1
  <2>7. new[i][2].state = "pending" /\ Candidates(bank, new[i][2].title) # {} => i \in late'
    BY <1>6
  <2>8. new[i][2] # None
    BY <2>3
  <2> QED
    BY <2>1, <2>2, <2>3, <2>5, <2>6, <2>7, <2>8 DEF IntakeOf
<1>8. ASSUME NEW i \in ItemIds, i \in ItemsOf(k)
      PROVE  item'[i] = None /\ intake'[i] = None /\ i \notin NewIds(k)
  <2>1. i \notin NewIds(k)
    BY <1>7, <1>8 DEF ItemsOf
  <2> QED
    BY <1>6, <1>8, <2>1 DEF OldItems
<1>9. ASSUME NEW i \in ItemIds, i \notin NewIds(k), i \notin ItemsOf(k)
      PROVE  item'[i] = item[i] /\ intake'[i] = intake[i]
  BY <1>6, <1>9 DEF OldItems
<1>10. \A i \in ItemIds : i >= fresh' => item'[i] = None /\ intake'[i] = None
  <2>1. ASSUME NEW i \in ItemIds, i >= fresh' PROVE item'[i] = None /\ intake'[i] = None
    <3>1. i >= fresh /\ i \notin NewIds(k)
      BY <1>4, <1>5, <2>1 DEF ItemIds
    <3>2. item[i] = None /\ intake[i] = None
      BY <3>1 DEF IInv, FreshIsUnused
    <3>3. i \notin ItemsOf(k)
      BY <3>2 DEF ItemsOf
    <3> QED
      BY <1>9, <3>1, <3>2, <3>3
  <2> QED
    BY <2>1
<1>11. ItemsOf(k)' = NewIds(k) /\ \A j \in Tasks \ {k} : ItemsOf(j)' = ItemsOf(j)
  <2>1. \A i \in ItemIds : item'[i] # None /\ item'[i].task = k <=> i \in NewIds(k)
    BY <1>7, <1>8, <1>9 DEF ItemsOf
  <2>2. ASSUME NEW j \in Tasks \ {k}, NEW i \in ItemIds
        PROVE  item'[i] # None /\ item'[i].task = j <=> item[i] # None /\ item[i].task = j
    BY <1>7, <1>8, <1>9 DEF ItemsOf
  <2> QED
    BY <1>5, <2>1, <2>2 DEF ItemsOf
<1>12. IntakeTypeOK'
  <2>1. item' \in [ItemIds -> Row \cup {None}] /\ intake' \in [ItemIds -> IntakeRow \cup {None}]
    <3>1. ASSUME NEW i \in ItemIds PROVE item'[i] \in Row \cup {None} /\ intake'[i] \in IntakeRow \cup {None}
      <4>1. item[i] \in Row \cup {None} /\ intake[i] \in IntakeRow \cup {None}
        BY <1>1 DEF IntakeTypeOK
      <4> QED
        BY <1>7, <1>8, <1>9, <4>1 DEF IntakeRow
    <3>2. item' = [i \in ItemIds |-> item'[i]] /\ intake' = [i \in ItemIds |-> intake'[i]]
      BY <1>6
    <3> QED
      BY <3>1, <3>2
  <2>2. fresh' \in 1 .. MaxItems + 1
    BY <1>4, <1>5 DEF ItemIds
  <2>3. status' \in [Tasks -> {"none", "scheduled", "executing", "executed", "failed"}]
    BY <1>1 DEF CommitDraft, IntakeTypeOK
  <2>4. tx' \in [Tasks -> [op : {"none", "create", "update", "preflight"},
                           rows : SUBSET ((0 .. MaxItems) \X Row)]]
    BY <1>1 DEF CommitDraft, NoTx, IntakeTypeOK
  <2>5. written' \in [Tasks -> SUBSET ItemIds] /\ crossed' \subseteq Tasks /\ late' \subseteq ItemIds
    BY <1>1, <1>5, <1>6 DEF CommitDraft, IntakeTypeOK
  <2> QED
    BY <1>1, <1>2, <2>1, <2>2, <2>3, <2>4, <2>5 DEF IntakeTypeOK, bankVars
<1>13. FreshIsUnused'
  BY <1>10 DEF FreshIsUnused
<1>14. PendingIsBare'
  <2>1. ASSUME NEW i \in ItemIds, item'[i] # None, item'[i].state = "pending"
        PROVE  item'[i].q = None /\ intake'[i] # None
    <3>1. [state |-> "pending", q |-> None] \in IntakeRow
      BY DEF IntakeRow
    <3> QED
      BY <1>7, <1>8, <1>9, <2>1, <3>1 DEF IInv, PendingIsBare
  <2> QED
    BY <2>1 DEF PendingIsBare
<1>15. DraftsAreTheirs' /\ ChecksAreTheirs'
  <2>1. tx'[k].op = "none" /\ \A j \in Tasks \ {k} : tx'[j] = tx[j]
    BY <1>1 DEF CommitDraft, NoTx, IntakeTypeOK
  <2>2. DraftsAreTheirs'
    BY <2>1 DEF IInv, DraftsAreTheirs
  <2>3. ASSUME NEW j \in Tasks, tx'[j].op = "preflight"
        PROVE  /\ OncePerId(tx'[j].rows)
               /\ \A p \in tx'[j].rows : p[1] \in ItemsOf(j)' /\ p[2].task = j /\ p[2].state # "pending"
               /\ \A i \in ItemsOf(j)' : item'[i].state = "pending" => i \in IdsIn(tx'[j].rows)
    <3>1. j # k /\ tx[j] = tx'[j] /\ tx[j].op = "preflight" /\ ItemsOf(j)' = ItemsOf(j)
      BY <1>11, <2>1, <2>3
    <3>2. \A i \in ItemsOf(j) : item'[i] = item[i]
      BY <1>7, <1>9, <3>1 DEF ItemsOf
    <3> QED
      BY <3>1, <3>2 DEF IInv, ChecksAreTheirs
  <2> QED
    BY <2>2, <2>3 DEF ChecksAreTheirs
<1>16. HandlersReadThem'
  <2>1. ASSUME NEW h \in Handlers
        PROVE  /\ OncePerId(handler[h].rows)
               /\ \A p \in handler[h].rows :
                    /\ p[1] < fresh'
                    /\ IF item'[p[1]] = None THEN p[2].task \in crossed'
                                             ELSE item'[p[1]].task = p[2].task
    <3>1. OncePerId(handler[h].rows)
      BY DEF IInv, HandlersReadThem
    <3>2. ASSUME NEW p \in handler[h].rows
          PROVE  /\ p[1] < fresh'
                 /\ IF item'[p[1]] = None THEN p[2].task \in crossed'
                                          ELSE item'[p[1]].task = p[2].task
      <4>1. /\ p[1] \in ItemIds /\ p[1] < fresh
            /\ IF item[p[1]] = None THEN p[2].task \in crossed ELSE item[p[1]].task = p[2].task
        BY <1>1 DEF IInv, HandlersReadThem, IntakeTypeOK
      <4>2. p[1] < fresh' /\ p[1] \notin NewIds(k)
        BY <1>4, <1>5, <4>1 DEF ItemIds
      <4>3. crossed \subseteq crossed'
        BY DEF CommitDraft
      <4>4. CASE p[1] \in ItemsOf(k)
        <5>1. p[2].task = k
          BY <4>1, <4>4 DEF ItemsOf
        <5>2. p[1] \in IdsIn(handler[h].rows)
          BY DEF IdsIn
        <5>3. k \in crossed'
          BY <4>4, <5>2 DEF CommitDraft
        <5> QED
          BY <1>8, <4>1, <4>2, <4>4, <5>1, <5>3
      <4>5. CASE p[1] \notin ItemsOf(k)
        BY <1>9, <4>1, <4>2, <4>3, <4>5
      <4> QED
        BY <4>4, <4>5
    <3> QED
      BY <3>1, <3>2
  <2> QED
    BY <1>2, <2>1 DEF HandlersReadThem
<1>17. HandlersHaveAll'
  <2>1. bank' = bank
    BY <1>2 DEF bankVars
  <2>2. ASSUME NEW h \in Handlers, handler[h].title # None, NEW i \in ItemIds,
               item'[i] # None, item'[i].state = "pending", item'[i].title = handler[h].title
        PROVE  i \in IdsIn(handler[h].rows) \cup late'
    <3>1. Candidates(bank, handler[h].title) # {}
      BY <2>2 DEF IInv, HandlersHaveAll
    <3>2. late \subseteq late'
      BY <1>6
    <3>3. CASE i \in NewIds(k)
      BY <1>7, <2>2, <3>1, <3>3
    <3>4. CASE i \notin NewIds(k)
      BY <1>8, <1>9, <2>2, <3>2, <3>4 DEF IInv, HandlersHaveAll
    <3> QED
      BY <3>3, <3>4
  <2> QED
    BY <1>2, <2>1, <2>2 DEF IInv, HandlersHaveAll
<1>18. PendingWasMissed'
  <2> SUFFICES ASSUME NEW i \in ItemIds, item'[i] # None, item'[i].state = "pending",
                      Cardinality(Candidates(bank, item'[i].title)) = 1,
                      events[item'[i].title] = 0,
                      \A h \in Handlers : handler[h].title # item'[i].title
               PROVE  i \in late'
    BY <1>2 DEF PendingWasMissed, bankVars
  <2>1. CASE i \in NewIds(k)
    <3>1. Candidates(bank, item'[i].title) # {}
      BY <1>1, OneCandidate
    <3> QED
      BY <1>7, <2>1, <3>1
  <2>2. CASE i \notin NewIds(k)
    <3>1. item'[i] = item[i]
      BY <1>8, <1>9, <2>2
    <3>2. i \in late
      BY <3>1 DEF IInv, PendingWasMissed
    <3> QED
      BY <1>6, <3>2
  <2> QED
    BY <2>1, <2>2
<1>19. ExecutedIsDecided'
  <2>1. status'[k] = "scheduled" /\ \A j \in Tasks \ {k} : status'[j] = status[j]
    BY <1>1 DEF CommitDraft, IntakeTypeOK
  <2>2. ASSUME NEW i \in ItemIds, item'[i] # None, status'[item'[i].task] = "executed"
        PROVE  item'[i].state # "pending"
    <3>1. item'[i] \in Row
      BY <1>12, <2>2 DEF IntakeTypeOK
    <3>2. item'[i].task \in Tasks \ {k}
      BY <2>1, <2>2, <3>1 DEF Row
    <3>3. item'[i] = item[i]
      BY <1>7, <1>8, <1>9, <2>2, <3>2
    <3> QED
      BY <2>1, <2>2, <3>2, <3>3 DEF IInv, ExecutedIsDecided
  <2> QED
    BY <2>2 DEF ExecutedIsDecided
<1>20. DraftsAreWhole'
  <2>1. ASSUME NEW i \in ItemIds, intake'[i] # None
        PROVE  item'[i] # None /\ intake'[i].state = item'[i].state /\ intake'[i].q = item'[i].q
    <3>1. CASE i \in NewIds(k)
      BY <1>7, <2>1, <3>1
    <3>2. CASE i \notin NewIds(k)
      BY <1>8, <1>9, <2>1, <3>2 DEF IInv, DraftsAreWhole, IntakeFollowsItem
    <3> QED
      BY <3>1, <3>2
  <2>2. IntakeFollowsItem'
    BY <2>1 DEF IntakeFollowsItem
  <2>3. written'[k] = NewIds(k) /\ \A j \in Tasks \ {k} : written'[j] = written[j]
    BY <1>1 DEF CommitDraft, IntakeTypeOK
  <2>4. crossed \subseteq crossed'
    BY DEF CommitDraft
  <2>5. ASSUME NEW j \in Tasks, j \notin crossed' PROVE ItemsOf(j)' = written'[j]
    BY <1>11, <2>3, <2>4, <2>5 DEF IInv, DraftsAreWhole
  <2> QED
    BY <2>2, <2>5 DEF DraftsAreWhole
<1>21. HandlersAgree'
  BY <1>2 DEF IInv, HandlersAgree
<1> QED
  BY <1>12, <1>13, <1>14, <1>15, <1>16, <1>17, <1>18, <1>19, <1>20, <1>21 DEF IInv

\* A handler begins with a title that has one question and with all that waits for it.
LEMMA ReadingKeeps ==
    ASSUME IInv, NEW h \in Handlers, NEW t \in Titles, ReadPending(h, t)
    PROVE  IInv'
<1>1. IntakeTypeOK /\ bank \subseteq Questions
  BY DEF IInv, IntakeTypeOK
<1>2. UNCHANGED <<bank, cache, filling, sync, taskVars, intakeFaults, history>>
  BY DEF ReadPending
<1>3. /\ handler[h].title = None /\ events[t] \in Nat /\ events[t] > 0
      /\ events'[t] = events[t] - 1 /\ \A x \in Titles \ {t} : events'[x] = events[x]
      /\ events' \in [Titles -> Nat]
  BY <1>1 DEF ReadPending, IntakeTypeOK
<1>4. PICK r : r = IF Cardinality(Candidates(bank, t)) # 1 THEN Waiting
                   ELSE [title |-> t, q |-> TheQuestion(bank, t),
                         rows |-> {<<i, item[i]>> : i \in Pendings(t)}]
  OBVIOUS
<1>5. handler' = [handler EXCEPT ![h] = r]
  BY <1>4 DEF ReadPending
<1>6. ASSUME NEW i \in Pendings(t)
      PROVE  i \in ItemIds /\ item[i] # None /\ item[i] \in Row /\ i < fresh
  <2>1. i \in ItemIds /\ item[i] # None
    BY DEF Pendings
  <2>2. item[i] \in Row /\ fresh \in Nat /\ i \in Nat
    BY <1>1, <2>1, MaxItems \in Nat DEF IntakeTypeOK, ItemIds
  <2>3. ~(i >= fresh)
    BY <2>1 DEF IInv, FreshIsUnused
  <2> QED
    BY <2>1, <2>2, <2>3
<1>7. /\ r \in [title : Titles \cup {None}, q : Questions \cup {None}, rows : SUBSET (ItemIds \X Row)]
      /\ OncePerId(r.rows)
      /\ \A p \in r.rows : p[1] < fresh /\ item[p[1]] # None /\ item[p[1]].task = p[2].task
      /\ r.title # None => /\ Candidates(bank, r.title) # {}
                           /\ r.title = t
                           /\ \A i \in Pendings(t) : i \in IdsIn(r.rows)
      /\ Cardinality(Candidates(bank, t)) = 1 => r.title = t
  <2>1. CASE Cardinality(Candidates(bank, t)) # 1
    BY <1>4, <2>1 DEF Waiting, OncePerId
  <2>2. CASE Cardinality(Candidates(bank, t)) = 1
    <3>1. PICK pairs : pairs = {<<i, item[i]>> : i \in Pendings(t)}
      OBVIOUS
    <3>2. r = [title |-> t, q |-> TheQuestion(bank, t), rows |-> pairs]
      BY <1>4, <2>2, <3>1
    <3>3. Candidates(bank, t) # {} /\ TheQuestion(bank, t) \in Questions
      BY <1>1, <2>2, OneCandidate
    <3>4. pairs \subseteq ItemIds \X Row /\ OncePerId(pairs)
          /\ \A p \in pairs : p[1] < fresh /\ item[p[1]] # None /\ item[p[1]].task = p[2].task
      BY <1>6, <3>1 DEF OncePerId
    <3>5. \A i \in Pendings(t) : i \in IdsIn(pairs)
      <4>1. ASSUME NEW i \in Pendings(t) PROVE i \in IdsIn(pairs)
        <5>1. <<i, item[i]>> \in pairs
          BY <3>1
        <5> QED
          BY <5>1 DEF IdsIn
      <4> QED
        BY <4>1
    <3> QED
      BY <3>2, <3>3, <3>4, <3>5
  <2> QED
    BY <2>1, <2>2
<1>8. handler'[h] = r /\ \A g \in Handlers \ {h} : handler'[g] = handler[g]
  BY <1>1, <1>5 DEF IntakeTypeOK
<1>9. IntakeTypeOK'
  <2>1. handler' \in [Handlers -> [title : Titles \cup {None}, q : Questions \cup {None},
                                   rows : SUBSET (ItemIds \X Row)]]
    BY <1>1, <1>5, <1>7 DEF IntakeTypeOK
  <2> QED
    BY <1>1, <1>2, <1>3, <2>1 DEF IntakeTypeOK, taskVars, history
<1>10. HandlersReadThem'
  <2>1. ASSUME NEW g \in Handlers
        PROVE  /\ OncePerId(handler'[g].rows)
               /\ \A p \in handler'[g].rows :
                    /\ p[1] < fresh
                    /\ IF item[p[1]] = None THEN p[2].task \in crossed
                                            ELSE item[p[1]].task = p[2].task
    <3>1. CASE g = h
      BY <1>7, <1>8, <3>1
    <3>2. CASE g # h
      BY <1>8, <3>2 DEF IInv, HandlersReadThem
    <3> QED
      BY <3>1, <3>2
  <2> QED
    BY <1>2, <2>1 DEF HandlersReadThem, taskVars, history
<1>11. HandlersHaveAll'
  <2>1. ASSUME NEW g \in Handlers, handler'[g].title # None
        PROVE  /\ Candidates(bank, handler'[g].title) # {}
               /\ \A i \in ItemIds :
                    /\ item[i] # None /\ item[i].state = "pending"
                    /\ item[i].title = handler'[g].title
                    => i \in IdsIn(handler'[g].rows) \cup late
    <3>1. CASE g = h
      <4>1. Candidates(bank, t) # {} /\ r.title = t /\ \A i \in Pendings(t) : i \in IdsIn(r.rows)
        BY <1>7, <1>8, <2>1, <3>1
      <4>2. ASSUME NEW i \in ItemIds, item[i] # None, item[i].state = "pending", item[i].title = t
            PROVE  i \in Pendings(t)
        <5>1. intake[i] # None
          BY <4>2 DEF IInv, PendingIsBare
        <5>2. intake[i].state = "pending"
          BY <4>2, <5>1 DEF IInv, DraftsAreWhole, IntakeFollowsItem
        <5> QED
          BY <4>2, <5>1, <5>2 DEF Pendings
      <4> QED
        BY <1>8, <3>1, <4>1, <4>2
    <3>2. CASE g # h
      BY <1>8, <2>1, <3>2 DEF IInv, HandlersHaveAll
    <3> QED
      BY <3>1, <3>2
  <2> QED
    BY <1>2, <2>1 DEF HandlersHaveAll, taskVars, history
<1>12. PendingWasMissed'
  <2> SUFFICES ASSUME NEW i \in ItemIds, item[i] # None, item[i].state = "pending",
                      Cardinality(Candidates(bank, item[i].title)) = 1,
                      events'[item[i].title] = 0,
                      \A g \in Handlers : handler'[g].title # item[i].title
               PROVE  i \in late
    BY <1>2 DEF PendingWasMissed, taskVars, history
  <2>1. item[i].title \in Titles
    BY <1>1 DEF IntakeTypeOK, Row
  <2>2. item[i].title # t
    BY <1>7, <1>8
  <2>3. \A g \in Handlers : handler[g].title # item[i].title
    BY <1>3, <1>8, <2>1
  <2> QED
    BY <1>3, <2>1, <2>2, <2>3 DEF IInv, PendingWasMissed
<1>13. FreshIsUnused' /\ PendingIsBare' /\ DraftsAreTheirs'
  BY <1>2 DEF IInv, FreshIsUnused, PendingIsBare, DraftsAreTheirs, taskVars, history
<1>14. ChecksAreTheirs' /\ ExecutedIsDecided'
  BY <1>2 DEF IInv, ChecksAreTheirs, ItemsOf, ExecutedIsDecided, taskVars, history
<1>15. DraftsAreWhole'
  BY <1>2 DEF IInv, DraftsAreWhole, IntakeFollowsItem, ItemsOf, taskVars, history
<1>16. HandlersAgree'
  <2>1. ASSUME NEW f \in Handlers, NEW g \in Handlers,
               NEW p \in handler'[f].rows, NEW x \in handler'[g].rows, p[1] = x[1]
        PROVE  p[2].task = x[2].task
    <3>1. ASSUME NEW e \in Handlers \ {h}, NEW y \in handler[e].rows
          PROVE  IF item[y[1]] = None THEN y[2].task \in crossed ELSE item[y[1]].task = y[2].task
      BY DEF IInv, HandlersReadThem
    <3>2. CASE f = h /\ g = h
      BY <1>7, <1>8, <2>1, <3>2
    <3>3. CASE f = h /\ g # h
      BY <1>7, <1>8, <2>1, <3>1, <3>3
    <3>4. CASE f # h /\ g = h
      BY <1>7, <1>8, <2>1, <3>1, <3>4
    <3>5. CASE f # h /\ g # h
      BY <1>8, <2>1, <3>5 DEF IInv, HandlersAgree
    <3> QED
      BY <3>2, <3>3, <3>4, <3>5
  <2> QED
    BY <2>1 DEF HandlersAgree
<1> QED
  BY <1>9, <1>10, <1>11, <1>12, <1>13, <1>14, <1>15, <1>16 DEF IInv

\* What a handler saves is resolved and belongs where it is written, or to a task that
\* was edited in between; a message that failed is there again.
LEMMA HandlersKeep ==
    ASSUME IInv, NEW h \in Handlers, SaveResolved(h) \/ HandlerError(h)
    PROVE  IInv'
<1>1. IntakeTypeOK /\ bank \subseteq Questions /\ MaxItems \in Nat
  BY DEF IInv, IntakeTypeOK
<1>2. /\ UNCHANGED <<bank, cache, filling, sync, status, tx, fresh, history>>
      /\ handler[h].title # None
      /\ handler' = [handler EXCEPT ![h] = Waiting]
  BY DEF SaveResolved, HandlerError, bankVars, taskVars
<1>3. PICK pairs : pairs = handler[h].rows
  OBVIOUS
<1>4. /\ pairs \subseteq ItemIds \X Row /\ OncePerId(pairs)
      /\ \A p \in pairs : /\ p[1] < fresh
                         /\ IF item[p[1]] = None THEN p[2].task \in crossed
                                                 ELSE item[p[1]].task = p[2].task
      /\ handler[h].title \in Titles /\ handler[h].q \in Questions \cup {None}
  BY <1>1, <1>2, <1>3 DEF IInv, HandlersReadThem, IntakeTypeOK
<1>5. /\ handler'[h] = Waiting /\ \A g \in Handlers \ {h} : handler'[g] = handler[g]
      /\ Waiting \in [title : Titles \cup {None}, q : Questions \cup {None},
                      rows : SUBSET (ItemIds \X Row)]
      /\ Waiting.title = None /\ Waiting.rows = {}
  BY <1>1, <1>2 DEF IntakeTypeOK, Waiting
<1>6. /\ events' \in [Titles -> Nat]
      /\ \A t \in Titles : events'[t] = 0 => events[t] = 0
      /\ HandlerError(h) => events'[handler[h].title] # 0
      /\ intakeFaults' \in 0 .. MaxIntakeFaults
  <2>1. CASE SaveResolved(h)
    <3>1. ~HandlerError(h) \/ events'[handler[h].title] # 0
      BY <1>1, <1>4 DEF HandlerError, IntakeTypeOK
    <3> QED
      BY <1>1, <2>1, <3>1 DEF SaveResolved, IntakeTypeOK, bankVars
  <2>2. CASE HandlerError(h)
    BY <1>1, <1>4, <2>2 DEF HandlerError, IntakeFault, IntakeTypeOK
  <2> QED
    BY <2>1, <2>2
\* What an item is after the step.
<1>7. ASSUME NEW i \in ItemIds
      PROVE  \/ item'[i] = item[i] /\ intake'[i] = intake[i] /\ (HandlerError(h) \/ i \notin IdsIn(pairs))
             \/ /\ i < fresh
                /\ item'[i] \in Row /\ item'[i].state = "resolved" /\ item'[i].q = handler[h].q
                /\ intake'[i] = [state |-> "resolved", q |-> handler[h].q]
                /\ IF item[i] = None THEN item'[i].task \in crossed
                                     ELSE item'[i].task = item[i].task
                /\ \E p \in pairs : p[1] = i /\ item'[i].task = p[2].task
  <2>1. CASE HandlerError(h)
    BY <2>1 DEF HandlerError, taskVars
  <2>2. CASE SaveResolved(h) /\ i \notin IdsIn(pairs)
    BY <1>3, <2>2 DEF SaveResolved, SavedIntake
  <2>3. CASE SaveResolved(h) /\ i \in IdsIn(pairs)
    <3>1. PICK p \in pairs : p[1] = i /\ RowIn(pairs, i) = p[2]
      BY <1>4, <2>3, ReadRow
    <3>2. p[2] \in Row /\ i < fresh
          /\ IF item[i] = None THEN p[2].task \in crossed ELSE item[i].task = p[2].task
      BY <1>4, <3>1
    <3>3. item'[i] = [p[2] EXCEPT !.state = "resolved", !.q = handler[h].q]
      BY <1>3, <2>3, <3>1 DEF SaveResolved
    <3>4. intake'[i] = [state |-> "resolved", q |-> handler[h].q]
      BY <1>3, <2>3 DEF SaveResolved, SavedIntake
    <3>5. /\ item'[i] \in Row /\ item'[i].state = "resolved" /\ item'[i].q = handler[h].q
          /\ item'[i].task = p[2].task
      BY <1>4, <3>2, <3>3 DEF Row
    <3> QED
      BY <3>1, <3>2, <3>4, <3>5
  <2> QED
    BY <2>1, <2>2, <2>3
<1>8. IntakeTypeOK'
  <2>1. handler' \in [Handlers -> [title : Titles \cup {None}, q : Questions \cup {None},
                                   rows : SUBSET (ItemIds \X Row)]]
    BY <1>1, <1>2, <1>5 DEF IntakeTypeOK
  <2>2. item' \in [ItemIds -> Row \cup {None}] /\ intake' \in [ItemIds -> IntakeRow \cup {None}]
    <3>1. ASSUME NEW i \in ItemIds PROVE item'[i] \in Row \cup {None} /\ intake'[i] \in IntakeRow \cup {None}
      <4>1. item[i] \in Row \cup {None} /\ intake[i] \in IntakeRow \cup {None}
        BY <1>1 DEF IntakeTypeOK
      <4> QED
        BY <1>4, <1>7, <4>1 DEF IntakeRow
    <3>2. item' = [i \in ItemIds |-> item'[i]] /\ intake' = [i \in ItemIds |-> intake'[i]]
      BY <1>1 DEF SaveResolved, SavedIntake, HandlerError, taskVars, IntakeTypeOK
    <3> QED
      BY <3>1, <3>2
  <2> QED
    BY <1>1, <1>2, <1>6, <2>1, <2>2 DEF IntakeTypeOK, history
<1>9. FreshIsUnused'
  <2>1. \A i \in ItemIds : i >= fresh => ~(i < fresh)
    BY <1>1 DEF IntakeTypeOK, ItemIds
  <2> QED
    BY <1>2, <1>7, <2>1 DEF IInv, FreshIsUnused
<1>10. PendingIsBare'
  BY <1>7 DEF IInv, PendingIsBare
<1>11. DraftsAreTheirs'
  BY <1>2 DEF IInv, DraftsAreTheirs
<1>12. ASSUME NEW k \in Tasks
       PROVE  /\ ItemsOf(k) \subseteq ItemsOf(k)'
              /\ k \notin crossed => ItemsOf(k)' = ItemsOf(k)
  <2>1. ASSUME NEW i \in ItemIds
        PROVE  /\ i \in ItemsOf(k) => item'[i] # None /\ item'[i].task = k
               /\ k \notin crossed /\ item'[i] # None /\ item'[i].task = k => i \in ItemsOf(k)
    BY <1>7 DEF ItemsOf
  <2> QED
    BY <2>1 DEF ItemsOf
<1>13. ChecksAreTheirs'
  <2>1. ASSUME NEW k \in Tasks, tx[k].op = "preflight"
        PROVE  /\ OncePerId(tx[k].rows)
               /\ \A p \in tx[k].rows : p[1] \in ItemsOf(k)' /\ p[2].task = k /\ p[2].state # "pending"
               /\ \A i \in ItemsOf(k)' : item'[i].state = "pending" => i \in IdsIn(tx[k].rows)
    <3>1. /\ OncePerId(tx[k].rows)
          /\ \A p \in tx[k].rows : p[1] \in ItemsOf(k) /\ p[2].task = k /\ p[2].state # "pending"
          /\ \A i \in ItemsOf(k) : item[i].state = "pending" => i \in IdsIn(tx[k].rows)
      BY <2>1 DEF IInv, ChecksAreTheirs
    <3>2. ASSUME NEW i \in ItemsOf(k)', item'[i].state = "pending" PROVE i \in IdsIn(tx[k].rows)
      <4>1. i \in ItemIds /\ item'[i] # None /\ item'[i].task = k
        BY DEF ItemsOf
      <4>2. item'[i] = item[i]
        BY <1>7, <3>2, <4>1
      <4>3. i \in ItemsOf(k)
        BY <4>1, <4>2 DEF ItemsOf
      <4> QED
        BY <3>1, <3>2, <4>2, <4>3
    <3> QED
      BY <1>12, <3>1, <3>2
  <2> QED
    BY <1>2, <2>1 DEF ChecksAreTheirs
<1>14. HandlersReadThem'
  <2>1. ASSUME NEW g \in Handlers
        PROVE  /\ OncePerId(handler'[g].rows)
               /\ \A p \in handler'[g].rows :
                    /\ p[1] < fresh
                    /\ IF item'[p[1]] = None THEN p[2].task \in crossed
                                             ELSE item'[p[1]].task = p[2].task
    <3>1. CASE g = h
      BY <1>5, <3>1 DEF OncePerId
    <3>2. CASE g # h
      <4>1. handler'[g].rows = handler[g].rows /\ handler[g].rows \subseteq ItemIds \X Row
        BY <1>1, <1>5, <3>2 DEF IntakeTypeOK
      <4>2. /\ OncePerId(handler[g].rows)
            /\ \A p \in handler[g].rows :
                 /\ p[1] < fresh
                 /\ IF item[p[1]] = None THEN p[2].task \in crossed
                                         ELSE item[p[1]].task = p[2].task
        BY DEF IInv, HandlersReadThem
      <4>3. ASSUME NEW p \in handler[g].rows
            PROVE  IF item'[p[1]] = None THEN p[2].task \in crossed
                                         ELSE item'[p[1]].task = p[2].task
        <5>1. p[1] \in ItemIds
          BY <4>1
        <5>2. CASE item'[p[1]] = item[p[1]]
          BY <4>2, <5>2
        <5>3. CASE item'[p[1]] # item[p[1]] /\ item[p[1]] # None
          BY <1>7, <4>2, <5>1, <5>3
        <5>4. CASE item'[p[1]] # item[p[1]] /\ item[p[1]] = None
          <6>1. PICK x \in pairs : x[1] = p[1] /\ item'[p[1]].task = x[2].task
            BY <1>7, <5>1, <5>4
          <6>2. x[2].task = p[2].task
            BY <1>3, <6>1 DEF IInv, HandlersAgree
          <6>3. item'[p[1]] # None
            BY <1>7, <5>1, <5>4
          <6> QED
            BY <6>1, <6>2, <6>3
        <5> QED
          BY <5>2, <5>3, <5>4
      <4> QED
        BY <4>1, <4>2, <4>3
    <3> QED
      BY <3>1, <3>2
  <2> QED
    BY <1>2, <2>1 DEF HandlersReadThem, history
<1>15. HandlersHaveAll'
  <2>1. ASSUME NEW g \in Handlers, handler'[g].title # None
        PROVE  /\ Candidates(bank, handler'[g].title) # {}
               /\ \A i \in ItemIds :
                    /\ item'[i] # None /\ item'[i].state = "pending"
                    /\ item'[i].title = handler'[g].title
                    => i \in IdsIn(handler'[g].rows) \cup late
    <3>1. handler'[g] = handler[g]
      BY <1>5, <2>1
    <3> QED
      BY <1>7, <2>1, <3>1 DEF IInv, HandlersHaveAll
  <2> QED
    BY <1>2, <2>1 DEF HandlersHaveAll, history
<1>16. PendingWasMissed'
  <2> SUFFICES ASSUME NEW i \in ItemIds, item'[i] # None, item'[i].state = "pending",
                      Cardinality(Candidates(bank, item'[i].title)) = 1,
                      events'[item'[i].title] = 0,
                      \A g \in Handlers : handler'[g].title # item'[i].title
               PROVE  i \in late
    BY <1>2 DEF PendingWasMissed, history
  <2>1. item'[i] = item[i] /\ (HandlerError(h) \/ i \notin IdsIn(pairs)) /\ item[i].title \in Titles
    BY <1>1, <1>7 DEF IntakeTypeOK, Row
  <2>2. events[item[i].title] = 0 /\ \A g \in Handlers \ {h} : handler[g].title # item[i].title
    BY <1>5, <1>6, <2>1
  <2>3. CASE handler[h].title # item[i].title
    BY <2>1, <2>2, <2>3 DEF IInv, PendingWasMissed
  <2>4. CASE handler[h].title = item[i].title
    <3>1. i \in IdsIn(pairs) \cup late
      BY <1>2, <1>3, <2>1, <2>4 DEF IInv, HandlersHaveAll
    <3>2. ~HandlerError(h)
      BY <1>6, <2>1, <2>4
    <3> QED
      BY <2>1, <3>1, <3>2
  <2> QED
    BY <2>3, <2>4
<1>17. ExecutedIsDecided'
  <2>1. ASSUME NEW i \in ItemIds, item'[i] # None, status[item'[i].task] = "executed"
        PROVE  item'[i].state # "pending"
    BY <1>7, <2>1 DEF IInv, ExecutedIsDecided
  <2> QED
    BY <1>2, <2>1 DEF ExecutedIsDecided
<1>18. DraftsAreWhole'
  <2>1. ASSUME NEW i \in ItemIds, intake'[i] # None
        PROVE  item'[i] # None /\ intake'[i].state = item'[i].state /\ intake'[i].q = item'[i].q
    BY <1>7, <2>1 DEF IInv, DraftsAreWhole, IntakeFollowsItem
  <2>2. IntakeFollowsItem'
    BY <2>1 DEF IntakeFollowsItem
  <2>3. \A k \in Tasks \ crossed : ItemsOf(k)' = written[k]
    BY <1>12 DEF IInv, DraftsAreWhole
  <2> QED
    BY <1>2, <2>2, <2>3 DEF DraftsAreWhole, history
<1>19. HandlersAgree'
  <2>1. \A g \in Handlers : handler'[g].rows \subseteq handler[g].rows
    BY <1>5
  <2> QED
    BY <2>1 DEF IInv, HandlersAgree
<1> QED
  BY <1>8, <1>9, <1>10, <1>11, <1>13, <1>14, <1>15, <1>16, <1>17, <1>18, <1>19 DEF IInv

\* The check writes the rows of its task that it has read and decides each.
LEMMA CheckKeeps ==
    ASSUME IInv, NEW k \in Tasks, PreFlightCheck(k)
    PROVE  IInv'
<1>1. IntakeTypeOK /\ bank \subseteq Questions /\ MaxItems \in Nat
  BY DEF IInv, IntakeTypeOK
<1>2. /\ UNCHANGED <<bankVars, fresh, handler, intakeFaults, history>>
      /\ tx[k].op = "preflight"
      /\ tx' = [tx EXCEPT ![k] = NoTx] /\ status' = [status EXCEPT ![k] = "executed"]
  BY DEF PreFlightCheck
<1>3. PICK pairs : pairs = tx[k].rows
  OBVIOUS
<1>4. /\ pairs \subseteq (0 .. MaxItems) \X Row /\ OncePerId(pairs)
      /\ \A p \in pairs : p[1] \in ItemsOf(k) /\ p[2].task = k /\ p[2].state # "pending"
      /\ \A i \in ItemsOf(k) : item[i].state = "pending" => i \in IdsIn(pairs)
  BY <1>1, <1>2, <1>3 DEF IInv, ChecksAreTheirs, IntakeTypeOK
<1>5. ASSUME NEW i \in ItemIds
      PROVE  \/ item'[i] = item[i] /\ intake'[i] = intake[i] /\ i \notin IdsIn(pairs)
             \/ /\ i \in IdsIn(pairs)
                /\ item[i] # None /\ item[i].task = k
                /\ item'[i] \in Row /\ item'[i].task = k /\ item'[i].state # "pending"
                /\ intake'[i] = IF intake[i] # None THEN [state |-> item'[i].state, q |-> item'[i].q]
                                                    ELSE intake[i]
  <2>1. CASE i \notin IdsIn(pairs)
    BY <1>3, <2>1 DEF PreFlightCheck
  <2>2. CASE i \in IdsIn(pairs)
    <3>1. PICK p \in pairs : p[1] = i /\ RowIn(pairs, i) = p[2]
      BY <1>4, <2>2, ReadRow
    <3>2. item'[i] = p[2]
      BY <1>3, <2>2, <3>1 DEF PreFlightCheck
    <3>3. intake'[i] = IF intake[i] # None THEN [state |-> p[2].state, q |-> p[2].q] ELSE intake[i]
      BY <1>3, <2>2, <3>1 DEF PreFlightCheck
    <3>4. p[2] \in Row /\ item[i] # None /\ item[i].task = k /\ p[2].task = k /\ p[2].state # "pending"
      BY <1>4, <3>1 DEF ItemsOf
    <3> QED
      BY <2>2, <3>2, <3>3, <3>4
  <2> QED
    BY <2>1, <2>2
<1>6. IntakeTypeOK'
  <2>1. item' \in [ItemIds -> Row \cup {None}] /\ intake' \in [ItemIds -> IntakeRow \cup {None}]
    <3>1. ASSUME NEW i \in ItemIds PROVE item'[i] \in Row \cup {None} /\ intake'[i] \in IntakeRow \cup {None}
      <4>1. item[i] \in Row \cup {None} /\ intake[i] \in IntakeRow \cup {None}
        BY <1>1 DEF IntakeTypeOK
      <4>2. \A r \in Row : [state |-> r.state, q |-> r.q] \in IntakeRow
        BY DEF Row, IntakeRow
      <4> QED
        BY <1>5, <4>1, <4>2
    <3>2. item' = [i \in ItemIds |-> item'[i]] /\ intake' = [i \in ItemIds |-> intake'[i]]
      BY DEF PreFlightCheck
    <3> QED
      BY <3>1, <3>2
  <2>2. status' \in [Tasks -> {"none", "scheduled", "executing", "executed", "failed"}]
        /\ tx' \in [Tasks -> [op : {"none", "create", "update", "preflight"},
                              rows : SUBSET ((0 .. MaxItems) \X Row)]]
    BY <1>1, <1>2 DEF NoTx, IntakeTypeOK
  <2> QED
    BY <1>1, <1>2, <2>1, <2>2 DEF IntakeTypeOK, bankVars, history
<1>7. FreshIsUnused'
  BY <1>2, <1>5 DEF IInv, FreshIsUnused
<1>8. PendingIsBare'
  BY <1>5 DEF IInv, PendingIsBare
<1>9. \A j \in Tasks : ItemsOf(j)' = ItemsOf(j)
  <2>1. ASSUME NEW j \in Tasks, NEW i \in ItemIds
        PROVE  item'[i] # None /\ item'[i].task = j <=> item[i] # None /\ item[i].task = j
    BY <1>5
  <2> QED
    BY <2>1 DEF ItemsOf
<1>10. DraftsAreTheirs' /\ ChecksAreTheirs'
  <2>1. tx'[k].op = "none" /\ \A j \in Tasks \ {k} : tx'[j] = tx[j]
    BY <1>1, <1>2 DEF NoTx, IntakeTypeOK
  <2>2. DraftsAreTheirs'
    BY <2>1 DEF IInv, DraftsAreTheirs
  <2>3. ASSUME NEW j \in Tasks, tx'[j].op = "preflight"
        PROVE  /\ OncePerId(tx'[j].rows)
               /\ \A p \in tx'[j].rows : p[1] \in ItemsOf(j)' /\ p[2].task = j /\ p[2].state # "pending"
               /\ \A i \in ItemsOf(j)' : item'[i].state = "pending" => i \in IdsIn(tx'[j].rows)
    <3>1. tx'[j] = tx[j] /\ tx[j].op = "preflight" /\ ItemsOf(j)' = ItemsOf(j)
      BY <1>9, <2>1, <2>3
    <3>2. \A i \in ItemsOf(j) : item'[i].state = "pending" => item'[i] = item[i]
      BY <1>5 DEF ItemsOf
    <3> QED
      BY <3>1, <3>2 DEF IInv, ChecksAreTheirs
  <2> QED
    BY <2>2, <2>3 DEF ChecksAreTheirs
<1>11. HandlersReadThem'
  <2>1. ASSUME NEW g \in Handlers, NEW p \in handler[g].rows
        PROVE  /\ p[1] < fresh
               /\ IF item'[p[1]] = None THEN p[2].task \in crossed
                                        ELSE item'[p[1]].task = p[2].task
    <3>1. p[1] \in ItemIds
      BY <1>1 DEF IntakeTypeOK
    <3>2. /\ p[1] < fresh
          /\ IF item[p[1]] = None THEN p[2].task \in crossed ELSE item[p[1]].task = p[2].task
      BY DEF IInv, HandlersReadThem
    <3> QED
      BY <1>5, <3>1, <3>2
  <2> QED
    BY <1>2, <2>1 DEF IInv, HandlersReadThem, history
<1>12. HandlersHaveAll'
  BY <1>2, <1>5 DEF IInv, HandlersHaveAll, bankVars, history
<1>13. PendingWasMissed'
  <2> SUFFICES ASSUME NEW i \in ItemIds, item'[i] # None, item'[i].state = "pending",
                      Cardinality(Candidates(bank, item'[i].title)) = 1,
                      events[item'[i].title] = 0,
                      \A g \in Handlers : handler[g].title # item'[i].title
               PROVE  i \in late
    BY <1>2 DEF PendingWasMissed, bankVars, history
  <2>1. item'[i] = item[i]
    BY <1>5
  <2> QED
    BY <2>1 DEF IInv, PendingWasMissed
<1>14. ExecutedIsDecided'
  <2>1. \A j \in Tasks \ {k} : status'[j] = status[j]
    BY <1>1, <1>2 DEF IntakeTypeOK
  <2>2. ASSUME NEW i \in ItemIds, item'[i] # None, status'[item'[i].task] = "executed",
               item'[i].state = "pending"
        PROVE  FALSE
    <3>1. item'[i] = item[i] /\ i \notin IdsIn(pairs)
      BY <1>5, <2>2
    <3>2. item[i].task \in Tasks
      BY <1>1, <2>2, <3>1 DEF IntakeTypeOK, Row
    <3>3. CASE item[i].task = k
      BY <1>4, <2>2, <3>1, <3>3 DEF ItemsOf
    <3>4. CASE item[i].task # k
      BY <2>1, <2>2, <3>1, <3>2, <3>4 DEF IInv, ExecutedIsDecided
    <3> QED
      BY <3>3, <3>4
  <2> QED
    BY <2>2 DEF ExecutedIsDecided
<1>15. DraftsAreWhole'
  <2>1. ASSUME NEW i \in ItemIds, intake'[i] # None
        PROVE  item'[i] # None /\ intake'[i].state = item'[i].state /\ intake'[i].q = item'[i].q
    <3>1. CASE i \notin IdsIn(pairs)
      BY <1>5, <2>1, <3>1 DEF IInv, DraftsAreWhole, IntakeFollowsItem
    <3>2. CASE i \in IdsIn(pairs)
      <4>1. item'[i] \in Row /\ intake'[i] = [state |-> item'[i].state, q |-> item'[i].q]
        BY <1>5, <2>1, <3>2
      <4> QED
        BY <4>1
    <3> QED
      BY <3>1, <3>2
  <2>2. IntakeFollowsItem'
    BY <2>1 DEF IntakeFollowsItem
  <2> QED
    BY <1>2, <1>9, <2>2 DEF IInv, DraftsAreWhole, history
<1>16. HandlersAgree'
  BY <1>2 DEF IInv, HandlersAgree
<1> QED
  BY <1>6, <1>7, <1>8, <1>10, <1>11, <1>12, <1>13, <1>14, <1>15, <1>16 DEF IInv

-----------------------------------------------------------------------------
(* The theorems                                                                *)

LEMMA IInvInit == IntakeInit => IInv
<1> SUFFICES ASSUME IntakeInit PROVE IInv
  OBVIOUS
<1>1. IntakeTypeOK
  BY DEF IntakeInit, IntakeTypeOK, NoTx, Waiting
<1>2. FreshIsUnused /\ PendingIsBare /\ DraftsAreTheirs /\ ChecksAreTheirs
  BY DEF IntakeInit, FreshIsUnused, PendingIsBare, DraftsAreTheirs, ChecksAreTheirs, NoTx
<1>3. HandlersReadThem /\ HandlersAgree /\ HandlersHaveAll
  BY DEF IntakeInit, HandlersReadThem, HandlersAgree, HandlersHaveAll, OncePerId, Waiting
<1>4. DraftsAreWhole /\ PendingWasMissed /\ ExecutedIsDecided
  BY DEF IntakeInit, DraftsAreWhole, IntakeFollowsItem, ItemsOf, PendingWasMissed, ExecutedIsDecided
<1> QED
  BY <1>1, <1>2, <1>3, <1>4 DEF IInv

LEMMA IInvStep == IInv /\ [IntakeNext]_intakeVars => IInv'
<1> SUFFICES ASSUME IInv, [IntakeNext]_intakeVars PROVE IInv'
  OBVIOUS
<1>1. CASE UNCHANGED intakeVars
  <2>1. UNCHANGED <<bank, cache, filling, events, sync, status, item, intake, tx, fresh, handler,
                    intakeFaults, written, crossed, late>>
    BY <1>1 DEF intakeVars, bankVars, taskVars, history
  <2> QED
    BY <2>1 DEF IInv, IntakeTypeOK, FreshIsUnused, PendingIsBare, DraftsAreTheirs, ChecksAreTheirs,
       HandlersReadThem, HandlersAgree, HandlersHaveAll, DraftsAreWhole, IntakeFollowsItem, ItemsOf,
       PendingWasMissed, ExecutedIsDecided
<1>2. CASE FillCache \/ \E s \in Syncs : ReadProblems(s) \/ InsertProblems(s) \/ InsertError(s)
  BY <1>2, BankKeeps
<1>3. ASSUME NEW k \in Tasks,
             \/ BeginCreate(k) \/ BeginUpdate(k) \/ DraftError(k)
             \/ Execute(k) \/ ReadItems(k) \/ PreFlightError(k)
             \/ \E from \in Tasks : BeginRetry(k, from)
      PROVE  IInv'
  BY <1>3, TasksKeep
<1>4. ASSUME NEW k \in Tasks, CommitDraft(k) \/ PreFlightCheck(k) PROVE IInv'
  BY <1>4, DraftKeeps, CheckKeeps
<1>5. ASSUME NEW h \in Handlers,
             SaveResolved(h) \/ HandlerError(h) \/ \E t \in Titles : ReadPending(h, t)
      PROVE  IInv'
  BY <1>5, ReadingKeeps, HandlersKeep
<1> QED
  BY <1>1, <1>2, <1>3, <1>4, <1>5 DEF IntakeNext

\* The inductive invariant holds in every reachable state.
LEMMA Invariance == IntakeSpec => []IInv
<1>1. IntakeInit => IInv
  BY IInvInit
<1>2. IInv /\ [IntakeNext]_intakeVars => IInv'
  BY IInvStep
<1> QED
  BY <1>1, <1>2, PTL DEF IntakeSpec

\* The tables, the transactions and the messages keep their types.
THEOREM IntakeIsTyped == IntakeSpec => []IntakeTypeOK
<1>1. IInv => IntakeTypeOK
  BY DEF IInv
<1> QED
  BY <1>1, Invariance, PTL

\* A task has the items of its last draft and each waits in both tables or in none:
\* materializeDraftTx writes them together, and only a handler that read them before an
\* edit brings deleted ones back.
THEOREM DraftsStayWhole == IntakeSpec => []DraftsAreWhole
<1>1. IInv => DraftsAreWhole
  BY DEF IInv
<1> QED
  BY <1>1, Invariance, PTL

\* No announcement of a question is lost on an item that waits for it: HandleQuestionUpserted
\* takes every pending row of the title, and a failed message is delivered again.
THEOREM PendingIsMissed == IntakeSpec => []PendingWasMissed
<1>1. IInv => PendingWasMissed
  BY DEF IInv
<1> QED
  BY <1>1, Invariance, PTL

\* Nothing waits in a task that preFlightCheck has passed, whatever handlers save meanwhile.
THEOREM ExecutedAreDecided == IntakeSpec => []ExecutedIsDecided
<1>1. IInv => ExecutedIsDecided
  BY DEF IInv
<1> QED
  BY <1>1, Invariance, PTL
=============================================================================
