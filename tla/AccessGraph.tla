------------------------------- MODULE AccessGraph -------------------------------
(* The tables that say what a role may do: roles, menus, APIs and the relations   *)
(* between them.  A call of a service reads what it needs, and commits one        *)
(* transaction later; the transaction leaves an event from which the permissions  *)
(* are projected (PermissionProjection).                                          *)
(*   src/internal/service/system/{roleSvc,menuSvc,apiSvc,apiLifecycle}.go         *)
(*   src/internal/repository/system/{roleRepo,menuRepo,apiRepo,capabilityRepo}.go *)
EXTENDS Naturals, FiniteSets

CONSTANTS Roles, Menus, Apis,   \* rows: an API's row stands for its path and method
          Builtin,              \* roles that may not be deleted
          Calls,                \* calls in progress
          RouteSets,            \* what the routers of deployed versions serve
          NoMenu,               \* no menu
          MaxAccessCalls        \* bound: calls begun

ASSUME AccessAssumption ==
    /\ Builtin \subseteq Roles
    /\ RouteSets \subseteq SUBSET Apis
    /\ NoMenu \notin Menus
    /\ MaxAccessCalls \in Nat

VARIABLES role,        \* role -> "live" or "deleted"
          held,        \* roles that some user has
          menu,        \* menu -> [state, parent]
          api,         \* API -> [state, on]
          roleMenus,   \* role_menus, role_apis and role_capabilities, by role
          roleApis,
          able,        \* roles with the capability
          menuOf,      \* menu_apis: its index makes it a function of the API
          call,        \* request -> what it does and what it has read
          announced,   \* the graph when the last event was committed
          begun,       \* calls begun
          granted,     \* role -> menus last assigned to it
          overtook,    \* roles whose menus a late UpdateRole has added to
          silent       \* a synchronisation has saved a row that had changed

accessVars == <<role, held, menu, api, roleMenus, roleApis, able, menuOf, call, announced,
                begun, granted, overtook, silent>>

NoCall == [op |-> "none"]
Live(m) == m \in Menus /\ menu[m].state = "live"
ApiRows == [state : {"absent", "registered", "missing", "archived"}, on : BOOLEAN]

\* isProjectableAPI and applyRegisteredAPIFilter.
Projectable(a) == api[a].on /\ api[a].state = "registered"

\* What PermissionProjection reads of these tables.
Graph ==
    [menus |-> {p \in Roles \X Menus :
                    role[p[1]] = "live" /\ Live(p[2]) /\ p[2] \in roleMenus[p[1]]},
     apis |-> {p \in Menus \X Apis : menuOf[p[2]] = p[1] /\ Live(p[1]) /\ Projectable(p[2])},
     direct |-> {p \in Roles \X Apis :
                    role[p[1]] = "live" /\ p[2] \in roleApis[p[1]] /\ Projectable(p[2])},
     able |-> {r \in able : role[r] = "live"}]

AccessTypeOK ==
    /\ role \in [Roles -> {"live", "deleted"}]
    /\ held \subseteq Roles
    /\ menu \in [Menus -> [state : {"absent", "live", "deleted"}, parent : Menus \cup {NoMenu}]]
    /\ api \in [Apis -> ApiRows]
    /\ roleMenus \in [Roles -> SUBSET Menus]
    /\ roleApis \in [Roles -> SUBSET Apis]
    /\ able \subseteq Roles
    /\ menuOf \in [Apis -> Menus \cup {NoMenu}]
    /\ DOMAIN call = Calls
    /\ begun \in 0..MaxAccessCalls
    /\ granted \in [Roles -> SUBSET Menus]
    /\ overtook \subseteq Roles
    /\ silent \in BOOLEAN

\* Any graph that calls made one after the other can build of live rows.
AccessInit ==
    /\ role = [r \in Roles |-> "live"]
    /\ held = Builtin
    /\ menu \in [Menus -> [state : {"absent", "live"}, parent : {NoMenu}]]
    /\ api \in [Apis -> {[state |-> "absent", on |-> FALSE], [state |-> "registered", on |-> TRUE]}]
    /\ roleMenus \in [Roles -> SUBSET {m \in Menus : Live(m)}]
    /\ roleApis = [r \in Roles |-> {}]
    /\ able = Builtin
    /\ menuOf \in [Apis -> Menus \cup {NoMenu}]
    /\ \A a \in Apis : menuOf[a] # NoMenu => Live(menuOf[a]) /\ api[a].state # "absent"
    /\ call = [q \in Calls |-> NoCall]
    /\ announced = Graph
    /\ begun = 0
    /\ granted = roleMenus
    /\ overtook = {}
    /\ silent = FALSE

-----------------------------------------------------------------------------
(* Steps common to all calls.                                                  *)

relations == <<roleMenus, roleApis, able, menuOf>>
rows == <<role, held, menu, api>>
histories == <<granted, overtook>>

\* The reads of a call, outside its transaction.
Begin(q, c) ==
    /\ call[q] = NoCall
    /\ begun < MaxAccessCalls
    /\ call' = [call EXCEPT ![q] = c]
    /\ begun' = begun + 1
    /\ UNCHANGED <<rows, relations, announced, silent, histories>>

\* The transaction of a call that ends with it.
Commits(q, op) ==
    /\ call[q].op = op
    /\ call' = [call EXCEPT ![q] = NoCall]
    /\ UNCHANGED begun

\* PublishPermissionGraphChangedInTx: the event is a row of the transaction.
Announce == announced' = Graph' /\ silent' = FALSE

\* The request gives up: an error of the database rolls everything back.
Fail(q) ==
    /\ call[q] # NoCall
    /\ call' = [call EXCEPT ![q] = NoCall]
    /\ UNCHANGED <<rows, relations, announced, begun, silent, histories>>

-----------------------------------------------------------------------------
(* Roles.                                                                      *)

\* GetByID preloads the menus that are not deleted.
ReadForUpdateRole(q, r) ==
    /\ role[r] = "live"
    /\ Begin(q, [op |-> "updateRole", role |-> r, was |-> roleMenus[r],
                 menus |-> {m \in roleMenus[r] : Live(m)}])

\* Save writes the row, or inserts it again when it was deleted, and inserts the
\* preloaded menus that are no longer there.
UpdateRole(q) ==
    LET c == call[q] IN
    /\ Commits(q, "updateRole")
    /\ role' = [role EXCEPT ![c.role] = "live"]
    /\ roleMenus' = [roleMenus EXCEPT ![c.role] = @ \cup c.menus]
    /\ overtook' = IF roleMenus[c.role] = c.was THEN overtook ELSE overtook \cup {c.role}
    /\ UNCHANGED <<held, menu, api, roleApis, able, menuOf, granted>>
    /\ Announce

\* Neither built in nor in use.
ReadForDeleteRole(q, r) ==
    /\ role[r] = "live"
    /\ r \notin Builtin \cup held
    /\ Begin(q, [op |-> "deleteRole", role |-> r])

\* Faulty: the menus of the role are kept.
DeleteRole_KeepsMenus(q) ==
    LET r == call[q].role IN
    /\ Commits(q, "deleteRole")
    /\ role' = [role EXCEPT ![r] = "deleted"]
    /\ roleApis' = [roleApis EXCEPT ![r] = {}]
    /\ granted' = [granted EXCEPT ![r] = {}]
    /\ overtook' = overtook \ {r}
    /\ UNCHANGED <<held, menu, api, roleMenus, able, menuOf>>
    /\ Announce

DeleteRole(q) ==
    LET r == call[q].role IN
    /\ Commits(q, "deleteRole")
    /\ role' = [role EXCEPT ![r] = "deleted"]
    /\ roleMenus' = [roleMenus EXCEPT ![r] = {}]
    /\ roleApis' = [roleApis EXCEPT ![r] = {}]
    /\ granted' = [granted EXCEPT ![r] = {}]
    /\ overtook' = overtook \ {r}
    /\ UNCHANGED <<held, menu, api, able, menuOf>>
    /\ Announce

\* The Redis lock of the role.
Assigning(r) == \E q \in Calls : call[q].op = "assign" /\ call[q].role = r

\* filterValidMenuIDs, filterValidAPIIDs and filterValidCapabilityCodes.
ReadForAssign(q, r, ms, as, ability) ==
    /\ ~Assigning(r)
    /\ role[r] = "live"
    /\ Begin(q, [op |-> "assign", role |-> r, able |-> ability,
                 menus |-> {m \in ms : Live(m)}, apis |-> {a \in as : Projectable(a)}])

\* ReplaceRolePermissions and ReplaceRoleCapabilities: the role is not read again.
AssignPermissions(q) ==
    LET c == call[q] IN
    /\ Commits(q, "assign")
    /\ roleMenus' = [roleMenus EXCEPT ![c.role] = c.menus]
    /\ roleApis' = [roleApis EXCEPT ![c.role] = c.apis]
    /\ able' = IF c.able THEN able \cup {c.role} ELSE able \ {c.role}
    /\ granted' = [granted EXCEPT ![c.role] = c.menus]
    /\ overtook' = overtook \ {c.role}
    /\ UNCHANGED <<rows, menuOf>>
    /\ Announce

\* UserService.AssignRole, for a user to whom r is given or from whom it is taken.
ReadForHold(q, r, give) ==
    /\ role[r] = "live"
    /\ Begin(q, [op |-> "hold", role |-> r, give |-> give])

Hold(q) ==
    LET c == call[q] IN
    /\ Commits(q, "hold")
    /\ held' = IF c.give THEN held \cup {c.role} ELSE held \ {c.role}
    /\ UNCHANGED <<role, menu, api, relations, announced, silent, histories>>

-----------------------------------------------------------------------------
(* Menus.                                                                      *)

ReadForCreateMenu(q, m, parent) ==
    /\ menu[m].state = "absent"
    /\ parent = NoMenu \/ Live(parent)
    /\ Begin(q, [op |-> "createMenu", menu |-> m, parent |-> parent])

\* The unique code refuses the second of two; no event.
CreateMenu(q) ==
    LET c == call[q] IN
    /\ Commits(q, "createMenu")
    /\ menu' = IF menu[c.menu].state # "absent" THEN menu
               ELSE [menu EXCEPT ![c.menu] = [state |-> "live", parent |-> c.parent]]
    /\ UNCHANGED <<role, held, api, relations, announced, silent, histories>>

\* The parent is any but the menu itself, or is left as it was read.
ReadForUpdateMenu(q, m, parent) ==
    /\ Live(m)
    /\ parent # m
    /\ Begin(q, [op |-> "updateMenu", menu |-> m, parent |-> parent,
                 apis |-> {a \in Apis : menuOf[a] = m /\ Projectable(a)}])

\* As UpdateRole: preloaded APIs are bound again unless another menu has them.
UpdateMenu(q) ==
    LET c == call[q] IN
    /\ Commits(q, "updateMenu")
    /\ menu' = [menu EXCEPT ![c.menu] = [state |-> "live", parent |-> c.parent]]
    /\ menuOf' = [a \in Apis |-> IF a \in c.apis /\ menuOf[a] = NoMenu THEN c.menu ELSE menuOf[a]]
    /\ UNCHANGED <<role, held, api, roleMenus, roleApis, able, histories>>
    /\ Announce

HasChildren(m) == \E n \in Menus : Live(n) /\ menu[n].parent = m

ReadForDeleteMenu(q, m) ==
    /\ Live(m)
    /\ ~HasChildren(m)
    /\ Begin(q, [op |-> "deleteMenu", menu |-> m])

\* Faulty: the event is forgotten.
DeleteMenu_Silent(q) ==
    LET m == call[q].menu IN
    /\ Commits(q, "deleteMenu")
    /\ menu' = [menu EXCEPT ![m].state = "deleted"]
    /\ menuOf' = [a \in Apis |-> IF menuOf[a] = m THEN NoMenu ELSE menuOf[a]]
    /\ UNCHANGED <<role, held, api, roleMenus, roleApis, able, announced, silent, histories>>

\* The menu of a role stays in role_menus.
DeleteMenu(q) ==
    LET m == call[q].menu IN
    /\ Commits(q, "deleteMenu")
    /\ menu' = [menu EXCEPT ![m].state = "deleted"]
    /\ menuOf' = [a \in Apis |-> IF menuOf[a] = m THEN NoMenu ELSE menuOf[a]]
    /\ UNCHANGED <<role, held, api, roleMenus, roleApis, able, histories>>
    /\ Announce

ReadForBind(q, m, as) ==
    /\ Live(m)
    /\ Begin(q, [op |-> "bind", menu |-> m, apis |-> {a \in as : Projectable(a)}])

\* ReplaceMenuAPIsSingleBinding takes the APIs from the menus that have them.
BindAPIs(q) ==
    LET c == call[q] IN
    /\ Commits(q, "bind")
    /\ menuOf' = [a \in Apis |-> IF a \in c.apis THEN c.menu
                                 ELSE IF menuOf[a] = c.menu THEN NoMenu ELSE menuOf[a]]
    /\ UNCHANGED <<rows, roleMenus, roleApis, able, histories>>
    /\ Announce

-----------------------------------------------------------------------------
(* APIs.                                                                       *)

ReadForCreateAPI(q, a, m) ==
    /\ Live(m)
    /\ api[a].state = "absent"
    /\ Begin(q, [op |-> "createAPI", api |-> a, menu |-> m])

\* The index on path and method refuses the second of two.
CreateAPI(q) ==
    LET c == call[q] IN
    /\ Commits(q, "createAPI")
    /\ api[c.api].state = "absent"
    /\ api' = [api EXCEPT ![c.api] = [state |-> "registered", on |-> TRUE]]
    /\ menuOf' = [menuOf EXCEPT ![c.api] = c.menu]
    /\ UNCHANGED <<role, held, menu, roleMenus, roleApis, able, histories>>
    /\ Announce

\* menu is "keep", NoMenu or the menu to move the API to.
ReadForUpdateAPI(q, a, on, m) ==
    /\ api[a].state # "absent"
    /\ m \in {"keep", NoMenu} \/ Live(m)
    /\ Begin(q, [op |-> "updateAPI", api |-> a, menu |-> m, saved |-> [api[a] EXCEPT !.on = on]])

\* UpdateWithMenu saves the whole row that was read.
UpdateAPI(q) ==
    LET c == call[q] IN
    /\ Commits(q, "updateAPI")
    /\ api' = [api EXCEPT ![c.api] = c.saved]
    /\ menuOf' = IF c.menu = "keep" THEN menuOf ELSE [menuOf EXCEPT ![c.api] = c.menu]
    /\ UNCHANGED <<role, held, menu, roleMenus, roleApis, able, histories>>
    /\ Announce

ReadForDeleteAPI(q, a) ==
    /\ api[a].state # "absent"
    /\ Begin(q, [op |-> "deleteAPI", api |-> a])

\* RemoveAPIFromAllMenus, RemoveAPIFromAllRoles and Delete, which archives.
DeleteAPI(q) ==
    LET a == call[q].api IN
    /\ Commits(q, "deleteAPI")
    /\ api' = [api EXCEPT ![a] = [state |-> "archived", on |-> FALSE]]
    /\ menuOf' = [menuOf EXCEPT ![a] = NoMenu]
    /\ roleApis' = [r \in Roles |-> roleApis[r] \ {a}]
    /\ UNCHANGED <<role, held, menu, roleMenus, able, histories>>
    /\ Announce

\* SyncAPI lists all rows before its transaction.
ReadForSync(q, routes) == Begin(q, [op |-> "sync", routes |-> routes, read |-> api])

\* Faulty: archived rows are not passed over.
Synced_Archived(c, a) ==
    LET row == IF c.read[a].state = "absent" THEN api[a] ELSE c.read[a] IN
    CASE a \in c.routes /\ row.state = "absent" -> [state |-> "registered", on |-> TRUE]
      [] a \in c.routes /\ row.state # "absent" -> [row EXCEPT !.state = "registered"]
      [] a \notin c.routes /\ c.read[a].state = "registered" -> [row EXCEPT !.state = "missing"]
      [] OTHER -> api[a]

\* The row a synchronisation leaves: the one it listed, with its state set; one it
\* did not find in the list is looked up again, deleted and archived ones included.
Synced(c, a) ==
    LET row == IF c.read[a].state = "absent" THEN api[a] ELSE c.read[a] IN
    CASE a \in c.routes /\ row.state = "absent" -> [state |-> "registered", on |-> TRUE]
      [] a \in c.routes /\ row.state # "absent" /\ c.read[a].state # "archived" ->
             [row EXCEPT !.state = "registered"]
      [] a \notin c.routes /\ c.read[a].state = "registered" -> [row EXCEPT !.state = "missing"]
      [] OTHER -> api[a]

\* projectionChanged: judged by the rows listed, not by those overwritten.
SeesChange(c) ==
    \E a \in Apis :
        \/ a \in c.routes /\ c.read[a].state = "missing"
        \/ a \in c.routes /\ c.read[a].state = "absent" /\ api[a].state # "registered"
        \/ a \notin c.routes /\ c.read[a].state = "registered"

\* Save writes last_seen_at, and with it the whole row, for every route it listed.
Overwrites(c) == \E a \in Apis : c.read[a] # api[a] /\ Synced(c, a) # api[a]

SyncAPI(q) ==
    LET c == call[q] IN
    /\ Commits(q, "sync")
    /\ api' = [a \in Apis |-> Synced(c, a)]
    /\ UNCHANGED <<role, held, menu, relations, histories>>
    /\ IF SeesChange(c) THEN Announce
       ELSE silent' = (silent \/ Overwrites(c)) /\ UNCHANGED announced

-----------------------------------------------------------------------------
Reads(q) ==
    \/ \E r \in Roles :
        \/ ReadForUpdateRole(q, r)
        \/ ReadForDeleteRole(q, r)
        \/ \E ms \in SUBSET Menus, as \in SUBSET Apis, ability \in BOOLEAN :
             ReadForAssign(q, r, ms, as, ability)
        \/ \E give \in BOOLEAN : ReadForHold(q, r, give)
    \/ \E m \in Menus :
        \/ \E p \in Menus \cup {NoMenu} : ReadForCreateMenu(q, m, p) \/ ReadForUpdateMenu(q, m, p)
        \/ ReadForDeleteMenu(q, m)
        \/ \E as \in SUBSET Apis : ReadForBind(q, m, as)
    \/ \E a \in Apis :
        \/ \E m \in Menus : ReadForCreateAPI(q, a, m)
        \/ \E on \in BOOLEAN, m \in Menus \cup {"keep", NoMenu} : ReadForUpdateAPI(q, a, on, m)
        \/ ReadForDeleteAPI(q, a)
    \/ \E routes \in RouteSets : ReadForSync(q, routes)

Writes(q) ==
    \/ UpdateRole(q) \/ DeleteRole(q) \/ AssignPermissions(q) \/ Hold(q)
    \/ CreateMenu(q) \/ UpdateMenu(q) \/ DeleteMenu(q) \/ BindAPIs(q)
    \/ CreateAPI(q) \/ UpdateAPI(q) \/ DeleteAPI(q) \/ SyncAPI(q)
    \/ Fail(q)

AccessNext == \E q \in Calls : Reads(q) \/ Writes(q)

AccessSpec == AccessInit /\ [][AccessNext]_accessVars

-----------------------------------------------------------------------------
(* Properties.                                                                 *)

\* PublishPermissionGraphChangedInTx in every transaction: the permissions are
\* projected from the graph as it is, unless a synchronisation of the routes saved
\* a row it had listed before somebody else changed it, and saw no change itself.
GraphIsAnnounced == announced # Graph => silent

\* AssignPermissions, roleRepo.Update: a role has the menus that were last assigned
\* to it; more of them only when an update of its name was read before the
\* assignment or deletion and committed after it.
GrantsAreCurrent ==
    \A r \in Roles : /\ granted[r] \subseteq roleMenus[r]
                     /\ roleMenus[r] # granted[r] => r \in overtook

\* DeleteAPI, SyncAPI: an archived API is back only through a call that had read it
\* before it was archived; a later synchronisation leaves it alone although its
\* route is still served.
ArchivedStays ==
    [][\A a \in Apis :
         api[a].state = "archived" /\ api'[a].state # "archived" =>
            \E q \in Calls :
                /\ call'[q] = NoCall
                /\ \/ call[q].op = "updateAPI" /\ call[q].saved.state # "archived"
                   \/ call[q].op = "sync" /\ call[q].read[a].state # "archived"]_accessVars
====
