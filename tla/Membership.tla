------------------------------- MODULE Membership -------------------------------
(* Who is in which organisation.  Requests look at rows first and change them   *)
(* in a later transaction; each commit leaves an event for the ranking and, if   *)
(* it touched roles, one for the permission projection.                          *)
(*   src/internal/service/system/orgSvc.go, userSvc.go                           *)
(*   src/internal/repository/system/orgMemberRepo.go, orgRepo.go, userRepo.go    *)
EXTENDS Naturals, FiniteSets

CONSTANTS Users, Orgs,
          AllMembers,  \* the built-in organisation every account belongs to
          NoOrg,       \* a user without a current organisation
          Elsewhere,   \* an owner who is none of Users
          Requests,    \* calls of the service that may overlap
          MaxOps       \* bound: calls that get past their checks, rebuilds, broken-off runs

ASSUME MembershipAssumption ==
    /\ AllMembers \in Orgs /\ NoOrg \notin Orgs /\ Elsewhere \notin Users
    /\ MaxOps \in Nat

VARIABLES org,       \* orgs: is the row there; who owns it
          account,   \* users.status
          current,   \* users.current_org_id
          member,    \* org_members.member_status
          holds,     \* pairs with rows in user_org_roles
          bound,     \* pairs with grouping rules in casbin_rule
          unsynced,  \* pairs with a binding event that is still to be handled
          events,    \* cache projection events that are still to be handled
          req,       \* request -> what it has checked and read
          stale,     \* <<kind, user>>: a commit relied on, or wrote back, what no longer held
          ops        \* counts up to MaxOps

rows == <<org, account, current, member, holds>>
bindings == <<bound, unsynced>>
memberVars == <<rows, bindings, events, req, stale, ops>>

Pairs == Users \X Orgs
Current == Orgs \cup {NoOrg}
Ops == {"register", "create", "set", "join", "leave", "kick", "recover", "assign",
        "delete", "cleanup", "save"}
Statuses == {"none", "active", "disabled", "deleted"}
Event == [user : Users, remove : SUBSET Orgs, deleted : BOOLEAN]

\* old, was: current organisation and status as the user's row was read.
\* seen: organisations or users that a list query outside the transaction found.
Request == [op : Ops, user : Users, org : Orgs, old : Current, was : Statuses, pick : Current,
            seen : SUBSET (Users \cup Orgs), locked : BOOLEAN]
Idle == [op |-> "none"]

MembershipTypeOK ==
    /\ org \in [Orgs -> [row : {"none", "live", "deleted"}, owner : Users \cup {Elsewhere}]]
    /\ account \in [Users -> Statuses]
    /\ current \in [Users -> Current]
    /\ member \in [Pairs -> {"none", "active", "left", "removed"}]
    /\ holds \subseteq Pairs /\ bound \subseteq Pairs /\ unsynced \subseteq Pairs
    /\ events \subseteq Event
    /\ req \in [Requests -> Request \cup {Idle}]
    /\ stale \subseteq {"roles", "current"} \X Users
    /\ ops \in 0..MaxOps

MembershipInit ==
    /\ org \in [Orgs -> [row : {"none", "live"}, owner : {Elsewhere}]]
    /\ org[AllMembers].row = "live"
    /\ account = [u \in Users |-> "none"]
    /\ current = [u \in Users |-> NoOrg]
    /\ member = [p \in Pairs |-> "none"]
    /\ holds = {} /\ bound = {} /\ unsynced = {}
    /\ events = {}
    /\ req = [r \in Requests |-> Idle]
    /\ stale = {}
    /\ ops = 0

Live(o) == org[o].row = "live"
Joined(u) == {o \in Orgs : member[u, o] = "active"}

-----------------------------------------------------------------------------
(* What a call checks before its transaction.                                  *)

\* May(op, u, o) for a call about user u and organisation o; the operator of an
\* administrative call is somebody else with the capability it needs.
MayRegister(u, o)   == account[u] = "none" /\ Live(o)
MayCreateOrg(u, o)  == account[u] \in {"active", "disabled"} /\ org[o].row = "none"
MaySetCurrent(u, o) == Live(o) /\ current[u] # o /\ o \in Joined(u)
MayJoin(u, o)       == account[u] \in {"active", "disabled"} /\ Live(o)
MayLeave(u, o)      == Live(o) /\ o # AllMembers /\ org[o].owner # u
MayRecover(u, o)    == account[u] # "none" /\ Live(o) /\ o # AllMembers
MayAssign(u, o)     == account[u] \in {"active", "disabled"} /\ o \in Joined(u)
MayDelete(u, o)     == Live(o) /\ o # AllMembers
MayCleanup(u, o)    == account[u] = "disabled" /\ o = AllMembers
MaySave(u, o)       == account[u] \in {"active", "disabled"} /\ o = AllMembers

\* Calls that a user makes for himself.
UserCall(op, u, o) ==
    \/ op = "create" /\ MayCreateOrg(u, o)
    \/ op = "set"    /\ MaySetCurrent(u, o)
    \/ op = "join"   /\ MayJoin(u, o)
    \/ op = "leave"  /\ MayLeave(u, o) /\ member[u, o] # "none"
    \/ op = "save"   /\ MaySave(u, o)

OtherCall(op, u, o) ==
    \/ op = "register" /\ MayRegister(u, o)
    \/ op = "kick"     /\ MayLeave(u, o) /\ member[u, o] # "none"
    \/ op = "recover"  /\ MayRecover(u, o)
    \/ op = "assign"   /\ MayAssign(u, o)
    \/ op = "delete"   /\ MayDelete(u, o)
    \/ op = "cleanup"  /\ MayCleanup(u, o)

\* DeleteOrg lists the users whose current organisation it is, the clean-up the
\* organisations of the account.
Listed(op, u, o) == CASE op = "delete"  -> {v \in Users : current[v] = o}
                      [] op = "cleanup" -> Joined(u)
                      [] OTHER          -> {}

Counted == ops < MaxOps /\ ops' = ops + 1

Begin(r, op, u, o) ==
    /\ req[r] = Idle
    /\ Counted
    /\ req' = [req EXCEPT ![r] = [op |-> op, user |-> u, org |-> o, old |-> current[u],
                                  was |-> account[u], pick |-> NoOrg, seen |-> Listed(op, u, o),
                                  locked |-> FALSE]]
    /\ UNCHANGED <<rows, bindings, events, stale>>

-----------------------------------------------------------------------------
(* The transactions.                                                           *)

Called(r, op) == req[r] # Idle /\ req[r].op = op

\* A request that holds the FOR UPDATE lock of a member row keeps others out.
Unlocked(p) == \A r \in Requests : req[r] # Idle /\ req[r].locked
                                      => p # <<req[r].user, req[r].org>>

Finish(r) == req' = [req EXCEPT ![r] = Idle] /\ UNCHANGED ops

\* UPDATE users ... filters deleted_at.
MoveTo(u, o) == current' = IF account[u] \in {"active", "disabled"}
                           THEN [current EXCEPT ![u] = o] ELSE current

Emit(u, remove) ==
    events' = events \cup {[user |-> u, remove |-> remove \ {NoOrg}, deleted |-> FALSE]}

\* The transaction relied on what it had read earlier: relied holds if that is
\* still so.
Marks(kind, u, relied) == stale' = IF relied THEN stale ELSE stale \cup {<<kind, u>>}

MarksBoth(u, relied) ==
    stale' = IF relied THEN stale ELSE stale \cup {<<"roles", u>>, <<"current", u>>}

Rebound(pairs) == unsynced' = unsynced \cup pairs /\ UNCHANGED bound

Register(r) ==
    LET u == req[r].user
        orgs == {req[r].org, AllMembers}
    IN  /\ Called(r, "register")
        /\ account[u] = "none"
        /\ account' = [account EXCEPT ![u] = "active"]
        /\ current' = [current EXCEPT ![u] = req[r].org]
        /\ member' = [p \in Pairs |-> IF p \in {u} \X orgs THEN "active" ELSE member[p]]
        /\ holds' = holds \cup ({u} \X orgs)
        /\ Rebound({u} \X orgs)
        /\ Emit(u, {})
        /\ MarksBoth(u, Live(req[r].org))
        /\ Finish(r)
        /\ UNCHANGED org

CreateOrg(r) ==
    LET u == req[r].user   o == req[r].org
    IN  /\ Called(r, "create")
        /\ org[o].row = "none"
        /\ org' = [org EXCEPT ![o] = [row |-> "live", owner |-> u]]
        /\ member' = [member EXCEPT ![<<u, o>>] = "active"]
        /\ holds' = holds \cup {<<u, o>>}
        /\ Rebound({<<u, o>>})
        /\ MoveTo(u, o)
        /\ Emit(u, {req[r].old, o})
        /\ Marks("current", u, req[r].old = current[u])
        /\ Finish(r)
        /\ UNCHANGED account

\* The membership was checked before the transaction and is not looked at again.
SetCurrentOrg(r) ==
    LET u == req[r].user   o == req[r].org
    IN  /\ Called(r, "set")
        /\ MoveTo(u, o)
        /\ Emit(u, {req[r].old, o})
        /\ Marks("current", u, o \in Joined(u) /\ req[r].old = current[u])
        /\ Finish(r)
        /\ UNCHANGED <<org, account, member, holds, bindings>>

\* A member that was away starts with the default role alone.
JoinOrgByInviteCode(r) ==
    LET u == req[r].user   o == req[r].org
        away == member[u, o] # "active"
    IN  /\ Called(r, "join")
        /\ Unlocked(<<u, o>>)
        /\ member' = [member EXCEPT ![<<u, o>>] = "active"]
        /\ holds' = IF away THEN holds \cup {<<u, o>>} ELSE holds
        /\ Rebound(IF away THEN {<<u, o>>} ELSE {})
        /\ MoveTo(u, o)
        /\ Emit(u, {req[r].old, o})
        /\ stale' = stale \cup (IF Live(o) THEN {} ELSE {<<"roles", u>>, <<"current", u>>})
                          \cup (IF req[r].old = current[u] THEN {} ELSE {<<"current", u>>})
        /\ Finish(r)
        /\ UNCHANGED <<org, account>>

\* Leave and kick lock the member row; user and other memberships are then read
\* from the snapshot, without a lock.  Of several organisations the oldest is
\* picked; which one that is, is left open.
ReadForLeave(r) ==
    LET u == req[r].user   o == req[r].org
        ends == IF req[r].op = "leave" THEN {"none", "left", "removed"} ELSE {"none", "removed"}
    IN  /\ Called(r, "leave") \/ Called(r, "kick")
        /\ ~req[r].locked
        /\ Unlocked(<<u, o>>)
        /\ IF member[u, o] \in ends
           THEN Finish(r)
           ELSE \E pick \in IF Joined(u) = {o} \/ current[u] # o THEN {NoOrg} ELSE Joined(u) \ {o} :
                   /\ req' = [req EXCEPT ![r].locked = TRUE, ![r].old = current[u],
                                         ![r].pick = pick]
                   /\ UNCHANGED ops
        /\ UNCHANGED <<rows, bindings, events, stale>>

Leaves(r, u, o, pairs) ==
    /\ req[r] # Idle /\ req[r].locked
    /\ member' = [member EXCEPT ![<<u, o>>] = IF req[r].op = "leave" THEN "left" ELSE "removed"]
    /\ holds' = holds \ pairs
    /\ Rebound({<<u, o>>})
    /\ IF req[r].old = o THEN MoveTo(u, req[r].pick) ELSE UNCHANGED current
    /\ Emit(u, {o})
    /\ Marks("current", u, req[r].old = current[u] /\ req[r].pick \in Joined(u) \cup {NoOrg})
    /\ Finish(r)
    /\ UNCHANGED <<org, account>>

\* Faulty: the roles stay.
LeaveOrg_KeepsRoles(r) == Leaves(r, req[r].user, req[r].org, {})

\* LeaveOrg and KickMember.
LeaveOrg(r) ==
    /\ req[r] # Idle
    /\ Leaves(r, req[r].user, req[r].org, {<<req[r].user, req[r].org>>})

RecoverMember(r) ==
    LET u == req[r].user   o == req[r].org
    IN  /\ Called(r, "recover")
        /\ Unlocked(<<u, o>>)
        /\ IF member[u, o] = "active"
           THEN UNCHANGED <<member, holds, bindings, events, stale>>
           ELSE /\ member' = [member EXCEPT ![<<u, o>>] = "active"]
                /\ holds' = holds \cup {<<u, o>>}
                /\ Rebound({<<u, o>>})
                /\ Emit(u, {o})
                /\ MarksBoth(u, Live(o))
        /\ Finish(r)
        /\ UNCHANGED <<org, account, current>>

\* The target's membership was checked before the transaction.
AssignRole(r) ==
    LET u == req[r].user   o == req[r].org
    IN  /\ Called(r, "assign")
        /\ \/ /\ holds' = holds \cup {<<u, o>>}
              /\ Marks("roles", u, o \in Joined(u))
           \/ /\ holds' = holds \ {<<u, o>>}
              /\ UNCHANGED stale
        /\ Rebound({<<u, o>>})
        /\ Finish(r)
        /\ UNCHANGED <<org, account, current, member, events>>

DissolveOrg(r, o, leavers) ==
    /\ Called(r, "delete")
    /\ \A u \in Users : Unlocked(<<u, o>>)
    /\ org' = [org EXCEPT ![o].row = "deleted"]
    /\ member' = [p \in Pairs |-> IF p[2] = o /\ member[p] # "none" THEN "removed" ELSE member[p]]
    /\ holds' = holds \ (Users \X {o})
    /\ current' = [u \in Users |-> IF u \in leavers THEN NoOrg ELSE current[u]]
    /\ events' = events \cup [user : req[r].seen, remove : {{o}}, deleted : {FALSE}]
    /\ stale' = stale \cup ({"current"} \X {u \in Users : current[u] = o /\ u \notin req[r].seen})
    /\ Finish(r)
    /\ UNCHANGED <<account, bindings>>

\* No binding event: what casbin_rule holds of the organisation stays.
DeleteOrg(r) ==
    /\ req[r] # Idle
    /\ DissolveOrg(r, req[r].org, {u \in Users : current[u] = req[r].org})

RemoveAccount(r, u, orgs, pairs) ==
    /\ Called(r, "cleanup")
    /\ \A p \in {u} \X orgs : Unlocked(p)
    /\ member' = [p \in Pairs |-> IF p \in {u} \X orgs THEN "removed" ELSE member[p]]
    /\ holds' = holds \ ({u} \X orgs)
    /\ Rebound(pairs)
    /\ account' = [account EXCEPT ![u] = "deleted"]
    /\ current' = [current EXCEPT ![u] = NoOrg]
    /\ events' = events \cup {[user |-> u, remove |-> (orgs \cup {req[r].old}) \ {NoOrg},
                               deleted |-> TRUE]}
    /\ Marks("current", u, req[r].old = current[u])
    /\ Finish(r)
    /\ UNCHANGED org

\* The account was disabled when it was listed; nobody asks again.
CleanupDisabledUser(r) ==
    /\ req[r] # Idle
    /\ RemoveAccount(r, req[r].user, req[r].seen, {req[r].user} \X req[r].seen)

\* UpdateProfile, ChangePhone and ChangePassword save the whole row they have read:
\* what was committed meanwhile is written over, a deleted row is inserted again, and
\* only a new avatar sends an event.
SaveUser(r) ==
    LET u == req[r].user
    IN  /\ Called(r, "save")
        /\ account' = [account EXCEPT ![u] = req[r].was]
        /\ current' = [current EXCEPT ![u] = req[r].old]
        /\ Emit(u, {}) \/ UNCHANGED events
        /\ Marks("current", u, account[u] = req[r].was /\ current[u] = req[r].old)
        /\ Finish(r)
        /\ UNCHANGED <<org, member, holds, bindings>>

\* UpdateUserStatus and DeactivateAccount.
ApplyUserStatus(u) ==
    /\ account[u] \in {"active", "disabled"}
    /\ Counted
    /\ \E status \in {"active", "disabled"} : account' = [account EXCEPT ![u] = status]
    /\ Emit(u, {})
    /\ UNCHANGED <<org, current, member, holds, bindings, req, stale>>

\* An error or a deadlock rolls the transaction back.
Abort(r) ==
    /\ req[r] # Idle
    /\ Finish(r)
    /\ UNCHANGED <<rows, bindings, events, stale>>

\* SyncSubjectRoles, by the request and by the consumer of the event
\* (PermissionProjection says what can come between its steps).
ProjectBinding(p) ==
    /\ p \in unsynced
    /\ bound' = IF p \in holds THEN bound \cup {p} ELSE bound \ {p}
    /\ unsynced' = unsynced \ {p}
    /\ UNCHANGED <<rows, events, req, stale, ops>>

Commit(r) ==
    \/ Register(r) \/ CreateOrg(r) \/ SetCurrentOrg(r) \/ JoinOrgByInviteCode(r)
    \/ ReadForLeave(r) \/ LeaveOrg(r) \/ RecoverMember(r) \/ AssignRole(r) \/ DeleteOrg(r)
    \/ CleanupDisabledUser(r) \/ SaveUser(r) \/ Abort(r)

-----------------------------------------------------------------------------
(* Properties.                                                                 *)

\* Leaving, kicking, dissolving and clean-up take the roles and the current
\* organisation with the membership, and a return starts from the default role:
\* whoever has roles in an organisation, or is in it, is its member, unless a commit
\* relied on a check or a snapshot that a concurrent commit had undone; a profile,
\* phone or password that is saved with a row read before is such a commit.
RightsNeedMembership ==
    /\ \A p \in holds : \/ <<"roles", p[1]>> \in stale
                        \/ member[p] = "active" /\ Live(p[2])
    /\ \A u \in Users : \/ <<"current", u>> \in stale
                        \/ current[u] = NoOrg
                        \/ current[u] \in Joined(u) /\ Live(current[u])

\* Every commit that changes roles asks for their projection: once it is done,
\* rules and roles agree, but for organisations that DeleteOrg dissolved.
BindingsFollowRoles ==
    \A p \in Pairs \ unsynced : org[p[2]].row = "deleted" \/ (p \in bound <=> p \in holds)
=============================================================================
