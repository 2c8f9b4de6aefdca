-------------------------- MODULE CacheProjectionProofs --------------------------
(* What holds of memberships, roles and their rankings for any number of users,  *)
(* organisations, requests and consumers.                                        *)
EXTENDS CacheProjection, TLAPS

-----------------------------------------------------------------------------
(* The inductive invariant of Membership.                                      *)

\* The built-in organisation cannot be dissolved.
AllMembersLives ==
    /\ Live(AllMembers)
    /\ \A r \in Requests : Called(r, "delete") => req[r].org # AllMembers

\* The lists that calls read outside their transactions.
ListsAreTyped ==
    \A r \in Requests : /\ Called(r, "delete") => req[r].seen \subseteq Users
                        /\ Called(r, "cleanup") => req[r].seen \subseteq Orgs

\* What is saved is the row of an account that was there when it was read.
SavesAreOfAccounts == \A r \in Requests : Called(r, "save") => req[r].was \in {"active", "disabled"}

\* Whoever leaves an organisation is not moved into it.
PicksAnother == \A r \in Requests : req[r] # Idle /\ req[r].locked => req[r].pick # req[r].org

\* Before registration and after removal a user has no current organisation.
AbsentHaveNone == \A u \in Users : account[u] \in {"none", "deleted"} => current[u] = NoOrg

\* A dissolved organisation has no members, but for those that a commit let in which
\* had seen it live.
MembersAreLive ==
    \A u \in Users, o \in Orgs :
        member[u, o] = "active" =>
            Live(o) \/ {<<"roles", u>>, <<"current", u>>} \subseteq stale

MemberInv == /\ MembershipTypeOK /\ AllMembersLives /\ ListsAreTyped /\ PicksAnother
             /\ SavesAreOfAccounts
             /\ AbsentHaveNone /\ MembersAreLive
             /\ RightsNeedMembership /\ BindingsFollowRoles

\* A step of Membership, as Next takes it.
MemberStep ==
    \/ \E r \in Requests : Commit(r)
    \/ \E u \in Users : ApplyUserStatus(u)
    \/ \E p \in Pairs : ProjectBinding(p)
    \/ \E r \in Requests, op \in Ops, u \in Users, o \in Orgs :
          /\ OtherCall(op, u, o) \/ (UserCall(op, u, o) /\ Passes(u))
          /\ Begin(r, op, u, o)

USE MembershipAssumption

-----------------------------------------------------------------------------
(* Types.                                                                      *)

\* A request that is not idle has the fields of a call.
LEMMA CallType ==
    ASSUME MembershipTypeOK, NEW r \in Requests, req[r] # Idle
    PROVE  req[r] \in Request
BY DEF MembershipTypeOK

\* A commit ends its request.
LEMMA FinishType ==
    ASSUME MembershipTypeOK, NEW r \in Requests, Finish(r)
    PROVE  /\ req' \in [Requests -> Request \cup {Idle}]
           /\ ops' \in 0..MaxOps
           /\ \A s \in Requests : s # r => req'[s] = req[s]
           /\ req'[r] = Idle
BY DEF MembershipTypeOK, Finish

\* What the helpers write has its type.
LEMMA HelperType ==
    ASSUME MembershipTypeOK, NEW u \in Users
    PROVE  /\ \A o \in Current : MoveTo(u, o) => current' \in [Users -> Current]
           /\ \A remove \in SUBSET Current : Emit(u, remove) => events' \subseteq Event
           /\ \A kind \in {"roles", "current"}, relied \in BOOLEAN :
                 Marks(kind, u, relied) => stale' \subseteq {"roles", "current"} \X Users
           /\ \A relied \in BOOLEAN :
                 MarksBoth(u, relied) => stale' \subseteq {"roles", "current"} \X Users
           /\ \A pairs \in SUBSET Pairs : Rebound(pairs) => /\ unsynced' \subseteq Pairs
                                                            /\ bound' \subseteq Pairs
<1>1. ASSUME NEW o \in Current, MoveTo(u, o) PROVE current' \in [Users -> Current]
  BY <1>1 DEF MembershipTypeOK, MoveTo
<1>2. ASSUME NEW remove \in SUBSET Current, Emit(u, remove) PROVE events' \subseteq Event
  <2>1. [user |-> u, remove |-> remove \ {NoOrg}, deleted |-> FALSE] \in Event
    BY DEF Event, Current
  <2> QED
    BY <1>2, <2>1 DEF MembershipTypeOK, Emit
<1>3. ASSUME NEW kind \in {"roles", "current"}, NEW relied \in BOOLEAN, Marks(kind, u, relied)
      PROVE  stale' \subseteq {"roles", "current"} \X Users
  BY <1>3 DEF MembershipTypeOK, Marks
<1>4. ASSUME NEW relied \in BOOLEAN, MarksBoth(u, relied)
      PROVE  stale' \subseteq {"roles", "current"} \X Users
  BY <1>4 DEF MembershipTypeOK, MarksBoth
<1>5. ASSUME NEW pairs \in SUBSET Pairs, Rebound(pairs)
      PROVE  unsynced' \subseteq Pairs /\ bound' \subseteq Pairs
  BY <1>5 DEF MembershipTypeOK, Rebound
<1> QED
  BY <1>1, <1>2, <1>3, <1>4, <1>5

\* Every step keeps the types.
LEMMA MemberTypeStep == MemberInv /\ MemberStep => MembershipTypeOK'
<1> SUFFICES ASSUME MemberInv, MemberStep PROVE MembershipTypeOK'
  OBVIOUS
<1> DEFINE Rest == /\ org' \in [Orgs -> [row : {"none", "live", "deleted"},
                                         owner : Users \cup {Elsewhere}]]
                   /\ account' \in [Users -> Statuses]
                   /\ current' \in [Users -> Current]
                   /\ member' \in [Pairs -> {"none", "active", "left", "removed"}]
                   /\ holds' \subseteq Pairs /\ bound' \subseteq Pairs
                   /\ unsynced' \subseteq Pairs
                   /\ events' \subseteq Event
                   /\ stale' \subseteq {"roles", "current"} \X Users
<1>1. MembershipTypeOK /\ AllMembers \in Orgs
  BY DEF MemberInv
<1>2. ASSUME NEW r \in Requests, Finish(r), Rest
      PROVE  MembershipTypeOK'
  BY <1>1, <1>2, FinishType DEF MembershipTypeOK
<1>3. \A r \in Requests : req[r] # Idle => req[r] \in Request
  BY <1>1, CallType
<1> USE DEF rows, bindings, Called
<1>4. ASSUME NEW r \in Requests, Register(r)
      PROVE  MembershipTypeOK'
  <2>1. req[r].user \in Users /\ req[r].org \in Orgs /\ Finish(r)
    BY <1>3, <1>4 DEF Register, Request
  <2>2. /\ {req[r].user} \X {req[r].org, AllMembers} \subseteq Pairs
        /\ {} \in SUBSET Current /\ Live(req[r].org) \in BOOLEAN
    BY <1>1, <2>1 DEF Pairs, Live
  <2>3. /\ unsynced' \subseteq Pairs /\ bound' \subseteq Pairs /\ events' \subseteq Event
        /\ stale' \subseteq {"roles", "current"} \X Users
    BY <1>1, <1>4, <2>1, <2>2, HelperType DEF Register
  <2> QED
    BY <1>1, <1>2, <1>4, <2>1, <2>2, <2>3 DEF Register, MembershipTypeOK, Current, Statuses
<1>5. ASSUME NEW r \in Requests, CreateOrg(r)
      PROVE  MembershipTypeOK'
  <2>1. /\ req[r].user \in Users /\ req[r].org \in Orgs /\ req[r].old \in Current
        /\ Finish(r)
    BY <1>3, <1>5 DEF CreateOrg, Request
  <2>2. /\ {<<req[r].user, req[r].org>>} \subseteq Pairs /\ req[r].org \in Current
        /\ {req[r].old, req[r].org} \in SUBSET Current
        /\ (req[r].old = current[req[r].user]) \in BOOLEAN
    BY <2>1 DEF Pairs, Current
  <2>3. /\ unsynced' \subseteq Pairs /\ bound' \subseteq Pairs /\ events' \subseteq Event
        /\ stale' \subseteq {"roles", "current"} \X Users
        /\ current' \in [Users -> Current]
    BY <1>1, <1>5, <2>1, <2>2, HelperType DEF CreateOrg
  <2> QED
    BY <1>1, <1>2, <1>5, <2>1, <2>2, <2>3 DEF CreateOrg, MembershipTypeOK
<1>6. ASSUME NEW r \in Requests, SetCurrentOrg(r)
      PROVE  MembershipTypeOK'
  <2>1. /\ req[r].user \in Users /\ req[r].org \in Current /\ req[r].old \in Current
        /\ Finish(r)
    BY <1>3, <1>6 DEF SetCurrentOrg, Request, Current
  <2>2. /\ {req[r].old, req[r].org} \in SUBSET Current
        /\ (req[r].org \in Joined(req[r].user) /\ req[r].old = current[req[r].user]) \in BOOLEAN
    BY <2>1
  <2>3. /\ events' \subseteq Event /\ stale' \subseteq {"roles", "current"} \X Users
        /\ current' \in [Users -> Current]
    BY <1>1, <1>6, <2>1, <2>2, HelperType DEF SetCurrentOrg
  <2> QED
    BY <1>1, <1>2, <1>6, <2>1, <2>3 DEF SetCurrentOrg, MembershipTypeOK
<1>7. ASSUME NEW r \in Requests, JoinOrgByInviteCode(r)
      PROVE  MembershipTypeOK'
  <2>1. /\ req[r].user \in Users /\ req[r].org \in Orgs /\ req[r].old \in Current
        /\ Finish(r)
    BY <1>3, <1>7 DEF JoinOrgByInviteCode, Request
  <2>2. /\ <<req[r].user, req[r].org>> \in Pairs /\ req[r].org \in Current
        /\ {req[r].old, req[r].org} \in SUBSET Current
    BY <2>1 DEF Pairs, Current
  <2>3. PICK pairs \in SUBSET Pairs : Rebound(pairs)
    BY <1>7, <2>2 DEF JoinOrgByInviteCode
  <2>4. /\ unsynced' \subseteq Pairs /\ bound' \subseteq Pairs /\ events' \subseteq Event
        /\ current' \in [Users -> Current]
    <3>1. Emit(req[r].user, {req[r].old, req[r].org}) /\ MoveTo(req[r].user, req[r].org)
      BY <1>7 DEF JoinOrgByInviteCode
    <3> QED
      BY <1>1, <2>1, <2>2, <2>3, <3>1, HelperType
  <2>5. stale' \subseteq {"roles", "current"} \X Users
    <3>1. /\ stale \subseteq {"roles", "current"} \X Users
          /\ stale' \subseteq stale \cup {<<"roles", req[r].user>>, <<"current", req[r].user>>}
      BY <1>1, <1>7 DEF JoinOrgByInviteCode, MembershipTypeOK
    <3> QED
      BY <2>1, <3>1
  <2> QED
    BY <1>1, <1>2, <1>7, <2>1, <2>2, <2>4, <2>5 DEF JoinOrgByInviteCode, MembershipTypeOK
<1>8. ASSUME NEW r \in Requests, ReadForLeave(r)
      PROVE  MembershipTypeOK'
  <2>1. UNCHANGED <<rows, bindings, events, stale>> /\ req[r] \in Request
    BY <1>3, <1>8 DEF ReadForLeave
  <2>2. CASE Finish(r)
    BY <1>1, <1>2, <2>1, <2>2 DEF MembershipTypeOK
  <2>3. CASE ~Finish(r)
    <3>1. PICK pick \in Current :
             /\ req' = [req EXCEPT ![r].locked = TRUE, ![r].old = current[req[r].user],
                                   ![r].pick = pick]
             /\ UNCHANGED ops
      BY <1>8, <2>3 DEF ReadForLeave, Joined, Current
    <3>2. [req[r] EXCEPT !.locked = TRUE, !.old = current[req[r].user], !.pick = pick] \in Request
      BY <1>1, <2>1 DEF Request, MembershipTypeOK
    <3>3. req' \in [Requests -> Request \cup {Idle}]
      BY <1>1, <3>1, <3>2 DEF MembershipTypeOK
    <3> QED
      BY <1>1, <2>1, <3>1, <3>3 DEF MembershipTypeOK
  <2> QED
    BY <2>2, <2>3
<1>9. ASSUME NEW r \in Requests, LeaveOrg(r)
      PROVE  MembershipTypeOK'
  <2> DEFINE u == req[r].user
             o == req[r].org
  <2>1. /\ u \in Users /\ o \in Orgs /\ req[r].pick \in Current /\ Finish(r)
    BY <1>3, <1>9 DEF LeaveOrg, Leaves, Request
  <2>2. /\ {<<u, o>>} \subseteq Pairs /\ {o} \in SUBSET Current
        /\ (req[r].old = current[u] /\ req[r].pick \in Joined(u) \cup {NoOrg}) \in BOOLEAN
    BY <2>1 DEF Pairs, Current
  <2>3. /\ unsynced' \subseteq Pairs /\ bound' \subseteq Pairs /\ events' \subseteq Event
        /\ stale' \subseteq {"roles", "current"} \X Users
    BY <1>1, <1>9, <2>1, <2>2, HelperType DEF LeaveOrg, Leaves
  <2>4. current' \in [Users -> Current]
    BY <1>1, <1>9, <2>1, HelperType DEF LeaveOrg, Leaves, MembershipTypeOK
  <2>5. member' \in [Pairs -> {"none", "active", "left", "removed"}] /\ holds' \subseteq Pairs
    BY <1>1, <1>9 DEF LeaveOrg, Leaves, MembershipTypeOK
  <2> QED
    BY <1>1, <1>2, <1>9, <2>1, <2>3, <2>4, <2>5 DEF LeaveOrg, Leaves, MembershipTypeOK
<1>10. ASSUME NEW r \in Requests, RecoverMember(r)
       PROVE  MembershipTypeOK'
  <2> DEFINE u == req[r].user
             o == req[r].org
  <2>1. /\ u \in Users /\ o \in Orgs /\ Finish(r)
    BY <1>3, <1>10 DEF RecoverMember, Request
  <2>2. /\ {<<u, o>>} \subseteq Pairs /\ {o} \in SUBSET Current /\ Live(o) \in BOOLEAN
    BY <2>1 DEF Pairs, Current, Live
  <2>3. /\ unsynced' \subseteq Pairs /\ bound' \subseteq Pairs /\ events' \subseteq Event
        /\ stale' \subseteq {"roles", "current"} \X Users
    BY <1>1, <1>10, <2>1, <2>2, HelperType DEF RecoverMember, MembershipTypeOK
  <2>4. member' \in [Pairs -> {"none", "active", "left", "removed"}] /\ holds' \subseteq Pairs
    BY <1>1, <1>10, <2>2 DEF RecoverMember, MembershipTypeOK
  <2> QED
    BY <1>1, <1>2, <1>10, <2>1, <2>3, <2>4 DEF RecoverMember, MembershipTypeOK
<1>11. ASSUME NEW r \in Requests, AssignRole(r)
       PROVE  MembershipTypeOK'
  <2> DEFINE u == req[r].user
             o == req[r].org
  <2>1. /\ u \in Users /\ o \in Orgs /\ Finish(r)
    BY <1>3, <1>11 DEF AssignRole, Request
  <2>2. {<<u, o>>} \subseteq Pairs /\ (o \in Joined(u)) \in BOOLEAN
    BY <2>1 DEF Pairs
  <2>3. /\ unsynced' \subseteq Pairs /\ bound' \subseteq Pairs
        /\ stale' \subseteq {"roles", "current"} \X Users
    BY <1>1, <1>11, <2>1, <2>2, HelperType DEF AssignRole, MembershipTypeOK
  <2>4. holds' \subseteq Pairs
    BY <1>1, <1>11, <2>2 DEF AssignRole, MembershipTypeOK
  <2> QED
    BY <1>1, <1>2, <1>11, <2>1, <2>3, <2>4 DEF AssignRole, MembershipTypeOK
<1>12. ASSUME NEW r \in Requests, DeleteOrg(r)
       PROVE  MembershipTypeOK'
  <2> DEFINE o == req[r].org
  <2>1. o \in Orgs /\ req[r].seen \subseteq Users /\ Finish(r)
    BY <1>3, <1>12 DEF DeleteOrg, DissolveOrg, Request, MemberInv, ListsAreTyped
  <2>2. events' \subseteq Event
    BY <1>1, <1>12, <2>1 DEF DeleteOrg, DissolveOrg, MembershipTypeOK, Event
  <2>3. org' \in [Orgs -> [row : {"none", "live", "deleted"}, owner : Users \cup {Elsewhere}]]
    BY <1>1, <1>12, <2>1 DEF DeleteOrg, DissolveOrg, MembershipTypeOK
  <2>4. stale' \subseteq {"roles", "current"} \X Users
    BY <1>1, <1>12 DEF DeleteOrg, DissolveOrg, MembershipTypeOK
  <2>5. /\ member' \in [Pairs -> {"none", "active", "left", "removed"}] /\ holds' \subseteq Pairs
        /\ current' \in [Users -> Current]
    BY <1>1, <1>12 DEF DeleteOrg, DissolveOrg, MembershipTypeOK, Current
  <2> QED
    BY <1>1, <1>2, <1>12, <2>1, <2>2, <2>3, <2>4, <2>5
       DEF DeleteOrg, DissolveOrg, MembershipTypeOK
<1>13. ASSUME NEW r \in Requests, CleanupDisabledUser(r)
       PROVE  MembershipTypeOK'
  <2> DEFINE u == req[r].user
             orgs == req[r].seen
  <2>1. u \in Users /\ orgs \subseteq Orgs /\ req[r].old \in Current /\ Finish(r)
    BY <1>3, <1>13 DEF CleanupDisabledUser, RemoveAccount, Request, MemberInv, ListsAreTyped
  <2>2. {u} \X orgs \subseteq Pairs /\ (req[r].old = current[u]) \in BOOLEAN
    BY <2>1 DEF Pairs
  <2>3. /\ unsynced' \subseteq Pairs /\ bound' \subseteq Pairs
        /\ stale' \subseteq {"roles", "current"} \X Users
    BY <1>1, <1>13, <2>1, <2>2, HelperType DEF CleanupDisabledUser, RemoveAccount
  <2>4. [user |-> u, remove |-> (orgs \cup {req[r].old}) \ {NoOrg}, deleted |-> TRUE] \in Event
    BY <2>1 DEF Event, Current
  <2>5. /\ member' \in [Pairs -> {"none", "active", "left", "removed"}] /\ holds' \subseteq Pairs
        /\ current' \in [Users -> Current] /\ events' \subseteq Event
        /\ account' \in [Users -> Statuses]
    BY <1>1, <1>13, <2>1, <2>4
       DEF CleanupDisabledUser, RemoveAccount, MembershipTypeOK, Current, Statuses
  <2> QED
    BY <1>1, <1>2, <1>13, <2>1, <2>3, <2>5
       DEF CleanupDisabledUser, RemoveAccount, MembershipTypeOK
<1>14. ASSUME NEW r \in Requests, Abort(r)
       PROVE  MembershipTypeOK'
  BY <1>1, <1>2, <1>14 DEF Abort, MembershipTypeOK
<1>15. ASSUME NEW u \in Users, ApplyUserStatus(u)
       PROVE  MembershipTypeOK'
  <2>1. events' \subseteq Event
    BY <1>1, <1>15, HelperType DEF ApplyUserStatus
  <2>2. account' \in [Users -> Statuses]
    BY <1>1, <1>15 DEF ApplyUserStatus, MembershipTypeOK, Statuses
  <2>3. ops' \in 0..MaxOps
    BY <1>1, <1>15 DEF ApplyUserStatus, Counted, MembershipTypeOK
  <2> QED
    BY <1>1, <1>15, <2>1, <2>2, <2>3 DEF ApplyUserStatus, MembershipTypeOK
<1>16. ASSUME NEW p \in Pairs, ProjectBinding(p)
       PROVE  MembershipTypeOK'
  BY <1>1, <1>16 DEF ProjectBinding, MembershipTypeOK
<1>17. ASSUME NEW r \in Requests, NEW op \in Ops, NEW u \in Users, NEW o \in Orgs,
              Begin(r, op, u, o)
       PROVE  MembershipTypeOK'
  <2>1. Listed(op, u, o) \in SUBSET (Users \cup Orgs)
    BY DEF Listed, Joined
  <2>2. [op |-> op, user |-> u, org |-> o, old |-> current[u], was |-> account[u], pick |-> NoOrg,
         seen |-> Listed(op, u, o), locked |-> FALSE] \in Request
    BY <1>1, <2>1 DEF MembershipTypeOK, Request, Current
  <2>3. req' \in [Requests -> Request \cup {Idle}] /\ ops' \in 0..MaxOps
    BY <1>1, <1>17, <2>2 DEF Begin, Counted, MembershipTypeOK
  <2> QED
    BY <1>1, <1>17, <2>3 DEF Begin, MembershipTypeOK
<1>18. ASSUME NEW r \in Requests, SaveUser(r)
       PROVE  MembershipTypeOK'
  <2>1. PICK u \in Users, was \in Statuses, old \in Current :
           u = req[r].user /\ was = req[r].was /\ old = req[r].old
    BY <1>3, <1>18 DEF SaveUser, Request
  <2>2. /\ account' = [account EXCEPT ![u] = was] /\ current' = [current EXCEPT ![u] = old]
        /\ Emit(u, {}) \/ UNCHANGED events
        /\ Marks("current", u, account[u] = was /\ current[u] = old)
        /\ Finish(r) /\ UNCHANGED <<org, member, holds, bound, unsynced>>
    BY <1>18, <2>1 DEF SaveUser
  <2>3. /\ {} \in SUBSET Current
        /\ (account[u] = was /\ current[u] = old) \in BOOLEAN
    OBVIOUS
  <2>4. events' \subseteq Event /\ stale' \subseteq {"roles", "current"} \X Users
    BY <1>1, <2>2, <2>3, HelperType DEF MembershipTypeOK
  <2>5. account' \in [Users -> Statuses] /\ current' \in [Users -> Current]
    BY <1>1, <2>2 DEF MembershipTypeOK
  <2> QED
    BY <1>1, <1>2, <2>2, <2>4, <2>5 DEF MembershipTypeOK
<1> QED
  BY <1>4, <1>5, <1>6, <1>7, <1>8, <1>9, <1>10, <1>11, <1>12, <1>13, <1>14, <1>15, <1>16,
     <1>17, <1>18 DEF MemberStep, Commit

-----------------------------------------------------------------------------
(* The invariant is inductive.                                                 *)

\* The built-in organisation, the lists and rows of the calls and what leavers pick.
LEMMA CallStep ==
    MemberInv /\ MemberStep => /\ AllMembersLives' /\ ListsAreTyped' /\ PicksAnother'
                               /\ SavesAreOfAccounts'
<1> DEFINE CallsStand == AllMembersLives /\ ListsAreTyped /\ PicksAnother /\ SavesAreOfAccounts
<1> SUFFICES ASSUME MemberInv, MemberStep
             PROVE  CallsStand'
  OBVIOUS
<1> USE DEF MemberInv, rows, bindings
<1>1. \A r \in Requests : req[r] # Idle => req[r] \in Request
  BY CallType
<1>2. ASSUME NEW r \in Requests, Finish(r), org' = org \/ CreateOrg(r) \/ DeleteOrg(r)
      PROVE  CallsStand'
  <2>1. \A s \in Requests : req'[s] = req[s] \/ req'[s] = Idle
    BY <1>2, FinishType
  <2>2. Live(AllMembers)'
    <3>1. CASE CreateOrg(r)
      BY <3>1 DEF CreateOrg, MembershipTypeOK, AllMembersLives, Live
    <3>2. CASE DeleteOrg(r)
      BY <3>2 DEF DeleteOrg, DissolveOrg, MembershipTypeOK, AllMembersLives, Live
    <3> QED
      BY <1>2, <3>1, <3>2 DEF AllMembersLives, Live
  <2> QED
    BY <2>1, <2>2 DEF AllMembersLives, ListsAreTyped, PicksAnother, SavesAreOfAccounts, Called
<1>3. ASSUME NEW r \in Requests, Commit(r)
      PROVE  CallsStand'
  <2>1. CASE ReadForLeave(r) /\ ~Finish(r)
    <3>1. PICK pick :
             /\ req' = [req EXCEPT ![r].locked = TRUE, ![r].old = current[req[r].user],
                                   ![r].pick = pick]
             /\ pick \in {NoOrg} \cup (Joined(req[r].user) \ {req[r].org})
      BY <2>1 DEF ReadForLeave
    <3>2. /\ req[r] # Idle /\ req[r] \in Request /\ req[r].op \in {"leave", "kick"}
          /\ UNCHANGED org
      BY <1>1, <2>1 DEF ReadForLeave, Called
    <3>3. pick # req[r].org
      BY <3>1, <3>2 DEF Request
    <3>4. /\ \A s \in Requests : s # r => req'[s] = req[s]
          /\ req'[r].op = req[r].op /\ req'[r].org = req[r].org /\ req'[r].pick = pick
          /\ req'[r].was = req[r].was
      BY <3>1, <3>2 DEF MembershipTypeOK, Request
    <3> QED
      BY <3>2, <3>3, <3>4 DEF AllMembersLives, Live, ListsAreTyped, PicksAnother, SavesAreOfAccounts,
              Called
  <2>2. CASE ~(ReadForLeave(r) /\ ~Finish(r))
    <3>1. Finish(r)
      BY <1>3, <2>2 DEF Commit, Register, CreateOrg, SetCurrentOrg, JoinOrgByInviteCode,
         LeaveOrg, Leaves, RecoverMember, AssignRole, DeleteOrg, DissolveOrg,
         CleanupDisabledUser, RemoveAccount, SaveUser, Abort
    <3>2. org' = org \/ CreateOrg(r) \/ DeleteOrg(r)
      BY <1>3 DEF Commit, Register, SetCurrentOrg, JoinOrgByInviteCode, ReadForLeave,
         LeaveOrg, Leaves, RecoverMember, AssignRole, CleanupDisabledUser, RemoveAccount,
         SaveUser, Abort
    <3> QED
      BY <1>2, <3>1, <3>2
  <2> QED
    BY <2>1, <2>2
<1>4. CASE \/ \E u \in Users : ApplyUserStatus(u)
           \/ \E p \in Pairs : ProjectBinding(p)
  BY <1>4 DEF ApplyUserStatus, ProjectBinding, AllMembersLives, Live, ListsAreTyped,
              PicksAnother, SavesAreOfAccounts, Called
<1>5. ASSUME NEW r \in Requests, NEW op \in Ops, NEW u \in Users, NEW o \in Orgs,
             OtherCall(op, u, o) \/ UserCall(op, u, o), Begin(r, op, u, o)
      PROVE  CallsStand'
  <2>1. /\ \A s \in Requests : s # r => req'[s] = req[s]
        /\ req'[r].op = op /\ req'[r].org = o /\ req'[r].seen = Listed(op, u, o)
        /\ ~req'[r].locked /\ req'[r].was = account[u] /\ UNCHANGED org
    BY <1>5 DEF Begin, MembershipTypeOK
  <2>2. op = "delete" => o # AllMembers
    BY <1>5 DEF OtherCall, UserCall, MayDelete
  <2>3. /\ op = "delete" => Listed(op, u, o) \subseteq Users
        /\ op = "cleanup" => Listed(op, u, o) \subseteq Orgs
    BY DEF Listed, Joined
  <2>4. op = "save" => account[u] \in {"active", "disabled"}
    BY <1>5 DEF OtherCall, UserCall, MaySave
  <2> QED
    BY <2>1, <2>2, <2>3, <2>4 DEF AllMembersLives, Live, ListsAreTyped, PicksAnother, SavesAreOfAccounts,
              Called
<1> QED
  BY <1>3, <1>4, <1>5 DEF MemberStep

\* Two halves of RightsNeedMembership: a user's roles in an organisation, and his
\* current organisation.
RolesStand(u, o) == <<u, o>> \in holds => \/ <<"roles", u>> \in stale
                                          \/ member[u, o] = "active" /\ Live(o)
PlaceStands(u) == \/ <<"current", u>> \in stale
                  \/ current[u] = NoOrg
                  \/ current[u] \in Joined(u) /\ Live(current[u])

\* They say the same of a user and of an organisation.
LEMMA RightsParts ==
    /\ MembershipTypeOK /\ RightsNeedMembership
          => \A u \in Users : PlaceStands(u) /\ \A o \in Orgs : RolesStand(u, o)
    /\ (holds' \subseteq Pairs /\ \A u \in Users : PlaceStands(u)' /\ \A o \in Orgs : RolesStand(u, o)')
          => RightsNeedMembership'
<1>1. ASSUME MembershipTypeOK, RightsNeedMembership, NEW u \in Users
      PROVE  PlaceStands(u) /\ \A o \in Orgs : RolesStand(u, o)
  BY <1>1 DEF RightsNeedMembership, PlaceStands, RolesStand
<1>2. ASSUME holds' \subseteq Pairs,
             \A u \in Users : PlaceStands(u)' /\ \A o \in Orgs : RolesStand(u, o)'
      PROVE  RightsNeedMembership'
  <2>1. ASSUME NEW p \in holds'
        PROVE  (<<"roles", p[1]>> \in stale \/ (member[p] = "active" /\ Live(p[2])))'
    <3>1. PICK x \in Users, y \in Orgs : p = <<x, y>>
      BY <1>2, <2>1 DEF Pairs
    <3> QED
      BY <1>2, <2>1, <3>1 DEF RolesStand
  <2> QED
    BY <1>2, <2>1 DEF RightsNeedMembership, PlaceStands
<1> QED
  BY <1>1, <1>2

\* A step that concerns user u and organisation o alone.
LEMMA PairStep ==
    ASSUME MemberInv, MembershipTypeOK', NEW u \in Users, NEW o \in Orgs,
           stale \subseteq stale', account' = account,
           \A y \in Orgs : Live(y) => Live(y)',
           \A x \in Users, y \in Orgs : x # u \/ y # o => member'[x, y] = member[x, y],
           \A p \in holds' : p \in holds \/ p = <<u, o>>,
           \A x \in Users : x # u => current'[x] = current[x],
           account[u] \in {"none", "deleted"} => current'[u] = current[u],
           member'[u, o] = "active" => \/ member[u, o] = "active" \/ Live(o)'
                                       \/ {<<"roles", u>>, <<"current", u>>} \subseteq stale',
           RolesStand(u, o)', PlaceStands(u)'
    PROVE  AbsentHaveNone' /\ MembersAreLive' /\ RightsNeedMembership'
<1>1. MembershipTypeOK /\ AbsentHaveNone /\ MembersAreLive
      /\ \A x \in Users : PlaceStands(x) /\ \A y \in Orgs : RolesStand(x, y)
  BY RightsParts DEF MemberInv
<1>2. AbsentHaveNone'
  BY <1>1 DEF AbsentHaveNone
<1>3. MembersAreLive'
  BY <1>1 DEF MembersAreLive
<1>4. ASSUME NEW x \in Users, NEW y \in Orgs, x # u \/ y # o
      PROVE  RolesStand(x, y)'
  BY <1>1, <1>4 DEF RolesStand
<1>5. ASSUME NEW x \in Users, x # u
      PROVE  PlaceStands(x)'
  BY <1>1, <1>5 DEF PlaceStands, Joined
<1>6. holds' \subseteq Pairs
  BY DEF MembershipTypeOK
<1>7. RightsNeedMembership'
  BY <1>4, <1>5, <1>6, RightsParts
<1> QED
  BY <1>2, <1>3, <1>7

\* A write to one membership.
SetsMember(u, o, status) == member' = [member EXCEPT ![<<u, o>>] = status]

\* It leaves the others alone.
LEMMA MemberSet ==
    ASSUME MembershipTypeOK, NEW u \in Users, NEW o \in Orgs, NEW status,
           SetsMember(u, o, status)
    PROVE  /\ member'[u, o] = status
           /\ \A x \in Users, y \in Orgs : x # u \/ y # o => member'[x, y] = member[x, y]
<1>1. DOMAIN member = Users \X Orgs
  BY DEF MembershipTypeOK, Pairs
<1> QED
  BY <1>1 DEF SetsMember

\* What MoveTo does to the current organisations.
LEMMA MoveToMoves ==
    ASSUME MembershipTypeOK, NEW u \in Users, NEW o, MoveTo(u, o)
    PROVE  /\ \A x \in Users : x # u => current'[x] = current[x]
           /\ account[u] \in {"active", "disabled"} => current'[u] = o
           /\ account[u] \notin {"active", "disabled"} => current'[u] = current[u]
BY DEF MembershipTypeOK, MoveTo

\* The rights of a user after a registration, with two organisations at once.
LEMMA RegisterStep ==
    ASSUME MemberInv, MembershipTypeOK', NEW r \in Requests, Register(r)
    PROVE  AbsentHaveNone' /\ MembersAreLive' /\ RightsNeedMembership'
<1>1. MembershipTypeOK /\ AbsentHaveNone /\ MembersAreLive
      /\ \A x \in Users : PlaceStands(x) /\ \A y \in Orgs : RolesStand(x, y)
  BY RightsParts DEF MemberInv
<1>2. PICK u \in Users, o \in Orgs : u = req[r].user /\ o = req[r].org
  BY <1>1, CallType DEF Register, Request, Called
<1>3. /\ account[u] = "none" /\ org' = org
      /\ account' = [account EXCEPT ![u] = "active"]
      /\ current' = [current EXCEPT ![u] = o]
      /\ member' = [p \in Pairs |-> IF p \in {u} \X {o, AllMembers} THEN "active" ELSE member[p]]
      /\ holds' = holds \cup ({u} \X {o, AllMembers})
      /\ MarksBoth(u, Live(o))
  BY <1>2 DEF Register
<1>4. /\ stale \subseteq stale'
      /\ Live(o) \/ {<<"roles", u>>, <<"current", u>>} \subseteq stale'
      /\ Live(AllMembers)
  BY <1>3 DEF MarksBoth, MemberInv, AllMembersLives
<1>5. \A y \in Orgs : Live(y)' <=> Live(y)
  BY <1>3 DEF Live
<1>6. \A x \in Users, y \in Orgs :
         /\ member'[x, y] = IF x = u /\ y \in {o, AllMembers} THEN "active" ELSE member[x, y]
         /\ <<x, y>> \in holds' <=> <<x, y>> \in holds \/ (x = u /\ y \in {o, AllMembers})
  BY <1>3 DEF Pairs
<1>7. AbsentHaveNone'
  BY <1>1, <1>2, <1>3 DEF AbsentHaveNone, MembershipTypeOK
<1>8. MembersAreLive'
  BY <1>1, <1>4, <1>5, <1>6 DEF MembersAreLive
<1>9. ASSUME NEW x \in Users, NEW y \in Orgs
      PROVE  RolesStand(x, y)'
  <2>1. RolesStand(x, y)
    BY <1>1
  <2>2. CASE x = u /\ y \in {o, AllMembers}
    BY <1>4, <1>5, <1>6, <2>2 DEF RolesStand
  <2>3. CASE ~(x = u /\ y \in {o, AllMembers})
    BY <1>4, <1>5, <1>6, <2>1, <2>3 DEF RolesStand
  <2> QED
    BY <2>2, <2>3
<1>10. ASSUME NEW x \in Users
       PROVE  PlaceStands(x)'
  <2>1. CASE x = u
    <3>1. current'[u] = o
      BY <1>1, <1>3 DEF MembershipTypeOK
    <3>2. o \in Joined(u)'
      BY <1>6 DEF Joined
    <3> QED
      BY <1>4, <1>5, <2>1, <3>1, <3>2 DEF PlaceStands
  <2>2. CASE x # u
    <3>1. current'[x] = current[x] /\ PlaceStands(x)
      BY <1>1, <1>3, <2>2 DEF MembershipTypeOK
    <3> QED
      BY <1>4, <1>5, <1>6, <2>2, <3>1 DEF PlaceStands, Joined
  <2> QED
    BY <2>1, <2>2
<1>11. RightsNeedMembership'
  BY <1>9, <1>10, RightsParts DEF MembershipTypeOK
<1> QED
  BY <1>7, <1>8, <1>11

\* Every step keeps the rights tied to memberships.
LEMMA RightsStep ==
    ASSUME MemberInv, MembershipTypeOK', MemberStep
    PROVE  AbsentHaveNone' /\ MembersAreLive' /\ RightsNeedMembership'
<1> DEFINE Goal == AbsentHaveNone' /\ MembersAreLive' /\ RightsNeedMembership'
<1>1. MembershipTypeOK /\ AbsentHaveNone /\ MembersAreLive /\ RightsNeedMembership
  BY DEF MemberInv
<1>2. \A r \in Requests : req[r] # Idle => req[r] \in Request
  BY <1>1, CallType
<1>3. \A x \in Users : PlaceStands(x) /\ \A y \in Orgs : RolesStand(x, y)
  BY <1>1, RightsParts
<1>4. holds' \subseteq Pairs
  BY DEF MembershipTypeOK
<1> USE DEF rows, bindings, Called
<1>5. ASSUME UNCHANGED <<rows, stale>>
      PROVE  Goal
  BY <1>1, <1>5 DEF AbsentHaveNone, MembersAreLive, RightsNeedMembership, Live, Joined
<1>6. ASSUME org' = org
      PROVE  \A y \in Orgs : Live(y)' <=> Live(y)
  BY <1>6 DEF Live
<1>7. ASSUME NEW r \in Requests, NEW u \in Users, NEW o \in Orgs,
             u = req[r].user, o = req[r].org, CreateOrg(r)
      PROVE  Goal
  <2>1. /\ MoveTo(u, o) /\ stale \subseteq stale'
        /\ org' = [org EXCEPT ![o] = [row |-> "live", owner |-> u]]
        /\ SetsMember(u, o, "active")
        /\ holds' = holds \cup {<<u, o>>} /\ account' = account
    BY <1>7 DEF CreateOrg, Marks, SetsMember
  <2>2. Live(o)' /\ \A y \in Orgs : Live(y) => Live(y)'
    BY <1>1, <2>1 DEF MembershipTypeOK, Live
  <2>3. /\ member'[u, o] = "active"
        /\ \A x \in Users, y \in Orgs : x # u \/ y # o => member'[x, y] = member[x, y]
    BY <1>1, <2>1, MemberSet
  <2>4. PlaceStands(u)'
    <3>1. CASE current'[u] = o
      BY <2>2, <2>3, <3>1 DEF PlaceStands, Joined
    <3>2. CASE current'[u] # o
      <4>1. current'[u] = NoOrg
        BY <1>1, <2>1, <3>2, MoveToMoves DEF AbsentHaveNone, MembershipTypeOK, Statuses
      <4> QED
        BY <4>1 DEF PlaceStands
    <3> QED
      BY <3>1, <3>2
  <2>5. RolesStand(u, o)'
    BY <2>2, <2>3 DEF RolesStand
  <2> QED
    BY <1>1, <2>1, <2>2, <2>3, <2>4, <2>5, MoveToMoves, PairStep
<1>8. ASSUME NEW r \in Requests, NEW u \in Users, NEW o \in Orgs,
             u = req[r].user, o = req[r].org, SetCurrentOrg(r)
      PROVE  Goal
  <2>1. /\ MoveTo(u, o) /\ stale \subseteq stale'
        /\ <<"current", u>> \in stale' \/ o \in Joined(u)
        /\ UNCHANGED <<org, member, holds, account>>
    BY <1>8 DEF SetCurrentOrg, Marks
  <2>2. \A y \in Orgs : Live(y)' <=> Live(y)
    BY <1>6, <2>1
  <2>3. PlaceStands(u)'
    <3>1. CASE current'[u] = o
      BY <1>1, <2>1, <2>2, <3>1 DEF PlaceStands, Joined, MembersAreLive
    <3>2. CASE current'[u] # o
      <4>1. current'[u] = NoOrg
        BY <1>1, <2>1, <3>2, MoveToMoves DEF AbsentHaveNone, MembershipTypeOK, Statuses
      <4> QED
        BY <4>1 DEF PlaceStands
    <3> QED
      BY <3>1, <3>2
  <2>4. RolesStand(u, o)'
    BY <1>3, <2>1, <2>2 DEF RolesStand
  <2> QED
    BY <1>1, <2>1, <2>2, <2>3, <2>4, MoveToMoves, PairStep
<1>9. ASSUME NEW r \in Requests, NEW u \in Users, NEW o \in Orgs,
             u = req[r].user, o = req[r].org, JoinOrgByInviteCode(r)
      PROVE  Goal
  <2>1. /\ MoveTo(u, o) /\ stale \subseteq stale'
        /\ Live(o) \/ {<<"roles", u>>, <<"current", u>>} \subseteq stale'
        /\ SetsMember(u, o, "active")
        /\ holds' \subseteq holds \cup {<<u, o>>} /\ UNCHANGED <<org, account>>
    BY <1>9 DEF JoinOrgByInviteCode, SetsMember
  <2>2. \A y \in Orgs : Live(y)' <=> Live(y)
    BY <1>6, <2>1
  <2>3. /\ member'[u, o] = "active"
        /\ \A x \in Users, y \in Orgs : x # u \/ y # o => member'[x, y] = member[x, y]
    BY <1>1, <2>1, MemberSet
  <2>4. PlaceStands(u)'
    <3>1. CASE current'[u] = o
      BY <2>1, <2>2, <2>3, <3>1 DEF PlaceStands, Joined
    <3>2. CASE current'[u] # o
      <4>1. current'[u] = NoOrg
        BY <1>1, <2>1, <3>2, MoveToMoves DEF AbsentHaveNone, MembershipTypeOK, Statuses
      <4> QED
        BY <4>1 DEF PlaceStands
    <3> QED
      BY <3>1, <3>2
  <2>5. RolesStand(u, o)'
    BY <2>1, <2>2, <2>3 DEF RolesStand
  <2>6. /\ \A p \in holds' : p \in holds \/ p = <<u, o>>
        /\ \A x \in Users, y \in Orgs : x # u \/ y # o => member'[x, y] = member[x, y]
        /\ \A x \in Users : x # u => current'[x] = current[x]
        /\ account[u] \in {"none", "deleted"} => current'[u] = current[u]
    BY <1>1, <2>1, <2>3, MoveToMoves
  <2>7. Live(o)' \/ {<<"roles", u>>, <<"current", u>>} \subseteq stale'
    BY <2>1, <2>2
  <2> QED
    BY <2>1, <2>2, <2>4, <2>5, <2>6, <2>7, PairStep
<1>10. ASSUME NEW r \in Requests, ReadForLeave(r) \/ Abort(r)
       PROVE  Goal
  BY <1>5, <1>10 DEF ReadForLeave, Abort
<1>11. ASSUME NEW r \in Requests, NEW u \in Users, NEW o \in Orgs,
              u = req[r].user, o = req[r].org, LeaveOrg(r)
       PROVE  Goal
  <2>1. PICK pick \in Current, old \in Current : pick = req[r].pick /\ old = req[r].old
    BY <1>2, <1>11 DEF LeaveOrg, Request
  <2>2. /\ pick # o /\ stale \subseteq stale'
        /\ <<"current", u>> \in stale' \/ (old = current[u] /\ pick \in Joined(u) \cup {NoOrg})
        /\ \E status \in {"left", "removed"} : SetsMember(u, o, status)
        /\ holds' = holds \ {<<u, o>>} /\ UNCHANGED <<org, account>>
        /\ IF old = o THEN MoveTo(u, pick) ELSE UNCHANGED current
    BY <1>11, <2>1 DEF LeaveOrg, Leaves, Marks, MemberInv, PicksAnother, SetsMember
  <2>3. \A y \in Orgs : Live(y)' <=> Live(y)
    BY <1>6, <2>2
  <2>4. /\ \A x \in Users, y \in Orgs : x # u \/ y # o => member'[x, y] = member[x, y]
        /\ member'[u, o] = "left" \/ member'[u, o] = "removed"
    BY <1>1, <2>2, MemberSet
  <2>5. /\ \A x \in Users : x # u => current'[x] = current[x]
        /\ account[u] \in {"none", "deleted"} => current'[u] = current[u]
        /\ current'[u] = IF old = o /\ account[u] \in {"active", "disabled"}
                         THEN pick ELSE current[u]
    BY <1>1, <2>2, MoveToMoves
  <2>6. PlaceStands(u)'
    <3> SUFFICES ASSUME <<"current", u>> \notin stale', current'[u] # NoOrg
                 PROVE  current'[u] \in Joined(u)' /\ org'[current'[u]].row = "live"
      BY DEF PlaceStands, Live
    <3>1. /\ old = current[u] /\ pick \in Joined(u) \cup {NoOrg}
          /\ account[u] \in {"active", "disabled"}
      BY <1>1, <2>2, <2>5 DEF AbsentHaveNone, MembershipTypeOK, Statuses
    <3>2. PICK y \in Orgs : y = current'[u] /\ y # o /\ y \in Joined(u)
      BY <1>3, <2>2, <2>5, <3>1 DEF PlaceStands, Joined
    <3>3. Live(y)
      BY <1>1, <2>2, <3>2, <1>3, <2>5, <3>1 DEF MembersAreLive, Joined, PlaceStands
    <3> QED
      BY <2>3, <2>4, <3>2, <3>3 DEF Joined, Live
  <2>7. RolesStand(u, o)'
    BY <2>2 DEF RolesStand
  <2>8. member'[u, o] # "active"
    BY <2>4
  <2> QED
    BY <1>1, <2>2, <2>3, <2>4, <2>5, <2>6, <2>7, <2>8, PairStep
<1>12. ASSUME NEW r \in Requests, NEW u \in Users, NEW o \in Orgs,
              u = req[r].user, o = req[r].org, RecoverMember(r)
       PROVE  Goal
  <2>1. CASE member[u, o] = "active"
    BY <1>5, <1>12, <2>1 DEF RecoverMember
  <2>2. CASE member[u, o] # "active"
    <3>1. /\ stale \subseteq stale'
          /\ Live(o) \/ {<<"roles", u>>, <<"current", u>>} \subseteq stale'
          /\ SetsMember(u, o, "active")
          /\ holds' = holds \cup {<<u, o>>} /\ UNCHANGED <<org, account, current>>
      BY <1>12, <2>2 DEF RecoverMember, MarksBoth, SetsMember
    <3>2. \A y \in Orgs : Live(y)' <=> Live(y)
      BY <1>6, <3>1
    <3>3. /\ member'[u, o] = "active"
          /\ \A x \in Users, y \in Orgs : x # u \/ y # o => member'[x, y] = member[x, y]
      BY <1>1, <3>1, MemberSet
    <3>4. PlaceStands(u)'
      BY <1>3, <3>1, <3>2, <3>3 DEF PlaceStands, Joined
    <3>5. RolesStand(u, o)'
      BY <3>1, <3>2, <3>3 DEF RolesStand
    <3> QED
      BY <3>1, <3>2, <3>3, <3>4, <3>5, PairStep
  <2> QED
    BY <2>1, <2>2
<1>13. ASSUME NEW r \in Requests, NEW u \in Users, NEW o \in Orgs,
              u = req[r].user, o = req[r].org, AssignRole(r)
       PROVE  Goal
  <2>1. /\ stale \subseteq stale' /\ UNCHANGED <<org, account, current, member>>
        /\ holds' \subseteq holds \cup {<<u, o>>}
        /\ <<u, o>> \in holds' => <<"roles", u>> \in stale' \/ o \in Joined(u)
    BY <1>13 DEF AssignRole, Marks
  <2>2. \A y \in Orgs : Live(y)' <=> Live(y)
    BY <1>6, <2>1
  <2>3. RolesStand(u, o)'
    BY <1>1, <2>1, <2>2 DEF RolesStand, Joined, MembersAreLive
  <2>4. PlaceStands(u)'
    BY <1>3, <2>1, <2>2 DEF PlaceStands, Joined
  <2>5. \A p \in holds' : p \in holds \/ p = <<u, o>>
    BY <2>1
  <2> QED
    BY <2>1, <2>2, <2>3, <2>4, <2>5, PairStep
<1>14. ASSUME NEW r \in Requests, NEW o \in Orgs, o = req[r].org, DeleteOrg(r)
       PROVE  Goal
  <2>1. /\ stale \subseteq stale' /\ account' = account
        /\ org' = [org EXCEPT ![o].row = "deleted"]
        /\ member' = [p \in Pairs |-> IF p[2] = o /\ member[p] # "none" THEN "removed" ELSE member[p]]
        /\ holds' = holds \ (Users \X {o})
        /\ current' = [u \in Users |-> IF current[u] = o THEN NoOrg ELSE current[u]]
    BY <1>14 DEF DeleteOrg, DissolveOrg
  <2>2. \A y \in Orgs : y # o /\ Live(y) => Live(y)'
    BY <1>1, <2>1 DEF MembershipTypeOK, Live
  <2>3. \A x \in Users, y \in Orgs : IF y = o THEN member'[x, y] # "active"
                                     ELSE member'[x, y] = member[x, y]
    BY <1>1, <2>1 DEF MembershipTypeOK, Pairs
  <2>4. AbsentHaveNone'
    BY <1>1, <2>1 DEF AbsentHaveNone
  <2>5. MembersAreLive'
    BY <1>1, <2>1, <2>2, <2>3 DEF MembersAreLive
  <2>6. ASSUME NEW x \in Users, NEW y \in Orgs
        PROVE  RolesStand(x, y)'
    BY <1>3, <2>1, <2>2, <2>3 DEF RolesStand
  <2>7. ASSUME NEW x \in Users
        PROVE  PlaceStands(x)'
    BY <1>3, <2>1, <2>2, <2>3 DEF PlaceStands, Joined
  <2> QED
    BY <1>4, <2>4, <2>5, <2>6, <2>7, RightsParts
<1>15. ASSUME NEW r \in Requests, NEW u \in Users, u = req[r].user, CleanupDisabledUser(r)
       PROVE  Goal
  <2>1. PICK orgs \in SUBSET Orgs : orgs = req[r].seen
    BY <1>15 DEF CleanupDisabledUser, RemoveAccount, MemberInv, ListsAreTyped
  <2>2. /\ stale \subseteq stale' /\ org' = org
        /\ member' = [p \in Pairs |-> IF p \in {u} \X orgs THEN "removed" ELSE member[p]]
        /\ holds' = holds \ ({u} \X orgs)
        /\ account' = [account EXCEPT ![u] = "deleted"]
        /\ current' = [current EXCEPT ![u] = NoOrg]
    BY <1>15, <2>1 DEF CleanupDisabledUser, RemoveAccount, Marks
  <2>3. \A y \in Orgs : Live(y)' <=> Live(y)
    BY <1>6, <2>2
  <2>4. \A x \in Users, y \in Orgs :
           /\ member'[x, y] = IF x = u /\ y \in orgs THEN "removed" ELSE member[x, y]
           /\ <<x, y>> \in holds' <=> <<x, y>> \in holds /\ ~(x = u /\ y \in orgs)
    BY <1>1, <2>2 DEF MembershipTypeOK, Pairs
  <2>5. AbsentHaveNone'
    BY <1>1, <2>2 DEF AbsentHaveNone, MembershipTypeOK
  <2>6. MembersAreLive'
    <3> SUFFICES ASSUME NEW x \in Users, NEW y \in Orgs, member'[x, y] = "active"
                 PROVE  Live(y)' \/ {<<"roles", x>>, <<"current", x>>} \subseteq stale'
      BY DEF MembersAreLive
    <3>1. member[x, y] = "active"
      BY <2>4
    <3> QED
      BY <1>1, <2>2, <2>3, <3>1 DEF MembersAreLive
  <2>7. ASSUME NEW x \in Users, NEW y \in Orgs
        PROVE  RolesStand(x, y)'
    <3>1. RolesStand(x, y)
      BY <1>3
    <3> QED
      BY <2>2, <2>3, <2>4, <3>1 DEF RolesStand
  <2>8. ASSUME NEW x \in Users
        PROVE  PlaceStands(x)'
    <3>1. CASE x = u
      BY <1>1, <2>2, <3>1 DEF PlaceStands, MembershipTypeOK
    <3>2. CASE x # u
      <4>1. current'[x] = current[x]
        BY <1>1, <2>2, <3>2 DEF MembershipTypeOK
      <4> QED
        BY <1>3, <2>2, <2>3, <2>4, <3>2, <4>1 DEF PlaceStands, Joined
    <3> QED
      BY <3>1, <3>2
  <2> QED
    BY <1>4, <2>5, <2>6, <2>7, <2>8, RightsParts
<1>16. ASSUME NEW u \in Users, ApplyUserStatus(u)
       PROVE  Goal
  <2>1. AbsentHaveNone'
    BY <1>1, <1>16 DEF ApplyUserStatus, AbsentHaveNone, MembershipTypeOK
  <2>2. MembersAreLive' /\ RightsNeedMembership'
    BY <1>1, <1>16 DEF ApplyUserStatus, MembersAreLive, RightsNeedMembership, Live, Joined
  <2> QED
    BY <2>1, <2>2
<1>17. CASE \/ \E p \in Pairs : ProjectBinding(p)
            \/ \E r \in Requests, op \in Ops, u \in Users, o \in Orgs : Begin(r, op, u, o)
  BY <1>5, <1>17 DEF ProjectBinding, Begin
<1>20. ASSUME NEW r \in Requests, NEW u \in Users, NEW o \in Orgs,
              u = req[r].user, o = req[r].org, SaveUser(r)
       PROVE  Goal
  <2>1. /\ account' = [account EXCEPT ![u] = req[r].was] /\ stale \subseteq stale'
        /\ current' = [current EXCEPT ![u] = req[r].old]
        /\ UNCHANGED <<org, member, holds>> /\ req[r].was \in {"active", "disabled"}
        /\ <<"current", u>> \in stale' \/ (account[u] = req[r].was /\ current[u] = req[r].old)
    BY <1>20 DEF SaveUser, Marks, MemberInv, SavesAreOfAccounts
  <2>2. \A y \in Orgs : Live(y)' <=> Live(y)
    BY <1>6, <2>1
  <2>3. /\ AbsentHaveNone' /\ MembersAreLive'
    BY <1>1, <2>1, <2>2 DEF AbsentHaveNone, MembersAreLive, MembershipTypeOK
  <2>4. ASSUME NEW x \in Users
        PROVE  PlaceStands(x)' /\ \A y \in Orgs : RolesStand(x, y)'
    <3>1. PlaceStands(x) /\ \A y \in Orgs : RolesStand(x, y)
      BY <1>3
    <3>2. <<"current", x>> \in stale' \/ current'[x] = current[x]
      BY <1>1, <2>1 DEF MembershipTypeOK
    <3> QED
      BY <2>1, <2>2, <3>1, <3>2 DEF PlaceStands, RolesStand, Joined
  <2> QED
    BY <1>4, <2>3, <2>4, RightsParts
<1>18. \A r \in Requests : Register(r) => Goal
  BY RegisterStep
<1>19. ASSUME NEW r \in Requests, Commit(r)
       PROVE  Goal
  <2>1. PICK u \in Users, o \in Orgs : u = req[r].user /\ o = req[r].org
    BY <1>2, <1>19 DEF Commit, Register, CreateOrg, SetCurrentOrg, JoinOrgByInviteCode,
       ReadForLeave, LeaveOrg, RecoverMember, AssignRole, DeleteOrg, CleanupDisabledUser,
       SaveUser, Abort, Request
  <2> QED
    BY <1>7, <1>8, <1>9, <1>10, <1>11, <1>12, <1>13, <1>14, <1>15, <1>18, <1>19, <1>20, <2>1
       DEF Commit
<1> QED
  BY <1>16, <1>17, <1>19 DEF MemberStep

\* Grouping rules can only come to differ from the roles of the pairs that ask for
\* their projection.
LEMMA Rebinding ==
    ASSUME BindingsFollowRoles, NEW pairs, Rebound(pairs),
           \A o \in Orgs : org[o].row = "deleted" => org'[o].row = "deleted",
           \A p \in Pairs : p \notin pairs => (p \in holds' <=> p \in holds)
    PROVE  BindingsFollowRoles'
<1> SUFFICES ASSUME NEW p \in Pairs, p \notin unsynced'
             PROVE  org'[p[2]].row = "deleted" \/ (p \in bound' <=> p \in holds')
  BY DEF BindingsFollowRoles
<1>1. p \notin unsynced /\ p \notin pairs /\ bound' = bound
  BY DEF Rebound
<1>2. org[p[2]].row = "deleted" \/ (p \in bound <=> p \in holds)
  BY <1>1 DEF BindingsFollowRoles
<1>3. p[2] \in Orgs
  BY DEF Pairs
<1> QED
  BY <1>1, <1>2, <1>3

\* Every step keeps the grouping rules on the way to the roles.
LEMMA BindingsStep ==
    ASSUME MemberInv, MembershipTypeOK', MemberStep
    PROVE  BindingsFollowRoles'
<1>1. MembershipTypeOK /\ BindingsFollowRoles
  BY DEF MemberInv
<1> USE DEF rows, bindings, Called
<1>2. ASSUME UNCHANGED <<org, holds, bound, unsynced>>
      PROVE  BindingsFollowRoles'
  BY <1>1, <1>2 DEF BindingsFollowRoles
<1>3. ASSUME NEW r \in Requests, Register(r)
      PROVE  BindingsFollowRoles'
  <2>1. \A p \in Pairs : p \notin {req[r].user} \X {req[r].org, AllMembers}
                            => (p \in holds' <=> p \in holds)
    BY <1>3 DEF Register
  <2>2. Rebound({req[r].user} \X {req[r].org, AllMembers}) /\ org' = org
    BY <1>3 DEF Register
  <2> QED
    BY <1>1, <2>1, <2>2, Rebinding
<1>4. ASSUME NEW r \in Requests, CreateOrg(r)
      PROVE  BindingsFollowRoles'
  <2>1. /\ Rebound({<<req[r].user, req[r].org>>}) /\ org[req[r].org].row = "none"
        /\ org' = [org EXCEPT ![req[r].org] = [row |-> "live", owner |-> req[r].user]]
        /\ holds' = holds \cup {<<req[r].user, req[r].org>>}
    BY <1>4 DEF CreateOrg
  <2>2. \A o \in Orgs : org[o].row = "deleted" => org'[o].row = "deleted"
    BY <1>1, <2>1 DEF MembershipTypeOK
  <2>3. \A p \in Pairs : p \notin {<<req[r].user, req[r].org>>} => (p \in holds' <=> p \in holds)
    BY <2>1
  <2> QED
    BY <1>1, <2>1, <2>2, <2>3, Rebinding
<1>5. ASSUME NEW r \in Requests, JoinOrgByInviteCode(r)
      PROVE  BindingsFollowRoles'
  <2>1. PICK pairs \in {{}, {<<req[r].user, req[r].org>>}} :
           /\ Rebound(pairs) /\ org' = org
           /\ holds' = holds \cup pairs
    BY <1>5 DEF JoinOrgByInviteCode
  <2> QED
    BY <1>1, <2>1, Rebinding
<1>6. ASSUME NEW r \in Requests, LeaveOrg(r)
      PROVE  BindingsFollowRoles'
  <2>1. /\ Rebound({<<req[r].user, req[r].org>>}) /\ org' = org
        /\ holds' = holds \ {<<req[r].user, req[r].org>>}
    BY <1>6 DEF LeaveOrg, Leaves
  <2> QED
    BY <1>1, <2>1, Rebinding
<1>7. ASSUME NEW r \in Requests, RecoverMember(r)
      PROVE  BindingsFollowRoles'
  <2>1. CASE member[req[r].user, req[r].org] = "active"
    BY <1>2, <1>7, <2>1 DEF RecoverMember
  <2>2. CASE member[req[r].user, req[r].org] # "active"
    <3>1. /\ Rebound({<<req[r].user, req[r].org>>}) /\ org' = org
          /\ holds' = holds \cup {<<req[r].user, req[r].org>>}
      BY <1>7, <2>2 DEF RecoverMember
    <3> QED
      BY <1>1, <3>1, Rebinding
  <2> QED
    BY <2>1, <2>2
<1>8. ASSUME NEW r \in Requests, AssignRole(r)
      PROVE  BindingsFollowRoles'
  <2>1. /\ Rebound({<<req[r].user, req[r].org>>}) /\ org' = org
        /\ \A p \in Pairs : p \notin {<<req[r].user, req[r].org>>}
                               => (p \in holds' <=> p \in holds)
    BY <1>8 DEF AssignRole
  <2> QED
    BY <1>1, <2>1, Rebinding
<1>9. ASSUME NEW r \in Requests, NEW o \in Orgs, o = req[r].org, DeleteOrg(r)
      PROVE  BindingsFollowRoles'
  <2>1. /\ UNCHANGED bindings
        /\ org' = [org EXCEPT ![o].row = "deleted"]
        /\ holds' = holds \ (Users \X {o})
    BY <1>9 DEF DeleteOrg, DissolveOrg
  <2>2. ASSUME NEW p \in Pairs, p \notin unsynced'
        PROVE  org'[p[2]].row = "deleted" \/ (p \in bound' <=> p \in holds')
    <3>1. org[p[2]].row = "deleted" \/ (p \in bound <=> p \in holds)
      BY <1>1, <2>1, <2>2 DEF BindingsFollowRoles
    <3>2. p[2] \in Orgs
      BY DEF Pairs
    <3>3. CASE p[2] = o
      BY <1>1, <2>1, <3>3 DEF MembershipTypeOK
    <3>4. CASE p[2] # o
      BY <1>1, <2>1, <3>1, <3>2, <3>4 DEF MembershipTypeOK, Pairs
    <3> QED
      BY <3>3, <3>4
  <2> QED
    BY <2>2 DEF BindingsFollowRoles
<1>10. ASSUME NEW r \in Requests, CleanupDisabledUser(r)
       PROVE  BindingsFollowRoles'
  <2>1. /\ Rebound({req[r].user} \X req[r].seen) /\ org' = org
        /\ holds' = holds \ ({req[r].user} \X req[r].seen)
    BY <1>10 DEF CleanupDisabledUser, RemoveAccount
  <2> QED
    BY <1>1, <2>1, Rebinding
<1>11. ASSUME NEW p \in Pairs, ProjectBinding(p)
       PROVE  BindingsFollowRoles'
  BY <1>1, <1>11 DEF ProjectBinding, BindingsFollowRoles
<1>12. ASSUME NEW r \in Requests, SetCurrentOrg(r) \/ ReadForLeave(r) \/ SaveUser(r) \/ Abort(r)
       PROVE  BindingsFollowRoles'
  BY <1>2, <1>12 DEF SetCurrentOrg, ReadForLeave, SaveUser, Abort
<1>13. CASE \/ \E u \in Users : ApplyUserStatus(u)
            \/ \E r \in Requests, op \in Ops, u \in Users, o \in Orgs : Begin(r, op, u, o)
  BY <1>2, <1>13 DEF ApplyUserStatus, Begin
<1>14. ASSUME NEW r \in Requests, DeleteOrg(r)
       PROVE  req[r].org \in Orgs
  BY <1>1, <1>14, CallType DEF DeleteOrg, Request
<1> QED
  BY <1>3, <1>4, <1>5, <1>6, <1>7, <1>8, <1>9, <1>10, <1>11, <1>12, <1>13, <1>14
     DEF MemberStep, Commit

\* A step of the consumers, of the requests' middleware or of the clock.
CacheStep ==
    \/ \E c \in Consumers :
          \/ \E e \in events : TakeEvent(c, e)
          \/ Handles(c) \/ BreakOff(c) \/ RebuildClear(c)
    \/ \E v \in Visits : VisitFills(v) \/ \E u \in Users : VisitReads(v, u)
    \/ \E u \in Users : StateExpires(u)

\* Next does the one or the other.
LEMMA StepSplits == Next <=> (MemberStep /\ UNCHANGED cacheVars) \/ CacheStep
BY DEF Next, MemberStep, CacheStep

\* What the cache does changes no membership.
LEMMA CacheStepOutside ==
    ASSUME MembershipTypeOK, CacheStep
    PROVE  /\ UNCHANGED <<rows, bindings, req, stale>>
           /\ events' \subseteq events /\ ops' \in 0..MaxOps
<1>1. ASSUME NEW c \in Consumers, NEW e \in events, TakeEvent(c, e)
      PROVE  /\ UNCHANGED <<rows, bindings, req, stale>>
             /\ events' \subseteq events /\ ops' \in 0..MaxOps
  BY <1>1 DEF TakeEvent, MembershipTypeOK
<1>2. ASSUME NEW c \in Consumers, BreakOff(c) \/ RebuildClear(c)
      PROVE  /\ UNCHANGED <<rows, bindings, req, stale>>
             /\ events' \subseteq events /\ ops' \in 0..MaxOps
  BY <1>2 DEF BreakOff, RebuildClear, Counted, MembershipTypeOK
<1>3. ASSUME UNCHANGED memberVars
      PROVE  /\ UNCHANGED <<rows, bindings, req, stale>>
             /\ events' \subseteq events /\ ops' \in 0..MaxOps
  BY <1>3 DEF memberVars, MembershipTypeOK
<1> QED
  BY <1>1, <1>2, <1>3 DEF CacheStep, Handles, WriteProjection, ListAll, VisitFills, VisitReads,
     StateExpires

\* MemberInv only looks at what the requests change.
LEMMA MemberInvKeeps ==
    ASSUME MemberInv, UNCHANGED <<rows, bindings, req, stale>>,
           events' \subseteq events, ops' \in 0..MaxOps
    PROVE  MemberInv'
<1> USE DEF MemberInv, rows, bindings
<1>1. MembershipTypeOK'
  BY DEF MembershipTypeOK
<1>2. AllMembersLives' /\ ListsAreTyped' /\ PicksAnother' /\ SavesAreOfAccounts'
  BY DEF AllMembersLives, ListsAreTyped, PicksAnother, SavesAreOfAccounts, Live, Called
<1>3. AbsentHaveNone' /\ MembersAreLive'
  BY DEF AbsentHaveNone, MembersAreLive, Live
<1>4. RightsNeedMembership' /\ BindingsFollowRoles'
  BY DEF RightsNeedMembership, BindingsFollowRoles, Live, Joined
<1> QED
  BY <1>1, <1>2, <1>3, <1>4

\* It holds at the start, and every step keeps it.
LEMMA MemberInvariance == /\ MembershipInit => MemberInv
                          /\ MemberInv /\ [Next]_vars => MemberInv'
<1>1. ASSUME MembershipInit PROVE MemberInv
  <2>1. MembershipTypeOK
    BY <1>1 DEF MembershipInit, MembershipTypeOK, Statuses, Current
  <2>2. \A r \in Requests : req[r] = Idle
    BY <1>1 DEF MembershipInit
  <2>3. AllMembersLives /\ ListsAreTyped /\ PicksAnother /\ SavesAreOfAccounts
    BY <1>1, <2>2 DEF MembershipInit, AllMembersLives, ListsAreTyped, PicksAnother,
       SavesAreOfAccounts, Live, Called
  <2>4. AbsentHaveNone /\ MembersAreLive
    BY <1>1 DEF MembershipInit, AbsentHaveNone, MembersAreLive, Pairs
  <2>5. RightsNeedMembership /\ BindingsFollowRoles
    BY <1>1 DEF MembershipInit, RightsNeedMembership, BindingsFollowRoles
  <2> QED
    BY <2>1, <2>3, <2>4, <2>5 DEF MemberInv
<1>2. ASSUME MemberInv, MemberStep PROVE MemberInv'
  BY <1>2, MemberTypeStep, CallStep, RightsStep, BindingsStep DEF MemberInv
<1>3. ASSUME MemberInv, CacheStep PROVE MemberInv'
  BY <1>3, CacheStepOutside, MemberInvKeeps DEF MemberInv
<1>4. ASSUME MemberInv, UNCHANGED vars PROVE MemberInv'
  BY <1>4, MemberInvKeeps DEF vars, memberVars, MemberInv, MembershipTypeOK
<1> QED
  BY <1>1, <1>2, <1>3, <1>4, StepSplits

-----------------------------------------------------------------------------
(* The inductive invariant of the rankings.                                    *)

\* Only the removal of an account is announced as one, and only a row that was read
\* before brings it back.
DeletionsAreTrue ==
    \A e \in events : e.deleted => account[e.user] = "deleted" \/ <<"current", e.user>> \in stale

\* Where a user should be ranked.
Belongs(u, o) == account[u] = "active" /\ current[u] = o

\* The events that will read the user's row, and those that will take him out of o.
ReadsRow(u) == \E e \in events : e.user = u /\ ~e.deleted
TakesOut(u, o) == \E e \in events : e.user = u /\ o \in e.remove

\* If S is what the rankings say, or will say when the run at work is over, then
\* every pair that is missing or too many is about to be put right.
Agrees(S, u, o) ==
    /\ Belongs(u, o) /\ <<u, o>> \notin S => ReadsRow(u)
    /\ ~Belongs(u, o) /\ <<u, o>> \in S => TakesOut(u, o) \/ (current[u] = o /\ ReadsRow(u))
AllAgree(S) == \A u \in Users : <<"current", u>> \in stale \/ \A o \in Orgs : Agrees(S, u, o)

\* What the rankings will say when consumer c has written all it has read.
Outcome(c) ==
    LET t == task[c]
    IN  {p \in Pairs : IF p[1] = t.user THEN p \in RanksOf(t.user, t.item, t.remove)
                       ELSE IF p[1] \in DOMAIN t.rest THEN p \in RanksOf(p[1], t.rest[p[1]], {})
                       ELSE p \in ranked}

Working(c) == task[c].pc = "write"
OneRun == \A c, d \in Consumers : task[c] # NoTask /\ task[d] # NoTask => c = d
RanksAreComing ==
    crossed \/ lost \/
        /\ OneRun
        /\ \A c \in Consumers : task[c] = Cleared => ranked = {}
        /\ ~Busy => AllAgree(ranked)
        /\ \A c \in Consumers : Working(c) => AllAgree(Outcome(c))

\* A rebuild writes every user once.
OncePerUser == \A c \in Consumers : Working(c) => task[c].user \notin DOMAIN task[c].rest

RankInv == TypeOK /\ MemberInv /\ DeletionsAreTrue /\ OncePerUser /\ RanksAreComing

-----------------------------------------------------------------------------
(* Types of the projection.                                                    *)

Rests == UNION {[U -> Items] : U \in SUBSET Users}
Tasks == {NoTask, Cleared} \cup
         [pc : {"write"}, user : Users, remove : SUBSET Orgs, item : Items, rest : Rests]

\* A list of a rebuild has an item for each of some users.
LEMMA RestType == \A rest : rest \in Rests <=> /\ DOMAIN rest \subseteq Users
                                               /\ rest \in [DOMAIN rest -> Items]
BY DEF Rests

\* What a run works on.
LEMMA TaskType ==
    ASSUME TypeOK, NEW c \in Consumers
    PROVE  /\ task[c] \in Tasks
           /\ Working(c) <=> task[c] # NoTask /\ task[c] # Cleared
           /\ Working(c) => /\ task[c].user \in Users /\ task[c].remove \subseteq Orgs
                            /\ task[c].item \in Items
                            /\ DOMAIN task[c].rest \subseteq Users
                            /\ \A u \in DOMAIN task[c].rest : task[c].rest[u] \in Items
<1>1. task[c] \in Tasks
  BY DEF TypeOK, Tasks, Rests
<1>2. CASE task[c] = NoTask
  BY <1>2, <1>1 DEF NoTask, Cleared, Working
<1>3. CASE task[c] = Cleared
  BY <1>3, <1>1 DEF NoTask, Cleared, Working
<1>4. CASE task[c] \in [pc : {"write"}, user : Users, remove : SUBSET Orgs, item : Items,
                        rest : Rests]
  <2>1. /\ Working(c) /\ task[c].user \in Users /\ task[c].remove \subseteq Orgs
        /\ task[c].item \in Items /\ task[c].rest \in Rests
    BY <1>4 DEF Working
  <2>2. task[c] # NoTask /\ task[c] # Cleared
    BY <2>1 DEF Working, NoTask, Cleared
  <2> QED
    BY <1>1, <2>1, <2>2, RestType
<1> QED
  BY <1>1, <1>2, <1>3, <1>4 DEF Tasks

\* A row that is there is no missing row.
LEMMA RowIs ==
    ASSUME MembershipTypeOK, NEW u \in Users
    PROVE  /\ Row(u) \in Items
           /\ Row(u) = Gone <=> account[u] \notin {"active", "disabled"}
           /\ Row(u) # Gone => /\ Row(u).current = current[u]
                               /\ Row(u).active <=> account[u] = "active"
<1>1. [current |-> current[u], active |-> account[u] = "active"] # Gone
  BY DEF Gone
<1> QED
  BY <1>1 DEF Row, Items, MembershipTypeOK

\* A rebuild takes one user off its list, or is done.
LEMMA FollowingIs ==
    ASSUME NEW rest \in Rests
    PROVE  /\ Following(rest) \in Tasks
           /\ DOMAIN rest = {} => Following(rest) = NoTask
           /\ DOMAIN rest # {} =>
                 \E u \in DOMAIN rest :
                    /\ Following(rest).pc = "write" /\ Following(rest).user = u
                    /\ Following(rest).remove = {} /\ Following(rest).item = rest[u]
                    /\ Following(rest).rest = [v \in DOMAIN rest \ {u} |-> rest[v]]
<1>1. CASE DOMAIN rest = {}
  BY <1>1 DEF Following, Tasks
<1>2. CASE DOMAIN rest # {}
  <2>1. PICK u \in DOMAIN rest : u = CHOOSE v \in DOMAIN rest : TRUE
    BY <1>2
  <2>2. Following(rest) = [pc |-> "write", user |-> u, remove |-> {}, item |-> rest[u],
                           rest |-> [v \in DOMAIN rest \ {u} |-> rest[v]]]
    BY <1>2, <2>1 DEF Following
  <2>3. DOMAIN rest \subseteq Users /\ \A v \in DOMAIN rest : rest[v] \in Items
    BY RestType
  <2>4. [v \in DOMAIN rest \ {u} |-> rest[v]] \in Rests
    BY <2>3, RestType
  <2> QED
    BY <1>2, <2>2, <2>3, <2>4 DEF Tasks
<1> QED
  BY <1>1, <1>2

\* The rankings after one projection of user u.
LEMMA InRanks ==
    ASSUME ranked \subseteq Pairs, NEW u \in Users, NEW item, NEW remove
    PROVE  /\ RanksOf(u, item, remove) \subseteq Pairs
           /\ \A x \in Users, o \in Orgs :
                 <<x, o>> \in RanksOf(u, item, remove) <=>
                    \/ x = u /\ item # Gone /\ item.active /\ item.current = o
                    \/ <<x, o>> \in ranked
                       /\ (x = u => o \notin remove /\ (item = Gone \/ item.current # o))
BY DEF RanksOf, Pairs

\* Every step of the cache keeps the types.
LEMMA CacheTypeStep == TypeOK /\ CacheStep => TypeOK'
<1> SUFFICES ASSUME TypeOK, CacheStep PROVE TypeOK'
  OBVIOUS
<1>1. MembershipTypeOK /\ MembershipTypeOK'
  BY CacheStepOutside DEF TypeOK, MembershipTypeOK, rows, bindings
<1>2. /\ ranked \subseteq Pairs
      /\ cache \in [Users -> {"none", "active", "inactive"}]
      /\ task \in [Consumers -> Tasks]
      /\ visit \in [Visits -> {NoVisit} \cup [pc : {"fill"}, user : Users, active : BOOLEAN]]
      /\ crossed \in BOOLEAN /\ lost \in BOOLEAN
  BY DEF TypeOK, Tasks, Rests
<1> DEFINE Rest == /\ ranked' \subseteq Pairs
                   /\ cache' \in [Users -> {"none", "active", "inactive"}]
                   /\ task' \in [Consumers -> Tasks]
                   /\ visit' \in [Visits -> {NoVisit} \cup
                                            [pc : {"fill"}, user : Users, active : BOOLEAN]]
                   /\ crossed' \in BOOLEAN /\ lost' \in BOOLEAN
<1>3. Rest => TypeOK'
  BY <1>1 DEF TypeOK, Tasks, Rests
<1>4. Busy \in BOOLEAN
  BY DEF Busy
<1>5. ASSUME NEW c \in Consumers, NEW e \in events, TakeEvent(c, e)
      PROVE  Rest
  <2>1. e.user \in Users /\ e.remove \in SUBSET Orgs
    BY <1>1 DEF MembershipTypeOK, Event
  <2>2. NoRest \in Rests
    BY RestType DEF NoRest
  <2>3. (IF e.deleted THEN Gone ELSE Row(e.user)) \in Items
    BY <1>1, <2>1, RowIs DEF Items
  <2>4. [pc |-> "write", user |-> e.user, remove |-> e.remove,
         item |-> IF e.deleted THEN Gone ELSE Row(e.user), rest |-> NoRest] \in Tasks
    BY <2>1, <2>2, <2>3 DEF Tasks
  <2> QED
    BY <1>2, <1>4, <1>5, <2>4 DEF TakeEvent
<1>6. ASSUME NEW c \in Consumers, WriteProjection(c)
      PROVE  Rest
  <2>1. task[c].user \in Users /\ task[c].rest \in Rests
    BY <1>2, <1>6 DEF WriteProjection, Tasks, NoTask, Cleared
  <2>2. Following(task[c].rest) \in Tasks /\ Ranked(c) \subseteq Pairs
    BY <1>2, <2>1, FollowingIs, InRanks DEF Ranked
  <2> QED
    BY <1>2, <1>6, <2>1, <2>2 DEF WriteProjection
<1>7. ASSUME NEW c \in Consumers, BreakOff(c)
      PROVE  Rest
  <2>1. ranked' \subseteq Pairs
    <3>1. CASE UNCHANGED ranked
      BY <1>2, <3>1
    <3>2. CASE task[c] # Cleared /\ ranked' = Ranked(c)
      <4>1. task[c].user \in Users
        BY <1>2, <1>7, <3>2 DEF BreakOff, Tasks
      <4> QED
        BY <1>2, <3>2, <4>1, InRanks DEF Ranked
    <3> QED
      BY <1>7, <3>1, <3>2 DEF BreakOff
  <2>2. NoTask \in Tasks
    BY DEF Tasks
  <2> QED
    BY <1>2, <1>7, <2>1, <2>2 DEF BreakOff
<1>8. ASSUME NEW c \in Consumers, RebuildClear(c)
      PROVE  Rest
  <2>1. Cleared \in Tasks
    BY DEF Tasks
  <2> QED
    BY <1>2, <1>4, <1>8, <2>1 DEF RebuildClear
<1>9. ASSUME NEW c \in Consumers, ListAll(c)
      PROVE  Rest
  <2>1. [u \in {v \in Users : Row(v) # Gone} |-> Row(u)] \in Rests
    BY <1>1, RowIs, RestType
  <2>2. Following([u \in {v \in Users : Row(v) # Gone} |-> Row(u)]) \in Tasks
    BY <2>1, FollowingIs
  <2> QED
    BY <1>2, <1>9, <2>2 DEF ListAll
<1>10. ASSUME NEW v \in Visits, VisitFills(v)
       PROVE  Rest
  BY <1>2, <1>10 DEF VisitFills, NoVisit
<1>11. ASSUME NEW v \in Visits, NEW u \in Users, VisitReads(v, u)
       PROVE  Rest
  <2>1. [pc |-> "fill", user |-> u, active |-> account[u] = "active"]
           \in [pc : {"fill"}, user : Users, active : BOOLEAN]
    OBVIOUS
  <2> QED
    BY <1>2, <1>11, <2>1 DEF VisitReads
<1>12. ASSUME NEW u \in Users, StateExpires(u)
       PROVE  Rest
  BY <1>2, <1>12 DEF StateExpires
<1> HIDE DEF Rest
<1> QED
  BY <1>3, <1>5, <1>6, <1>7, <1>8, <1>9, <1>10, <1>11, <1>12 DEF CacheStep, Handles

-----------------------------------------------------------------------------
(* What a transaction leaves to be put right.                                  *)

\* The event of a commit that removes no account.
LEMMA EmitIs ==
    ASSUME NEW u, NEW remove, Emit(u, remove)
    PROVE  \E e \in events' : /\ events' = events \cup {e} /\ e.user = u
                              /\ e.remove = remove \ {NoOrg} /\ ~e.deleted
<1> DEFINE e == [user |-> u, remove |-> remove \ {NoOrg}, deleted |-> FALSE]
<1>1. events' = events \cup {e} /\ e.user = u /\ e.remove = remove \ {NoOrg} /\ ~e.deleted
  BY DEF Emit
<1> HIDE DEF e
<1> QED
  BY <1>1

\* Only the removal of an account is announced as one, and removed accounts stay so,
\* but for those that a save inserts again.
LEMMA DeletionsStep ==
    ASSUME MembershipTypeOK, DeletionsAreTrue, MemberStep
    PROVE  DeletionsAreTrue'
<1> USE DEF rows, bindings, Called
<1>1. ASSUME NEW u \in Users, account[u] # "deleted", NEW status,
             account' = [account EXCEPT ![u] = status], stale \subseteq stale',
             \A e \in events' : e \in events \/ ~e.deleted
      PROVE  DeletionsAreTrue'
  BY <1>1 DEF DeletionsAreTrue, MembershipTypeOK
<1>2. ASSUME account' = account, stale \subseteq stale',
             \A e \in events' : e \in events \/ ~e.deleted
      PROVE  DeletionsAreTrue'
  BY <1>2 DEF DeletionsAreTrue
<1>3. ASSUME NEW r \in Requests, Register(r)
      PROVE  DeletionsAreTrue'
  <2>1. /\ req[r].user \in Users /\ account[req[r].user] # "deleted"
        /\ account' = [account EXCEPT ![req[r].user] = "active"] /\ stale \subseteq stale'
    BY <1>3, CallType DEF Register, Request, MarksBoth
  <2>2. PICK e : events' = events \cup {e} /\ ~e.deleted
    BY <1>3, EmitIs DEF Register
  <2> QED
    BY <1>1, <2>1, <2>2
<1>4. ASSUME NEW r \in Requests, CleanupDisabledUser(r)
      PROVE  DeletionsAreTrue'
  <2>1. PICK u \in Users, e \in events' : /\ account' = [account EXCEPT ![u] = "deleted"]
                                         /\ events' = events \cup {e} /\ e.user = u
                                         /\ stale \subseteq stale'
    BY <1>4, CallType DEF CleanupDisabledUser, RemoveAccount, Request, Marks
  <2> QED
    BY <2>1 DEF DeletionsAreTrue, MembershipTypeOK
<1>5. ASSUME NEW r \in Requests, CreateOrg(r) \/ SetCurrentOrg(r) \/ JoinOrgByInviteCode(r)
                                   \/ LeaveOrg(r) \/ RecoverMember(r)
      PROVE  DeletionsAreTrue'
  <2>1. account' = account /\ stale \subseteq stale'
    BY <1>5 DEF CreateOrg, SetCurrentOrg, JoinOrgByInviteCode, LeaveOrg, Leaves, RecoverMember,
       Marks, MarksBoth
  <2>2. events' = events \/ \E u, remove : Emit(u, remove)
    BY <1>5 DEF CreateOrg, SetCurrentOrg, JoinOrgByInviteCode, LeaveOrg, Leaves, RecoverMember
  <2>3. \A e \in events' : e \in events \/ ~e.deleted
    BY <2>2, EmitIs
  <2> QED
    BY <1>2, <2>1, <2>3
<1>6. ASSUME NEW r \in Requests, DeleteOrg(r)
      PROVE  DeletionsAreTrue'
  <2>1. /\ account' = account
        /\ events' = events \cup [user : req[r].seen, remove : {{req[r].org}}, deleted : {FALSE}]
        /\ stale \subseteq stale'
    BY <1>6 DEF DeleteOrg, DissolveOrg
  <2> QED
    BY <1>2, <2>1
<1>7. ASSUME NEW u \in Users, ApplyUserStatus(u)
      PROVE  DeletionsAreTrue'
  <2>1. PICK status : /\ account[u] # "deleted" /\ account' = [account EXCEPT ![u] = status]
                      /\ stale' = stale
    BY <1>7 DEF ApplyUserStatus
  <2>2. \A e \in events' : e \in events \/ ~e.deleted
    BY <1>7, EmitIs DEF ApplyUserStatus
  <2> QED
    BY <1>1, <2>1, <2>2
<1>8. ASSUME UNCHANGED <<account, events>>, stale \subseteq stale'
      PROVE  DeletionsAreTrue'
  BY <1>2, <1>8
<1>9. ASSUME NEW r \in Requests, SaveUser(r)
      PROVE  DeletionsAreTrue'
  <2>1. PICK u \in Users : /\ account' = [account EXCEPT ![u] = req[r].was]
                           /\ stale \subseteq stale'
                           /\ <<"current", u>> \in stale' \/ account[u] = req[r].was
    BY <1>9, CallType DEF SaveUser, Request, Marks
  <2>2. events' = events \/ \E x, remove : Emit(x, remove)
    BY <1>9 DEF SaveUser
  <2>3. \A e \in events' : e \in events \/ ~e.deleted
    BY <2>2, EmitIs
  <2> QED
    BY <2>1, <2>3 DEF DeletionsAreTrue, MembershipTypeOK
<1>10. ASSUME NEW r \in Requests, ReadForLeave(r) \/ AssignRole(r) \/ Abort(r)
       PROVE  UNCHANGED <<account, events>> /\ stale \subseteq stale'
  BY <1>10 DEF ReadForLeave, AssignRole, Abort, Marks
<1>11. CASE \/ \E p \in Pairs : ProjectBinding(p)
            \/ \E r \in Requests, op \in Ops, u \in Users, o \in Orgs : Begin(r, op, u, o)
  BY <1>8, <1>11 DEF ProjectBinding, Begin
<1> QED
  BY <1>3, <1>4, <1>5, <1>6, <1>7, <1>8, <1>9, <1>10, <1>11 DEF MemberStep, Commit

\* A user whom a step does not move.
LEMMA Unmoved ==
    ASSUME NEW S, NEW x \in Users, NEW o \in Orgs, Agrees(S, x, o),
           account'[x] = account[x], current'[x] = current[x], events \subseteq events'
    PROVE  Agrees(S, x, o)'
BY DEF Agrees, Belongs, ReadsRow, TakesOut

\* A user who has moved, with the event that says so.
LEMMA Moved ==
    ASSUME NEW S, NEW x \in Users, \A o \in Orgs : Agrees(S, x, o),
           events \subseteq events', NEW e \in events', e.user = x,
           ~e.deleted \/ account'[x] # "active",
           \/ current'[x] = current[x] /\ ~e.deleted
           \/ current[x] \notin Orgs
           \/ current[x] \in e.remove
    PROVE  \A o \in Orgs : Agrees(S, x, o)'
<1> SUFFICES ASSUME NEW o \in Orgs PROVE Agrees(S, x, o)'
  OBVIOUS
<1>1. Agrees(S, x, o)
  OBVIOUS
<1>2. ASSUME Belongs(x, o)', <<x, o>> \notin S
      PROVE  ReadsRow(x)'
  BY <1>2 DEF Belongs, ReadsRow
<1>3. ASSUME ~Belongs(x, o)', <<x, o>> \in S
      PROVE  TakesOut(x, o)' \/ (current'[x] = o /\ ReadsRow(x)')
  <2>1. TakesOut(x, o) => TakesOut(x, o)'
    BY DEF TakesOut
  <2>2. current[x] = o \/ TakesOut(x, o)
    BY <1>1, <1>3 DEF Agrees, Belongs
  <2>3. current[x] = o /\ current[x] \in e.remove => TakesOut(x, o)'
    BY DEF TakesOut
  <2>4. ~e.deleted => ReadsRow(x)'
    BY DEF ReadsRow
  <2> QED
    BY <2>1, <2>2, <2>3, <2>4
<1> QED
  BY <1>2, <1>3 DEF Agrees

\* What one emitted event does for its user, when the others stay where they are.
LEMMA EmitAgrees ==
    ASSUME NEW S, AllAgree(S), NEW u \in Users, stale \subseteq stale', NEW e,
           events' = events \cup {e}, e.user = u,
           ~e.deleted \/ account'[u] # "active",
           \A x \in Users : x # u => account'[x] = account[x] /\ current'[x] = current[x],
           \/ <<"current", u>> \in stale'
           \/ current'[u] = current[u] /\ ~e.deleted
           \/ current[u] \notin Orgs
           \/ current[u] \in e.remove
    PROVE  AllAgree(S)'
<1> SUFFICES ASSUME NEW x \in Users, <<"current", x>> \notin stale'
             PROVE  \A o \in Orgs : Agrees(S, x, o)'
  BY DEF AllAgree
<1>1. \A o \in Orgs : Agrees(S, x, o)
  BY DEF AllAgree
<1>2. CASE x = u
  BY <1>1, <1>2, Moved
<1>3. CASE x # u
  BY <1>1, <1>3, Unmoved
<1> QED
  BY <1>2, <1>3

\* Every transaction leaves an event for what it changes, unless it relied on a
\* current organisation that was no longer the current one.
LEMMA AgreeStep ==
    ASSUME MemberInv, MemberStep, NEW S, AllAgree(S)
    PROVE  AllAgree(S)'
<1>1. MembershipTypeOK /\ AbsentHaveNone
  BY DEF MemberInv
<1>2. \A r \in Requests : req[r] # Idle => req[r] \in Request
  BY <1>1, CallType
<1> USE DEF rows, bindings, Called
<1>3. ASSUME UNCHANGED <<account, current, events>>, stale \subseteq stale'
      PROVE  AllAgree(S)'
  BY <1>3, Unmoved DEF AllAgree
<1>4. ASSUME NEW u \in Users, NEW remove, Emit(u, remove), stale \subseteq stale',
             \A x \in Users : x # u => account'[x] = account[x] /\ current'[x] = current[x],
             \/ <<"current", u>> \in stale'
             \/ current'[u] = current[u]
             \/ current[u] \notin Orgs
             \/ current[u] \in remove
      PROVE  AllAgree(S)'
  <2>1. PICK e \in events' : /\ events' = events \cup {e} /\ e.user = u
                             /\ e.remove = remove \ {NoOrg} /\ ~e.deleted
    BY <1>4, EmitIs
  <2>2. current[u] \in Orgs /\ current[u] \in remove => current[u] \in e.remove
    BY <2>1
  <2> QED
    BY <1>4, <2>1, <2>2, EmitAgrees
<1>5. ASSUME NEW r \in Requests, NEW u \in Users, u = req[r].user, Register(r)
      PROVE  AllAgree(S)'
  <2>1. /\ account[u] = "none" /\ stale \subseteq stale' /\ Emit(u, {})
        /\ account' = [account EXCEPT ![u] = "active"]
        /\ current' = [current EXCEPT ![u] = req[r].org]
    BY <1>5 DEF Register, MarksBoth
  <2>2. current[u] \notin Orgs
    BY <1>1, <2>1 DEF AbsentHaveNone
  <2>3. \A x \in Users : x # u => account'[x] = account[x] /\ current'[x] = current[x]
    BY <1>1, <2>1 DEF MembershipTypeOK
  <2> QED
    BY <1>4, <2>1, <2>2, <2>3
<1>6. ASSUME NEW r \in Requests, NEW u \in Users, NEW o \in Orgs, u = req[r].user,
             o = req[r].org, CreateOrg(r) \/ SetCurrentOrg(r) \/ JoinOrgByInviteCode(r)
      PROVE  AllAgree(S)'
  <2>1. MoveTo(u, o) /\ Emit(u, {req[r].old, o}) /\ account' = account
    BY <1>6 DEF CreateOrg, SetCurrentOrg, JoinOrgByInviteCode
  <2>2. stale \subseteq stale' /\ (<<"current", u>> \in stale' \/ req[r].old = current[u])
    BY <1>6 DEF CreateOrg, SetCurrentOrg, JoinOrgByInviteCode, Marks
  <2>3. \A x \in Users : x # u => account'[x] = account[x] /\ current'[x] = current[x]
    BY <1>1, <2>1, MoveToMoves
  <2>4. <<"current", u>> \in stale' \/ current[u] \in {req[r].old, o}
    BY <2>2
  <2> QED
    BY <1>4, <2>1, <2>2, <2>3, <2>4
<1>7. ASSUME NEW r \in Requests, NEW u \in Users, NEW o \in Orgs, u = req[r].user,
             o = req[r].org, LeaveOrg(r)
      PROVE  AllAgree(S)'
  <2>1. /\ Emit(u, {o}) /\ account' = account /\ stale \subseteq stale'
        /\ <<"current", u>> \in stale' \/ req[r].old = current[u]
        /\ IF req[r].old = o THEN MoveTo(u, req[r].pick) ELSE UNCHANGED current
    BY <1>7 DEF LeaveOrg, Leaves, Marks
  <2>2. \A x \in Users : x # u => account'[x] = account[x] /\ current'[x] = current[x]
    BY <1>1, <2>1, MoveToMoves
  <2>3. \/ <<"current", u>> \in stale' \/ current'[u] = current[u] \/ current[u] \in {o}
    BY <2>1
  <2> QED
    BY <1>4, <2>1, <2>2, <2>3
<1>8. ASSUME NEW r \in Requests, NEW u \in Users, u = req[r].user, RecoverMember(r)
      PROVE  AllAgree(S)'
  <2>1. CASE member[u, req[r].org] = "active"
    BY <1>3, <1>8, <2>1 DEF RecoverMember
  <2>2. CASE member[u, req[r].org] # "active"
    <3>1. /\ Emit(u, {req[r].org}) /\ UNCHANGED <<account, current>> /\ stale \subseteq stale'
      BY <1>8, <2>2 DEF RecoverMember, MarksBoth
    <3> QED
      BY <1>4, <3>1
  <2> QED
    BY <2>1, <2>2
<1>9. ASSUME NEW r \in Requests, NEW o \in Orgs, o = req[r].org, DeleteOrg(r)
      PROVE  AllAgree(S)'
  <2>1. /\ account' = account
        /\ current' = [x \in Users |-> IF current[x] = o THEN NoOrg ELSE current[x]]
        /\ events' = events \cup [user : req[r].seen, remove : {{o}}, deleted : {FALSE}]
        /\ stale' = stale \cup ({"current"} \X {x \in Users : current[x] = o /\ x \notin req[r].seen})
    BY <1>9 DEF DeleteOrg, DissolveOrg
  <2> SUFFICES ASSUME NEW x \in Users, <<"current", x>> \notin stale'
               PROVE  \A y \in Orgs : Agrees(S, x, y)'
    BY DEF AllAgree
  <2>2. \A y \in Orgs : Agrees(S, x, y)
    BY <2>1 DEF AllAgree
  <2>3. CASE current[x] = o
    <3>1. x \in req[r].seen
      BY <2>1, <2>3
    <3> DEFINE e == [user |-> x, remove |-> {o}, deleted |-> FALSE]
    <3>2. e \in events' /\ e.user = x /\ ~e.deleted /\ current[x] \in e.remove
      BY <2>1, <2>3, <3>1
    <3> HIDE DEF e
    <3> QED
      BY <2>1, <2>2, <3>2, Moved
  <2>4. CASE current[x] # o
    BY <2>1, <2>2, <2>4, Unmoved
  <2> QED
    BY <2>3, <2>4
<1>10. ASSUME NEW r \in Requests, NEW u \in Users, u = req[r].user, CleanupDisabledUser(r)
       PROVE  AllAgree(S)'
  <2> DEFINE e == [user |-> u, remove |-> (req[r].seen \cup {req[r].old}) \ {NoOrg},
                   deleted |-> TRUE]
  <2>1. /\ events' = events \cup {e} /\ stale \subseteq stale'
        /\ account' = [account EXCEPT ![u] = "deleted"]
        /\ current' = [current EXCEPT ![u] = NoOrg]
        /\ <<"current", u>> \in stale' \/ req[r].old = current[u]
    BY <1>10 DEF CleanupDisabledUser, RemoveAccount, Marks
  <2>2. /\ e.user = u /\ account'[u] # "active"
        /\ req[r].old = NoOrg \/ req[r].old \in e.remove
    BY <1>1, <2>1 DEF MembershipTypeOK
  <2>3. \A x \in Users : x # u => account'[x] = account[x] /\ current'[x] = current[x]
    BY <1>1, <2>1 DEF MembershipTypeOK
  <2> HIDE DEF e
  <2>4. <<"current", u>> \in stale' \/ current[u] \notin Orgs \/ current[u] \in e.remove
    BY <2>1, <2>2
  <2> QED
    BY <2>1, <2>2, <2>3, <2>4, EmitAgrees
<1>11. ASSUME NEW u \in Users, ApplyUserStatus(u)
       PROVE  AllAgree(S)'
  <2>1. /\ Emit(u, {}) /\ UNCHANGED <<current, stale>>
        /\ \E status : account' = [account EXCEPT ![u] = status]
    BY <1>11 DEF ApplyUserStatus
  <2>2. \A x \in Users : x # u => account'[x] = account[x]
    BY <1>1, <2>1 DEF MembershipTypeOK
  <2> QED
    BY <1>4, <2>1, <2>2
<1>12. ASSUME NEW r \in Requests, ReadForLeave(r) \/ AssignRole(r) \/ Abort(r)
       PROVE  AllAgree(S)'
  BY <1>3, <1>12 DEF ReadForLeave, AssignRole, Marks, Abort
<1>13. CASE \/ \E p \in Pairs : ProjectBinding(p)
            \/ \E r \in Requests, op \in Ops, u \in Users, o \in Orgs : Begin(r, op, u, o)
  BY <1>3, <1>13 DEF ProjectBinding, Begin
<1>15. ASSUME NEW r \in Requests, NEW u \in Users, u = req[r].user, SaveUser(r)
       PROVE  AllAgree(S)'
  <2>1. /\ account' = [account EXCEPT ![u] = req[r].was] /\ stale \subseteq stale'
        /\ current' = [current EXCEPT ![u] = req[r].old]
        /\ <<"current", u>> \in stale' \/ (account[u] = req[r].was /\ current[u] = req[r].old)
    BY <1>15 DEF SaveUser, Marks
  <2>2. \A x \in Users : x # u => account'[x] = account[x] /\ current'[x] = current[x]
    BY <1>1, <2>1 DEF MembershipTypeOK
  <2>3. \/ <<"current", u>> \in stale'
        \/ account'[u] = account[u] /\ current'[u] = current[u]
    BY <1>1, <2>1 DEF MembershipTypeOK
  <2>4. CASE Emit(u, {})
    BY <1>4, <2>1, <2>2, <2>3, <2>4
  <2>5. CASE events' = events
    BY <2>1, <2>2, <2>3, <2>5, Unmoved DEF AllAgree
  <2> QED
    BY <1>15, <2>4, <2>5 DEF SaveUser
<1>14. ASSUME NEW r \in Requests, Commit(r)
       PROVE  AllAgree(S)'
  <2>1. PICK u \in Users, o \in Orgs : u = req[r].user /\ o = req[r].org
    BY <1>2, <1>14 DEF Commit, Register, CreateOrg, SetCurrentOrg, JoinOrgByInviteCode,
       ReadForLeave, LeaveOrg, RecoverMember, AssignRole, DeleteOrg, CleanupDisabledUser,
       SaveUser, Abort, Request
  <2> QED
    BY <1>5, <1>6, <1>7, <1>8, <1>9, <1>10, <1>12, <1>14, <1>15, <2>1 DEF Commit
<1> QED
  BY <1>11, <1>13, <1>14 DEF MemberStep

-----------------------------------------------------------------------------
(* The runs of the consumers.                                                  *)

\* What a projection of item makes of user x's place in o, was being what it is.
Placed(item, remove, o, was) ==
    \/ item # Gone /\ item.active /\ item.current = o
    \/ was /\ o \notin remove /\ (item = Gone \/ item.current # o)

\* The outcome of a run, user by user.
OutcomeIs(c, S) ==
    \A x \in Users, o \in Orgs :
        <<x, o>> \in S <=>
            IF x = task[c].user THEN Placed(task[c].item, task[c].remove, o, <<x, o>> \in ranked)
            ELSE IF x \in DOMAIN task[c].rest
                 THEN Placed(task[c].rest[x], {}, o, <<x, o>> \in ranked)
            ELSE <<x, o>> \in ranked

\* Outcome says just that, before a step and after it.
LEMMA OutcomeIsPlaced ==
    \A c \in Consumers : /\ ranked \subseteq Pairs => OutcomeIs(c, Outcome(c))
                         /\ ranked' \subseteq Pairs => OutcomeIs(c, Outcome(c))'
<1> SUFFICES ASSUME NEW c \in Consumers
             PROVE  /\ ranked \subseteq Pairs => OutcomeIs(c, Outcome(c))
                    /\ ranked' \subseteq Pairs => OutcomeIs(c, Outcome(c))'
  OBVIOUS
<1>1. ranked \subseteq Pairs => OutcomeIs(c, Outcome(c))
  <2> SUFFICES ASSUME ranked \subseteq Pairs, NEW x \in Users, NEW o \in Orgs
               PROVE  <<x, o>> \in Outcome(c) <=>
                         IF x = task[c].user
                         THEN Placed(task[c].item, task[c].remove, o, <<x, o>> \in ranked)
                         ELSE IF x \in DOMAIN task[c].rest
                              THEN Placed(task[c].rest[x], {}, o, <<x, o>> \in ranked)
                         ELSE <<x, o>> \in ranked
    BY DEF OutcomeIs
  <2>1. <<x, o>> \in Pairs /\ <<x, o>>[1] = x
    BY DEF Pairs
  <2>2. \A item, remove : <<x, o>> \in RanksOf(x, item, remove)
                             <=> Placed(item, remove, o, <<x, o>> \in ranked)
    BY InRanks DEF Placed
  <2> QED
    BY <2>1, <2>2 DEF Outcome
<1>2. (ranked \subseteq Pairs => OutcomeIs(c, Outcome(c)))'
  BY <1>1, PTL
<1> QED
  BY <1>1, <1>2

\* Where rankings are as the rows say, nothing is left to be done.
LEMMA RowsAgree ==
    ASSUME NEW S, \A x \in Users, o \in Orgs : <<x, o>> \in S <=> Belongs(x, o)'
    PROVE  AllAgree(S)'
BY DEF AllAgree, Agrees

\* A handler has read the user's row: what it will write agrees without its event.
LEMMA TakeAgrees ==
    ASSUME TypeOK, TypeOK', MemberInv, DeletionsAreTrue, AllAgree(ranked),
           NEW c \in Consumers, NEW e \in events, TakeEvent(c, e), NEW S, S = Outcome(c)'
    PROVE  AllAgree(S)'
<1> SUFFICES ASSUME NEW x \in Users, <<"current", x>> \notin stale', NEW o \in Orgs
             PROVE  Agrees(S, x, o)'
  BY DEF AllAgree
<1>1. MembershipTypeOK /\ AbsentHaveNone /\ ranked' \subseteq Pairs
  BY DEF MemberInv, TypeOK
<1>2. /\ UNCHANGED <<account, current, stale, ranked>> /\ events' = events \ {e}
      /\ task' = [task EXCEPT ![c] =
            [pc |-> "write", user |-> e.user, remove |-> e.remove,
             item |-> IF e.deleted THEN Gone ELSE Row(e.user), rest |-> NoRest]]
  BY DEF TakeEvent, rows
<1>3. /\ task'[c].user = e.user /\ task'[c].remove = e.remove
      /\ task'[c].item = (IF e.deleted THEN Gone ELSE Row(e.user))
      /\ DOMAIN task'[c].rest = {}
  BY <1>2 DEF TypeOK, NoRest
<1>4. OutcomeIs(c, Outcome(c))'
  BY <1>1, OutcomeIsPlaced
<1>5. <<x, o>> \in S <=> IF x = e.user
                         THEN Placed(IF e.deleted THEN Gone ELSE Row(x), e.remove, o,
                                     <<x, o>> \in ranked)
                         ELSE <<x, o>> \in ranked
  BY <1>2, <1>3, <1>4 DEF OutcomeIs
<1>6. Agrees(ranked, x, o) /\ (Belongs(x, o)' <=> Belongs(x, o))
  BY <1>2 DEF AllAgree, Belongs
<1>7. CASE x # e.user
  <2>1. /\ ReadsRow(x) => ReadsRow(x)'
        /\ TakesOut(x, o) => TakesOut(x, o)'
    BY <1>2, <1>7 DEF ReadsRow, TakesOut
  <2> QED
    BY <1>2, <1>5, <1>6, <1>7, <2>1 DEF Agrees
<1>8. CASE x = e.user
  <2>1. TakesOut(x, o) /\ o \notin e.remove => TakesOut(x, o)'
    BY <1>2, <1>8 DEF TakesOut
  <2>2. CASE e.deleted \/ account[x] \notin {"active", "disabled"}
    <3>1. (IF e.deleted THEN Gone ELSE Row(x)) = Gone
      BY <1>1, <2>2, RowIs
    <3>2. account[x] \in {"none", "deleted"}
      BY <1>1, <1>2, <1>8, <2>2 DEF DeletionsAreTrue, MembershipTypeOK, Statuses
    <3>3. ~Belongs(x, o) /\ current[x] # o
      BY <1>1, <3>2 DEF Belongs, AbsentHaveNone
    <3>4. <<x, o>> \in S => <<x, o>> \in ranked /\ o \notin e.remove
      BY <1>5, <1>8, <3>1 DEF Placed
    <3>5. <<x, o>> \in S => TakesOut(x, o)'
      BY <1>6, <2>1, <3>3, <3>4 DEF Agrees
    <3> QED
      BY <1>6, <3>3, <3>5 DEF Agrees
  <2>3. CASE ~e.deleted /\ account[x] \in {"active", "disabled"}
    <3>1. /\ Row(x) # Gone /\ Row(x).current = current[x]
          /\ Row(x).active <=> account[x] = "active"
      BY <1>1, <2>3, RowIs
    <3>2. <<x, o>> \in S <=> \/ Belongs(x, o)
                             \/ <<x, o>> \in ranked /\ o \notin e.remove /\ current[x] # o
      BY <1>5, <1>8, <2>3, <3>1 DEF Placed, Belongs
    <3>3. <<x, o>> \in S /\ ~Belongs(x, o) => TakesOut(x, o)'
      BY <1>6, <2>1, <3>2 DEF Agrees
    <3> QED
      BY <1>6, <3>2, <3>3 DEF Agrees
  <2> QED
    BY <2>2, <2>3
<1> QED
  BY <1>7, <1>8

\* A write brings the rankings nearer to the outcome of the run and does not change it.
LEMMA WriteAgrees ==
    ASSUME TypeOK, TypeOK', OncePerUser, NEW c \in Consumers, WriteProjection(c)
    PROVE  /\ Working(c)
           /\ \/ task'[c] = NoTask /\ OutcomeIs(c, ranked')
              \/ /\ Working(c)' /\ task'[c].user \notin DOMAIN task'[c].rest
                 /\ \A S : OutcomeIs(c, S)' => OutcomeIs(c, S)
<1>1. /\ ranked \subseteq Pairs /\ task[c].pc = "write"
      /\ ranked' = RanksOf(task[c].user, task[c].item, task[c].remove)
      /\ task' = [task EXCEPT ![c] = Following(task[c].rest)]
  BY DEF WriteProjection, Ranked, TypeOK
<1>2. /\ task[c].user \in Users /\ task[c].rest \in Rests
      /\ task[c].user \notin DOMAIN task[c].rest
  BY <1>1, TaskType, RestType DEF Working, OncePerUser, Tasks, NoTask, Cleared
<1>3. task'[c] = Following(task[c].rest)
  BY <1>1 DEF TypeOK
<1>4. \A x \in Users, o \in Orgs :
         <<x, o>> \in ranked' <=> IF x = task[c].user
                                  THEN Placed(task[c].item, task[c].remove, o, <<x, o>> \in ranked)
                                  ELSE <<x, o>> \in ranked
  <2>1. ASSUME NEW u \in Users, NEW item, NEW remove, NEW x \in Users, NEW o \in Orgs
        PROVE  <<x, o>> \in RanksOf(u, item, remove) <=>
                  IF x = u THEN Placed(item, remove, o, <<x, o>> \in ranked)
                  ELSE <<x, o>> \in ranked
    <3>1. ranked \subseteq Pairs
      BY <1>1
    <3>2. <<x, o>> \in RanksOf(u, item, remove) <=>
             \/ x = u /\ item # Gone /\ item.active /\ item.current = o
             \/ <<x, o>> \in ranked
                /\ (x = u => o \notin remove /\ (item = Gone \/ item.current # o))
      BY <3>1, InRanks
    <3> QED
      BY <3>2 DEF Placed
  <2> QED
    BY <1>1, <1>2, <2>1
<1>5. CASE DOMAIN task[c].rest = {}
  <2>1. task'[c] = NoTask
    BY <1>2, <1>3, <1>5, FollowingIs
  <2>2. OutcomeIs(c, ranked')
    BY <1>4, <1>5 DEF OutcomeIs
  <2> QED
    BY <1>1, <2>1, <2>2 DEF Working
<1>6. CASE DOMAIN task[c].rest # {}
  <2>1. PICK u \in DOMAIN task[c].rest :
           /\ task'[c].pc = "write" /\ task'[c].user = u
           /\ task'[c].remove = {} /\ task'[c].item = task[c].rest[u]
           /\ task'[c].rest = [v \in DOMAIN task[c].rest \ {u} |-> task[c].rest[v]]
    BY <1>2, <1>3, <1>6, FollowingIs
  <2>2. /\ DOMAIN task'[c].rest = DOMAIN task[c].rest \ {u}
        /\ \A v \in DOMAIN task[c].rest \ {u} : task'[c].rest[v] = task[c].rest[v]
    BY <2>1
  <2>3. ASSUME NEW S, OutcomeIs(c, S)'
        PROVE  OutcomeIs(c, S)
    <3> SUFFICES ASSUME NEW x \in Users, NEW o \in Orgs
                 PROVE  <<x, o>> \in S <=>
                           IF x = task[c].user
                           THEN Placed(task[c].item, task[c].remove, o, <<x, o>> \in ranked)
                           ELSE IF x \in DOMAIN task[c].rest
                                THEN Placed(task[c].rest[x], {}, o, <<x, o>> \in ranked)
                           ELSE <<x, o>> \in ranked
      BY DEF OutcomeIs
    <3>1. <<x, o>> \in S <=>
             IF x = u THEN Placed(task[c].rest[u], {}, o, <<x, o>> \in ranked')
             ELSE IF x \in DOMAIN task[c].rest \ {u}
                  THEN Placed(task'[c].rest[x], {}, o, <<x, o>> \in ranked')
             ELSE <<x, o>> \in ranked'
      BY <2>1, <2>2, <2>3 DEF OutcomeIs
    <3>2. CASE x = u
      BY <1>2, <1>4, <2>1, <3>1, <3>2
    <3>3. CASE x # u /\ x \in DOMAIN task[c].rest
      BY <1>2, <1>4, <2>2, <3>1, <3>3
    <3>4. CASE x # u /\ x \notin DOMAIN task[c].rest
      BY <1>4, <3>1, <3>4
    <3> QED
      BY <3>2, <3>3, <3>4
  <2>4. Working(c)' /\ task'[c].user \notin DOMAIN task'[c].rest
    BY <2>1, <2>2 DEF Working
  <2> QED
    BY <1>1, <2>3, <2>4 DEF Working
<1> QED
  BY <1>5, <1>6

\* A rebuild that has listed the users will write what their rows say.
LEMMA ListIsRows ==
    ASSUME TypeOK, TypeOK', NEW c \in Consumers, ListAll(c)
    PROVE  \/ task'[c] = NoTask /\ \A x \in Users, o \in Orgs : ~Belongs(x, o)
           \/ /\ Working(c)' /\ task'[c].user \notin DOMAIN task'[c].rest
              /\ \A S : ranked = {} /\ OutcomeIs(c, S)' =>
                    \A x \in Users, o \in Orgs : <<x, o>> \in S <=> Belongs(x, o)
<1> DEFINE list == [u \in {v \in Users : Row(v) # Gone} |-> Row(u)]
<1>1. MembershipTypeOK
  BY DEF TypeOK
<1>2. list \in Rests /\ DOMAIN list = {v \in Users : Row(v) # Gone}
  BY <1>1, RowIs, RestType
<1>3. task'[c] = Following(list) /\ ranked' = ranked
  BY DEF ListAll, TypeOK
<1>4. \A x \in Users, o \in Orgs :
         Belongs(x, o) <=> Row(x) # Gone /\ Row(x).active /\ Row(x).current = o
  BY <1>1, RowIs DEF Belongs
<1>5. \A x \in DOMAIN list : list[x] = Row(x)
  OBVIOUS
<1> HIDE DEF list
<1>6. CASE DOMAIN list = {}
  BY <1>2, <1>3, <1>4, <1>6, FollowingIs
<1>7. CASE DOMAIN list # {}
  <2>1. PICK u \in DOMAIN list :
           /\ task'[c].pc = "write" /\ task'[c].user = u
           /\ task'[c].remove = {} /\ task'[c].item = list[u]
           /\ task'[c].rest = [v \in DOMAIN list \ {u} |-> list[v]]
    BY <1>2, <1>3, <1>7, FollowingIs
  <2>2. /\ DOMAIN task'[c].rest = DOMAIN list \ {u}
        /\ \A v \in DOMAIN list \ {u} : task'[c].rest[v] = list[v]
    BY <2>1
  <2>3. ASSUME NEW S, ranked = {}, OutcomeIs(c, S)', NEW x \in Users, NEW o \in Orgs
        PROVE  <<x, o>> \in S <=> Belongs(x, o)
    <3>1. <<x, o>> \in S <=>
             IF x = u THEN Placed(list[u], {}, o, <<x, o>> \in ranked')
             ELSE IF x \in DOMAIN list \ {u}
                  THEN Placed(task'[c].rest[x], {}, o, <<x, o>> \in ranked')
             ELSE <<x, o>> \in ranked'
      BY <2>1, <2>2, <2>3 DEF OutcomeIs
    <3>2. CASE x \in DOMAIN list
      <4>1. <<x, o>> \in S <=> Placed(Row(x), {}, o, FALSE)
        BY <1>3, <1>5, <2>2, <2>3, <3>1, <3>2 DEF Placed
      <4> QED
        BY <1>2, <1>4, <3>2, <4>1 DEF Placed
    <3>3. CASE x \notin DOMAIN list
      BY <1>2, <1>3, <1>4, <2>3, <3>1, <3>3
    <3> QED
      BY <3>2, <3>3
  <2>4. Working(c)' /\ task'[c].user \notin DOMAIN task'[c].rest
    BY <2>1, <2>2 DEF Working
  <2> QED
    BY <2>3, <2>4
<1> QED
  BY <1>6, <1>7

\* Two names for the same outcome agree with the rows alike.
LEMMA SameOutcome ==
    /\ \A S, T : (\A x \in Users, o \in Orgs : <<x, o>> \in S <=> <<x, o>> \in T)
                    => (AllAgree(S) => AllAgree(T))
    /\ \A c \in Consumers : \A S, T : OutcomeIs(c, S) /\ OutcomeIs(c, T)
          => \A x \in Users, o \in Orgs : <<x, o>> \in S <=> <<x, o>> \in T
<1>1. ASSUME NEW S, NEW T, AllAgree(S),
             \A x \in Users, o \in Orgs : <<x, o>> \in S <=> <<x, o>> \in T
      PROVE  AllAgree(T)
  BY <1>1 DEF AllAgree, Agrees
<1>2. ASSUME NEW c \in Consumers, NEW S, NEW T, OutcomeIs(c, S), OutcomeIs(c, T),
             NEW x \in Users, NEW o \in Orgs
      PROVE  <<x, o>> \in S <=> <<x, o>> \in T
  BY <1>2 DEF OutcomeIs
<1> QED
  BY <1>1, <1>2

\* Every step of the whole keeps the types.
LEMMA TypeStep == TypeOK /\ MemberInv /\ [Next]_vars => TypeOK' /\ MemberInv'
<1> SUFFICES ASSUME TypeOK, MemberInv, [Next]_vars PROVE TypeOK' /\ MemberInv'
  OBVIOUS
<1>1. MemberInv' /\ MembershipTypeOK'
  BY MemberInvariance DEF MemberInv
<1>2. CASE UNCHANGED cacheVars
  BY <1>1, <1>2 DEF cacheVars, TypeOK
<1>3. CASE CacheStep
  BY <1>1, <1>3, CacheTypeStep
<1> QED
  BY <1>1, <1>2, <1>3, StepSplits DEF vars

\* Working on a write is being neither idle nor about to list the users.
LEMMA WorkingIs ==
    /\ TypeOK => \A c \in Consumers : Working(c) <=> task[c] # NoTask /\ task[c] # Cleared
    /\ TypeOK' => \A c \in Consumers : (Working(c) <=> task[c] # NoTask /\ task[c] # Cleared)'
<1>1. TypeOK => \A c \in Consumers : Working(c) <=> task[c] # NoTask /\ task[c] # Cleared
  BY TaskType
<1>2. (TypeOK => \A c \in Consumers : Working(c) <=> task[c] # NoTask /\ task[c] # Cleared)'
  BY <1>1, PTL
<1> QED
  BY <1>1, <1>2

\* A step that changes nothing the rankings depend on.
LEMMA RankKeeps ==
    ASSUME RanksAreComing, OncePerUser,
           UNCHANGED <<account, current, stale, events, task, ranked, crossed, lost>>
    PROVE  RanksAreComing' /\ OncePerUser'
<1>1. /\ OneRun' <=> OneRun
      /\ Busy' <=> Busy
      /\ \A c \in Consumers : Working(c)' <=> Working(c)
  BY DEF OneRun, Busy, Working
<1>2. AllAgree(ranked) => AllAgree(ranked)'
  BY DEF AllAgree, Agrees, Belongs, ReadsRow, TakesOut
<1>3. ASSUME NEW c \in Consumers, AllAgree(Outcome(c))
      PROVE  AllAgree(Outcome(c))'
  <2>1. PICK S : S = Outcome(c)
    OBVIOUS
  <2>2. S = Outcome(c)'
    BY <2>1 DEF Outcome, RanksOf
  <2>3. AllAgree(S)'
    BY <1>3, <2>1 DEF AllAgree, Agrees, Belongs, ReadsRow, TakesOut
  <2> QED
    BY <2>2, <2>3 DEF AllAgree, Agrees
<1>4. OncePerUser'
  BY <1>1 DEF OncePerUser
<1> QED
  BY <1>1, <1>2, <1>3, <1>4 DEF RanksAreComing

\* Every step keeps the rankings on their way.
LEMMA RankStep == RankInv /\ [Next]_vars => RankInv'
<1> SUFFICES ASSUME RankInv, [Next]_vars PROVE RankInv'
  OBVIOUS
<1>1. /\ TypeOK /\ MemberInv /\ DeletionsAreTrue /\ OncePerUser /\ RanksAreComing
      /\ TypeOK' /\ MemberInv' /\ MembershipTypeOK
  BY TypeStep DEF RankInv, TypeOK
<1>2. /\ ranked \subseteq Pairs /\ ranked' \subseteq Pairs
      /\ \A c \in Consumers : Working(c) <=> task[c] # NoTask /\ task[c] # Cleared
      /\ \A c \in Consumers : (Working(c) <=> task[c] # NoTask /\ task[c] # Cleared)'
  BY <1>1, WorkingIs DEF TypeOK
<1>3. ASSUME NEW c \in Consumers, NEW v, task' = [task EXCEPT ![c] = v]
      PROVE  task'[c] = v /\ \A d \in Consumers : d # c => task'[d] = task[d]
  BY <1>1, <1>3 DEF TypeOK
<1> DEFINE Coming == DeletionsAreTrue' /\ OncePerUser' /\ RanksAreComing'
<1> SUFFICES Coming
  BY <1>1 DEF RankInv
<1>4. ASSUME UNCHANGED <<account, current, stale>>, events' \subseteq events
      PROVE  /\ DeletionsAreTrue'
             /\ events' = events => \A S : AllAgree(S) => AllAgree(S)'
             /\ \A x \in Users, o \in Orgs : Belongs(x, o)' <=> Belongs(x, o)
  BY <1>1, <1>4 DEF DeletionsAreTrue, AllAgree, Agrees, Belongs, ReadsRow, TakesOut
<1>5. /\ \A S : S = ranked' /\ AllAgree(S)' => AllAgree(ranked)'
      /\ \A c \in Consumers : \A S : S = Outcome(c)' /\ AllAgree(S)' => AllAgree(Outcome(c))'
      /\ \A c \in Consumers : \A S : S = Outcome(c)' => OutcomeIs(c, S)'
  BY <1>2, OutcomeIsPlaced DEF AllAgree, Agrees, OutcomeIs
<1>6. CASE MemberStep /\ UNCHANGED cacheVars
  <2>1. DeletionsAreTrue'
    BY <1>1, <1>6, DeletionsStep
  <2>2. UNCHANGED <<task, ranked, crossed, lost>>
    BY <1>6 DEF cacheVars
  <2>3. OncePerUser'
    BY <1>1, <2>2 DEF OncePerUser, Working
  <2>4. ASSUME ~crossed, ~lost
        PROVE  RanksAreComing'
    <3>1. ~Busy => AllAgree(ranked)'
      <4>1. PICK S : S = ranked
        OBVIOUS
      <4>2. ~Busy => AllAgree(S)'
        BY <1>1, <1>6, <2>4, <4>1, AgreeStep DEF RanksAreComing
      <4> QED
        BY <1>5, <2>2, <4>1, <4>2
    <3>2. ASSUME NEW c \in Consumers, Working(c)
          PROVE  AllAgree(Outcome(c))'
      <4>1. PICK S : S = Outcome(c)
        OBVIOUS
      <4>2. AllAgree(S)'
        BY <1>1, <1>6, <2>4, <3>2, <4>1, AgreeStep DEF RanksAreComing
      <4>3. S = Outcome(c)'
        BY <2>2, <4>1 DEF Outcome, RanksOf
      <4> QED
        BY <1>5, <4>2, <4>3
    <3>3. /\ OneRun' <=> OneRun
          /\ Busy' <=> Busy
          /\ \A c \in Consumers : Working(c)' <=> Working(c)
      BY <2>2 DEF OneRun, Busy, Working
    <3> QED
      BY <1>1, <2>2, <2>4, <3>1, <3>2, <3>3 DEF RanksAreComing
  <2>5. RanksAreComing'
    BY <2>2, <2>4 DEF RanksAreComing
  <2> QED
    BY <2>1, <2>3, <2>5
<1>7. ASSUME NEW c \in Consumers, NEW e \in events, TakeEvent(c, e)
      PROVE  Coming
  <2>1. /\ UNCHANGED <<account, current, stale, ranked, lost>> /\ events' \subseteq events
        /\ task[c] = NoTask /\ crossed' = (crossed \/ Busy)
        /\ task' = [task EXCEPT ![c] =
              [pc |-> "write", user |-> e.user, remove |-> e.remove,
               item |-> IF e.deleted THEN Gone ELSE Row(e.user), rest |-> NoRest]]
    BY <1>7 DEF TakeEvent, rows
  <2>2. /\ task'[c].pc = "write" /\ DOMAIN task'[c].rest = {}
        /\ \A d \in Consumers : d # c => task'[d] = task[d]
    <3>1. DOMAIN NoRest = {}
      BY DEF NoRest
    <3>2. DOMAIN task = Consumers
      BY <1>1 DEF TypeOK
    <3> QED
      BY <2>1, <3>1, <3>2
  <2>3. OncePerUser'
    BY <1>1, <2>2 DEF OncePerUser, Working
  <2>4. ASSUME ~crossed', ~lost'
        PROVE  RanksAreComing'
    <3>1. ~crossed /\ ~lost /\ \A d \in Consumers : task[d] = NoTask
      BY <2>1, <2>4 DEF Busy
    <3>2. \A d \in Consumers : (d # c => task'[d] = NoTask) /\ (Working(d)' => d = c)
      BY <1>2, <2>2, <3>1
    <3>3. Working(c)' /\ task'[c] # NoTask /\ task'[c] # Cleared
      BY <1>2, <2>2 DEF Working
    <3>4. AllAgree(ranked)
      BY <1>1, <3>1 DEF RanksAreComing, Busy
    <3>5. PICK S : S = Outcome(c)'
      OBVIOUS
    <3>6. AllAgree(Outcome(c))'
      BY <1>1, <1>5, <1>7, <3>4, <3>5, TakeAgrees
    <3>7. OneRun' /\ Busy' /\ \A d \in Consumers : task'[d] # Cleared
      BY <3>2, <3>3 DEF OneRun, Busy, NoTask, Cleared
    <3> QED
      BY <3>2, <3>6, <3>7 DEF RanksAreComing
  <2>5. RanksAreComing'
    BY <2>4 DEF RanksAreComing
  <2> QED
    BY <1>4, <2>1, <2>3, <2>5
<1>8. ASSUME NEW c \in Consumers, WriteProjection(c)
      PROVE  Coming
  <2>1. /\ UNCHANGED <<account, current, stale, events, crossed, lost>>
        /\ \A d \in Consumers : d # c => task'[d] = task[d]
    BY <1>3, <1>8 DEF WriteProjection, memberVars, rows
  <2>2. /\ Working(c)
        /\ \/ task'[c] = NoTask /\ OutcomeIs(c, ranked')
           \/ /\ Working(c)' /\ task'[c].user \notin DOMAIN task'[c].rest
              /\ \A S : OutcomeIs(c, S)' => OutcomeIs(c, S)
    BY <1>1, <1>8, WriteAgrees
  <2>3. OncePerUser'
    BY <1>1, <1>2, <2>1, <2>2 DEF OncePerUser, Working
  <2>4. ASSUME ~crossed, ~lost
        PROVE  RanksAreComing'
    <3>1. \A d \in Consumers : d # c => task[d] = NoTask /\ task'[d] = NoTask /\ ~Working(d)'
      BY <1>1, <1>2, <2>1, <2>2, <2>4 DEF RanksAreComing, OneRun
    <3>2. PICK T : T = Outcome(c)
      OBVIOUS
    <3>3. AllAgree(T) /\ OutcomeIs(c, T)
      BY <1>1, <1>2, <2>2, <2>4, <3>2, OutcomeIsPlaced DEF RanksAreComing
    <3>4. CASE task'[c] = NoTask /\ OutcomeIs(c, ranked')
      <4>1. PICK S : S = ranked'
        OBVIOUS
      <4>2. AllAgree(S)'
        BY <1>4, <2>1, <3>3, <3>4, <4>1, SameOutcome
      <4>3. ~Busy' /\ OneRun' /\ \A d \in Consumers : task'[d] = NoTask /\ ~Working(d)'
        BY <1>2, <3>1, <3>4 DEF Busy, OneRun
      <4> QED
        BY <1>5, <4>1, <4>2, <4>3 DEF RanksAreComing, NoTask, Cleared
    <3>5. CASE Working(c)' /\ \A S : OutcomeIs(c, S)' => OutcomeIs(c, S)
      <4>1. PICK S : S = Outcome(c)'
        OBVIOUS
      <4>2. OutcomeIs(c, S)
        BY <1>5, <3>5, <4>1
      <4>3. AllAgree(S)'
        BY <1>4, <2>1, <3>3, <4>2, SameOutcome
      <4>4. Busy' /\ OneRun' /\ \A d \in Consumers : task'[d] # Cleared /\ (Working(d)' => d = c)
        BY <1>2, <3>1, <3>5 DEF Busy, OneRun, NoTask, Cleared
      <4> QED
        BY <1>5, <4>1, <4>3, <4>4 DEF RanksAreComing
    <3> QED
      BY <2>2, <3>4, <3>5
  <2>5. RanksAreComing'
    BY <2>1, <2>4 DEF RanksAreComing
  <2> QED
    BY <1>4, <2>1, <2>3, <2>5
<1>9. ASSUME NEW c \in Consumers, ListAll(c)
      PROVE  Coming
  <2>1. /\ UNCHANGED <<account, current, stale, events, ranked, crossed, lost>>
        /\ task[c] = Cleared
        /\ \A d \in Consumers : d # c => task'[d] = task[d]
    BY <1>3, <1>9 DEF ListAll, memberVars, rows
  <2>2. \/ task'[c] = NoTask /\ \A x \in Users, o \in Orgs : ~Belongs(x, o)
        \/ /\ Working(c)' /\ task'[c].user \notin DOMAIN task'[c].rest
           /\ \A S : ranked = {} /\ OutcomeIs(c, S)' =>
                 \A x \in Users, o \in Orgs : <<x, o>> \in S <=> Belongs(x, o)
    BY <1>1, <1>9, ListIsRows
  <2>3. OncePerUser'
    BY <1>1, <1>2, <2>1, <2>2 DEF OncePerUser, Working
  <2>4. ASSUME ~crossed, ~lost
        PROVE  RanksAreComing'
    <3>1. /\ ranked = {}
          /\ \A d \in Consumers : d # c => task'[d] = NoTask /\ ~Working(d)'
      BY <1>1, <1>2, <2>1, <2>4 DEF RanksAreComing, OneRun, NoTask, Cleared
    <3>2. \A x \in Users, o \in Orgs : Belongs(x, o)' <=> Belongs(x, o)
      BY <1>4, <2>1
    <3>3. CASE task'[c] = NoTask /\ \A x \in Users, o \in Orgs : ~Belongs(x, o)
      <4>1. PICK S : S = ranked'
        OBVIOUS
      <4>2. AllAgree(S)'
        BY <2>1, <3>1, <3>2, <3>3, <4>1, RowsAgree
      <4>3. ~Busy' /\ OneRun' /\ \A d \in Consumers : task'[d] = NoTask /\ ~Working(d)'
        BY <1>2, <3>1, <3>3 DEF Busy, OneRun
      <4> QED
        BY <1>5, <4>1, <4>2, <4>3 DEF RanksAreComing, NoTask, Cleared
    <3>4. CASE /\ Working(c)'
               /\ \A S : ranked = {} /\ OutcomeIs(c, S)' =>
                     \A x \in Users, o \in Orgs : <<x, o>> \in S <=> Belongs(x, o)
      <4>1. PICK S : S = Outcome(c)'
        OBVIOUS
      <4>2. AllAgree(S)'
        BY <1>5, <3>1, <3>2, <3>4, <4>1, RowsAgree
      <4>3. Busy' /\ OneRun' /\ \A d \in Consumers : task'[d] # Cleared /\ (Working(d)' => d = c)
        BY <1>2, <3>1, <3>4 DEF Busy, OneRun, NoTask, Cleared
      <4> QED
        BY <1>5, <4>1, <4>2, <4>3 DEF RanksAreComing
    <3> QED
      BY <2>2, <3>3, <3>4
  <2>5. RanksAreComing'
    BY <2>1, <2>4 DEF RanksAreComing
  <2> QED
    BY <1>4, <2>1, <2>3, <2>5
<1>10. ASSUME NEW c \in Consumers, RebuildClear(c)
       PROVE  Coming
  <2>1. /\ UNCHANGED <<account, current, stale, events, lost>> /\ crossed' = (crossed \/ Busy)
        /\ ranked' = {} /\ task'[c] = Cleared
        /\ \A d \in Consumers : d # c => task'[d] = task[d]
    BY <1>3, <1>10 DEF RebuildClear, rows
  <2>2. OncePerUser'
    BY <1>1, <1>2, <2>1 DEF OncePerUser, Working
  <2>3. ASSUME ~crossed', ~lost'
        PROVE  RanksAreComing'
    <3>1. \A d \in Consumers : task[d] = NoTask
      BY <2>1, <2>3 DEF Busy
    <3>2. OneRun' /\ Busy' /\ \A d \in Consumers : ~Working(d)'
      BY <1>2, <2>1, <3>1 DEF OneRun, Busy, NoTask, Cleared
    <3> QED
      BY <2>1, <3>2 DEF RanksAreComing
  <2>4. RanksAreComing'
    BY <2>3 DEF RanksAreComing
  <2> QED
    BY <1>4, <2>1, <2>2, <2>4
<1>11. ASSUME NEW c \in Consumers, BreakOff(c)
       PROVE  Coming
  <2>1. /\ UNCHANGED <<account, current, stale, events>> /\ lost'
        /\ task'[c] = NoTask
        /\ \A d \in Consumers : d # c => task'[d] = task[d]
    BY <1>3, <1>11 DEF BreakOff, rows
  <2>2. OncePerUser'
    BY <1>1, <1>2, <2>1 DEF OncePerUser, Working
  <2> QED
    BY <1>4, <2>1, <2>2 DEF RanksAreComing
<1>12. ASSUME UNCHANGED <<memberVars, ranked, task, crossed, lost>>
       PROVE  Coming
  BY <1>1, <1>4, <1>12, RankKeeps DEF memberVars, rows
<1> HIDE DEF Coming
<1>13. CASE CacheStep
  <2>1. CASE \/ \E v \in Visits : VisitFills(v) \/ \E u \in Users : VisitReads(v, u)
             \/ \E u \in Users : StateExpires(u)
    <3>1. UNCHANGED <<memberVars, ranked, task, crossed, lost>>
      BY <2>1 DEF VisitReads, VisitFills, StateExpires
    <3> QED
      BY <1>12, <3>1
  <2> QED
    BY <1>7, <1>8, <1>9, <1>10, <1>11, <1>13, <2>1 DEF CacheStep, Handles
<1>14. CASE UNCHANGED vars
  BY <1>12, <1>14 DEF vars, cacheVars
<1> QED
  BY <1>6, <1>13, <1>14, StepSplits

-----------------------------------------------------------------------------
(* The theorems.                                                               *)

\* Whoever has roles in an organisation, or is in it, is its member and the
\* organisation is there, unless a commit relied on what no longer held, or wrote it
\* back: what Register, CreateOrg, JoinOrgByInviteCode, RecoverMember and AssignRole
\* give, and what LeaveOrg, KickMember, DeleteOrg and CleanupDisabledUser take with
\* the membership; UpdateProfile, ChangePhone and ChangePassword save whole rows.
THEOREM RightsAreTheMembers == Spec => []RightsNeedMembership
<1>1. Init => MemberInv
  BY MemberInvariance DEF Init
<1>2. MemberInv => RightsNeedMembership
  BY DEF MemberInv
<1> QED
  BY <1>1, <1>2, MemberInvariance, PTL DEF Spec

\* Every transaction of orgSvc and userSvc that changes roles asks for the
\* projection of the pairs it touched, DeleteOrg apart.
THEOREM BindingsAreAskedFor == Spec => []BindingsFollowRoles
<1>1. Init => MemberInv
  BY MemberInvariance DEF Init
<1>2. MemberInv => BindingsFollowRoles
  BY DEF MemberInv
<1> QED
  BY <1>1, <1>2, MemberInvariance, PTL DEF Spec

\* When all events are handled a user is ranked in his current organisation and
\* nowhere else, whatever the order of transactions, events and rebuilds, unless
\* runs overlapped, one was lost, a commit relied on an organisation that was no
\* longer the current one, or the user's row was saved as it was before another
\* commit (projectUser, RebuildAll, UpdateProfile).
THEOREM RankingsFollow == Spec => []RankingFollows
<1>1. Init => RankInv
  <2> SUFFICES ASSUME Init PROVE RankInv
    OBVIOUS
  <2>1. MemberInv
    BY MemberInvariance DEF Init
  <2>2. TypeOK
    BY <2>1 DEF Init, TypeOK, MemberInv
  <2>3. /\ events = {} /\ ranked = {} /\ ~crossed /\ ~lost
        /\ account = [u \in Users |-> "none"] /\ task = [c \in Consumers |-> NoTask]
    BY DEF Init, MembershipInit
  <2>4. AllAgree(ranked)
    BY <2>3 DEF AllAgree, Agrees, Belongs
  <2>5. \A c \in Consumers : task[c] = NoTask /\ ~Working(c) /\ task[c] # Cleared
    BY <2>3 DEF Working, NoTask, Cleared
  <2>6. DeletionsAreTrue /\ OncePerUser /\ RanksAreComing
    BY <2>3, <2>4, <2>5 DEF DeletionsAreTrue, OncePerUser, RanksAreComing, OneRun
  <2> QED
    BY <2>1, <2>2, <2>6 DEF RankInv
<1>2. RankInv => RankingFollows
  <2> SUFFICES ASSUME RankInv, Quiet, ~crossed, ~lost, NEW u \in Users,
                      <<"current", u>> \notin stale
               PROVE  {o \in Orgs : <<u, o>> \in ranked} =
                          IF account[u] = "active" THEN {current[u]} \ {NoOrg} ELSE {}
    BY DEF RankingFollows
  <2>1. \A o \in Orgs : Agrees(ranked, u, o)
    BY DEF RankInv, RanksAreComing, Quiet, AllAgree
  <2>2. \A o \in Orgs : <<u, o>> \in ranked <=> Belongs(u, o)
    BY <2>1 DEF Agrees, Quiet, ReadsRow, TakesOut
  <2>3. current[u] \in Orgs \cup {NoOrg}
    BY DEF RankInv, MemberInv, MembershipTypeOK, Current
  <2> QED
    BY <2>2, <2>3 DEF Belongs
<1> QED
  BY <1>1, <1>2, RankStep, PTL DEF Spec
=============================================================================
