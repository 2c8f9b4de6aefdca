----------------------------- MODULE CacheProjection -----------------------------
(* Membership with what Redis keeps of it: the ranking of every organisation and *)
(* the state of an account that each request is let in by.  Consumers read the    *)
(* database again for every event and write what they read later.                *)
(*   src/internal/service/system/cacheProjectionSvc.go                            *)
(*   src/pkg/rankingcache/store.go                                                *)
(*   src/internal/middleware/activeUserMW.go                                      *)
EXTENDS Membership

CONSTANTS Consumers,   \* subscriber loops, one per instance
          Visits       \* requests inside ActiveUserMW

ASSUME CacheProjectionAssumption == IsFiniteSet(Consumers) /\ IsFiniteSet(Visits)

VARIABLES ranked,    \* pairs in the organisation rankings
          cache,     \* user:active_state
          task,      \* consumer -> the event or rebuild it works on
          visit,     \* request -> what it has read of the account
          crossed,   \* a run has begun while another one was at work
          lost       \* a run was broken off

cacheVars == <<ranked, cache, task, visit, crossed, lost>>
vars == <<memberVars, cacheVars>>

Gone == [gone |-> TRUE]
Items == [current : Current, active : BOOLEAN] \cup {Gone}
NoTask == [pc |-> "idle"]
Cleared == [pc |-> "list"]
NoRest == [u \in {} |-> Gone]
NoVisit == [pc |-> "idle"]

TypeOK ==
    /\ MembershipTypeOK
    /\ ranked \subseteq Pairs
    /\ cache \in [Users -> {"none", "active", "inactive"}]
    /\ task \in [Consumers -> {NoTask, Cleared} \cup
          [pc : {"write"}, user : Users, remove : SUBSET Orgs, item : Items,
           rest : UNION {[U -> Items] : U \in SUBSET Users}]]
    /\ visit \in [Visits -> {NoVisit} \cup [pc : {"fill"}, user : Users, active : BOOLEAN]]
    /\ crossed \in BOOLEAN
    /\ lost \in BOOLEAN

Init ==
    /\ MembershipInit
    /\ ranked = {}
    /\ cache = [u \in Users |-> "none"]
    /\ task = [c \in Consumers |-> NoTask]
    /\ visit = [v \in Visits |-> NoVisit]
    /\ crossed = FALSE
    /\ lost = FALSE

-----------------------------------------------------------------------------
(* Events.                                                                     *)

Busy == \E c \in Consumers : task[c] # NoTask

\* The read model leaves out deleted accounts.
Row(u) == IF account[u] \in {"active", "disabled"}
          THEN [current |-> current[u], active |-> account[u] = "active"] ELSE Gone

\* An event is as good as pending until its handler reads the database; a
\* deletion is taken at its word.
TakeEvent(c, e) ==
    /\ task[c] = NoTask
    /\ task' = [task EXCEPT ![c] =
          [pc |-> "write", user |-> e.user, remove |-> e.remove,
           item |-> IF e.deleted THEN Gone ELSE Row(e.user), rest |-> NoRest]]
    /\ events' = events \ {e}
    /\ crossed' = (crossed \/ Busy)
    /\ UNCHANGED <<rows, bindings, req, stale, ops, ranked, cache, visit, lost>>

\* Faulty: the present organisation is not removed and then left out when the
\* account is inactive.
RanksOf_AddsOnly(u, item, remove) ==
    {p \in ranked : p[1] # u \/ p[2] \notin remove} \cup
        (IF item = Gone THEN {} ELSE {<<u, item.current>>} \cap Pairs)

\* SyncProjectionRanks and DeleteProjection.
RanksOf(u, item, remove) ==
    LET cleared == IF item = Gone THEN remove ELSE remove \cup {item.current}
    IN  {p \in ranked : p[1] # u \/ p[2] \notin cleared} \cup
            (IF item # Gone /\ item.active THEN {<<u, item.current>>} \cap Pairs ELSE {})

\* A rebuild goes on with the next user it has listed.
Following(rest) ==
    IF DOMAIN rest = {} THEN NoTask
    ELSE LET u == CHOOSE u \in DOMAIN rest : TRUE
         IN  [pc |-> "write", user |-> u, remove |-> {}, item |-> rest[u],
              rest |-> [v \in DOMAIN rest \ {u} |-> rest[v]]]

Ranked(c) == RanksOf(task[c].user, task[c].item, task[c].remove)

\* The rankings and then the state of the account; what comes in between could
\* as well come before.
WriteProjection(c) ==
    /\ task[c].pc = "write"
    /\ ranked' = Ranked(c)
    /\ cache' = [cache EXCEPT ![task[c].user] =
                    IF task[c].item # Gone /\ task[c].item.active THEN "active" ELSE "inactive"]
    /\ task' = [task EXCEPT ![c] = Following(task[c].rest)]
    /\ UNCHANGED <<memberVars, visit, crossed, lost>>

\* The handler fails or its process dies, before the first write or after it; the
\* event is not read again.
BreakOff(c) ==
    /\ task[c] # NoTask
    /\ Counted
    /\ lost' = TRUE
    /\ \/ UNCHANGED ranked
       \/ task[c] # Cleared /\ ranked' = Ranked(c)
    /\ task' = [task EXCEPT ![c] = NoTask]
    /\ UNCHANGED <<rows, bindings, events, req, stale, cache, visit, crossed>>

-----------------------------------------------------------------------------
(* RebuildAll.                                                                 *)

RebuildClear(c) ==
    /\ task[c] = NoTask
    /\ Counted
    /\ ranked' = {}
    /\ cache' = [u \in Users |-> "none"]
    /\ task' = [task EXCEPT ![c] = Cleared]
    /\ crossed' = (crossed \/ Busy)
    /\ UNCHANGED <<rows, bindings, events, req, stale, visit, lost>>

ListAll(c) ==
    /\ task[c] = Cleared
    /\ task' = [task EXCEPT ![c] = Following([u \in {v \in Users : Row(v) # Gone} |-> Row(u)])]
    /\ UNCHANGED <<memberVars, ranked, cache, visit, crossed, lost>>

-----------------------------------------------------------------------------
(* ActiveUserMW.                                                               *)

\* The state in the cache decides; without one, the account itself.
Passes(u) == IF cache[u] = "none" THEN account[u] = "active" ELSE cache[u] = "active"

\* A miss reads the account and fills the cache in a later step.
VisitReads(v, u) ==
    /\ visit[v] = NoVisit
    /\ cache[u] = "none"
    /\ visit' = [visit EXCEPT ![v] = [pc |-> "fill", user |-> u, active |-> account[u] = "active"]]
    /\ UNCHANGED <<memberVars, ranked, cache, task, crossed, lost>>

VisitFills(v) ==
    /\ visit[v] # NoVisit
    /\ cache' = [cache EXCEPT ![visit[v].user] = IF visit[v].active THEN "active" ELSE "inactive"]
    /\ visit' = [visit EXCEPT ![v] = NoVisit]
    /\ UNCHANGED <<memberVars, ranked, task, crossed, lost>>

\* Faulty: SET without an expiry.
StateExpires_Never(u) == FALSE /\ UNCHANGED vars

\* The key's time to live ends.
StateExpires(u) ==
    /\ cache[u] # "none"
    /\ cache' = [cache EXCEPT ![u] = "none"]
    /\ UNCHANGED <<memberVars, ranked, task, visit, crossed, lost>>

-----------------------------------------------------------------------------
(* The whole.                                                                  *)

Handles(c) == WriteProjection(c) \/ ListAll(c)

Next ==
    \/ /\ \/ \E r \in Requests : Commit(r)
          \/ \E u \in Users : ApplyUserStatus(u)
          \/ \E p \in Pairs : ProjectBinding(p)
          \/ \E r \in Requests, op \in Ops, u \in Users, o \in Orgs :
                /\ OtherCall(op, u, o) \/ (UserCall(op, u, o) /\ Passes(u))
                /\ Begin(r, op, u, o)
       /\ UNCHANGED cacheVars
    \/ \E c \in Consumers :
          \/ \E e \in events : TakeEvent(c, e)
          \/ Handles(c) \/ BreakOff(c) \/ RebuildClear(c)
    \/ \E v \in Visits : VisitFills(v) \/ \E u \in Users : VisitReads(v, u)
    \/ \E u \in Users : StateExpires(u)

Spec == Init /\ [][Next]_vars

\* Consumers and requests run on, events are taken, keys expire.
FairSpec ==
    /\ Spec
    /\ \A c \in Consumers : WF_vars(Handles(c) \/ \E e \in events : TakeEvent(c, e))
    /\ \A v \in Visits : WF_vars(VisitFills(v))
    /\ \A u \in Users : WF_vars(StateExpires(u))

-----------------------------------------------------------------------------
(* Properties.                                                                 *)

Quiet == events = {} /\ ~Busy

\* Events carry no data and may come in any order and meet a rebuild: when all
\* are handled, a user is ranked in his current organisation and nowhere else,
\* unless runs overlapped, one was lost, a commit relied on an organisation that was
\* no longer the current one, or the user's whole row was saved as it was read before
\* another commit, most often with no event at all.
RankingFollows ==
    Quiet /\ ~crossed /\ ~lost =>
        \A u \in Users :
            \/ <<"current", u>> \in stale
            \/ {o \in Orgs : <<u, o>> \in ranked} =
                    IF account[u] = "active" THEN {current[u]} \ {NoOrg} ELSE {}

\* A ban that lasts takes hold for good: neither a request that read the account
\* before nor an event that was overtaken keeps it in the cache as active.
BanTakesHold ==
    \A u \in Users :
        <>[](account[u] = "disabled") => <>[](cache[u] # "active")
=============================================================================
