------------------------------ MODULE OJDailyStats ------------------------------
(* The account with the statistics that are projected from it, one row per day:   *)
(* here the rows of the present day, which carry the account's total.             *)
(*   src/internal/service/system/ojDailyStatsProjectionSvc.go                     *)
(*   src/internal/repository/system/ojDailyStatsRepo.go                           *)
EXTENDS OJAccount, Functions

CONSTANT MaxRebuilds  \* bound: rebuilds at a time, by consumers of the event, the repair
                      \* job and requests for the curve

ASSUME RebuildsAssumption == MaxRebuilds \in Nat \ {0}

VARIABLES stats,     \* <<>>, or the total that the newest rows say
          rebuild    \* total -> how many rebuilds are about to write it

statsVars == <<accountVars, stats, rebuild>>

Totals == 0..(MaxSolved * Cardinality(Accounts))
None == <<>>

StatsTypeOK ==
    /\ AccountTypeOK
    /\ stats \in {None} \cup {<<n>> : n \in Totals}
    /\ rebuild \in [Totals -> 0..MaxRebuilds]

StatsInit ==
    /\ AccountInit
    /\ stats = None
    /\ rebuild = [n \in Totals |-> 0]

\* What a rebuild makes of the newest day: the row's total, or the facts that it
\* counts when they are more, since the days begin with no less than nothing.  All
\* facts are of the days that are rebuilt; lanqiao's total is their number.
Total ==
    LET counted == Cardinality({f \in facts : f[1] = Found})
        passed == details[Found].passed
    IN  IF platform = "lanqiao" \/ counted > passed THEN counted ELSE passed

UpToDate == Found # NoRow /\ stats = <<Total>>

Rebuilding == FoldFunction(LAMBDA m, n : m + n, 0, rebuild)

\* RebuildRecentWindow reads the account; without one the rows are deleted.
Reads(kept) ==
    /\ Rebuilding < MaxRebuilds
    /\ IF Found = NoRow
       THEN stats' = None /\ UNCHANGED rebuild
       ELSE rebuild' = [rebuild EXCEPT ![Total] = @ + 1] /\ stats' = kept

Kept(kind) == IF kind = "reset" THEN None ELSE stats

\* HandleOJDailyStatsProjectionEvent; a reset deletes before anything is read.
RebuildTakes(kind) ==
    /\ Reads(Kept(kind))
    /\ refresh' = refresh \ {kind}
    /\ UNCHANGED <<outside, tables, binding, req, sync, handler, redis, ghosts, ops>>

\* RepairRecentWindow, or GetCurve on finding the rows incomplete or old; a repair
\* of rows that are neither is left out.
RebuildBegins ==
    /\ Found # NoRow /\ ~UpToDate
    /\ Reads(stats)
    /\ UNCHANGED accountVars

\* Faulty: what is there already is left as it is.
RebuildWrites_IfNone(n) ==
    /\ rebuild[n] > 0
    /\ stats' = IF stats = None THEN <<n>> ELSE stats
    /\ rebuild' = [rebuild EXCEPT ![n] = @ - 1]
    /\ UNCHANGED accountVars

\* The upsert's conflict clause names columns that no unique index covers: a row is
\* inserted, and a reader takes the newest.
RebuildWrites(n) ==
    /\ rebuild[n] > 0
    /\ stats' = <<n>>
    /\ rebuild' = [rebuild EXCEPT ![n] = @ - 1]
    /\ UNCHANGED accountVars

\* The handler fails, after a reset at the worst; its event is not read again.
RebuildFails(kind) ==
    /\ Counted
    /\ stats' = Kept(kind)
    /\ refresh' = refresh \ {kind}
    /\ UNCHANGED <<outside, tables, binding, req, sync, handler, redis, ghosts, rebuild>>

StatsNext ==
    \/ AccountNext /\ UNCHANGED <<stats, rebuild>>
    \/ \E kind \in refresh : RebuildTakes(kind) \/ RebuildFails(kind)
    \/ RebuildBegins
    \/ \E n \in Totals : RebuildWrites(n)

StatsSpec == StatsInit /\ [][StatsNext]_statsVars

\* Synchronisation and the repair are due again and again; what has begun ends, and
\* with it the locks it holds; keys expire.
StatsFairSpec ==
    /\ StatsSpec
    /\ SF_statsVars((\E id \in DOMAIN details : SyncLists(id, "start")) /\ UNCHANGED <<stats, rebuild>>)
    /\ WF_statsVars(SyncStep /\ UNCHANGED <<stats, rebuild>>)
    /\ WF_statsVars(HandlerStores /\ UNCHANGED <<stats, rebuild>>)
    /\ \A r \in Binds :
          WF_statsVars((BindWrites(r) \/ BindClears(r)) /\ UNCHANGED <<stats, rebuild>>)
    /\ WF_statsVars(SeenExpires /\ UNCHANGED <<stats, rebuild>>)
    /\ WF_statsVars(SwitchExpires /\ UNCHANGED <<stats, rebuild>>)
    /\ SF_statsVars(RebuildBegins)
    /\ WF_statsVars(\E n \in Totals : RebuildWrites(n))

-----------------------------------------------------------------------------
(* Properties.                                                                 *)

\* For leetcode and luogu the newest row says the judge's own number, whatever became
\* of the facts, unless somebody wrote by a row that had changed since he read it.
JudgesTotal == ~crossed /\ platform # "lanqiao" => stats = <<judge[bound]>>

\* A bind event that met no row, a failed synchronisation or a mark without facts
\* costs time only: while an account stays bound, what the judge tells of it is
\* stored in the end.  Statistics are rebuilt by the consumer, the repair job and
\* requests at the same time, from what each has read, and a reset or a failure may
\* leave none: the newest rows come to say what a rebuild makes of the account, which
\* is its number of problems, and keep it.
AllCatchesUp == /\ FactsCatchUp
                /\ <>[](Cardinality(Live) = 1) => <>[](UpToDate /\ JudgesTotal)
=============================================================================
