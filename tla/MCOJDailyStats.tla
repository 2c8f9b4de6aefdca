---- MODULE MCOJDailyStats ----
(* The instance of OJDailyStats for TLC.                                     *)
EXTENDS OJDailyStats

CONSTANTS a1, a2, r1

OneAccount    == {a1}
TwoAccounts   == {a1, a2}
OneRequest    == {r1}

\* Bound: rebuilds overlap while no bind, synchronisation or handler is at work.  The
\* row may still change between what the two have read.
OverlapAtRest == Rebuilding > 1 => /\ \A r \in Binds : req[r] = Idle
                                   /\ sync = Idle /\ handler = Idle
=============================================================================
