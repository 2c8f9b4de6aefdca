---- MODULE MCCacheProjection ----
(* The instance of CacheProjection for TLC.                                  *)
EXTENDS CacheProjection

CONSTANTS u1, all, o1, r1, r2, c1, c2, v1

OneUser      == {u1}
TwoOrgs      == {all, o1}
TwoRequests  == {r1, r2}
TwoConsumers == {c1, c2}
OneVisit     == {v1}
=============================================================================
