---- MODULE MCPermissionProjection ----
(* Instances of PermissionProjection for TLC.                                *)
EXTENDS PermissionProjection

CONSTANTS i1, q1, s1, p1, member

OneInstance  == {i1}
OneRequest   == {q1}
OneSubject   == {s1}
OneRole      == {member}
OnePermission == {p1}

OneOfEach == [k \in RuleFaultKinds |-> 1]

\* Bound: two faults of different kinds.
TwoFaults == Cardinality({k \in RuleFaultKinds : ruleFaults[k] > 0}) <= 2
=============================================================================
