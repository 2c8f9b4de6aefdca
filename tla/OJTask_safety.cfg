SPECIFICATION Spec
CONSTANTS
  w1 = w1
  w2 = w2
  o1 = o1
  o2 = o2
  Nobody = Nobody
  NoSnap = NoSnap
  MaxTasks = 3
  Workers <- TwoWorkers
  Operators <- TwoOperators
  LockEnabled = TRUE
  MaxTime = 1
  MaxEdits = 1
  MaxFaults <- AllFaults
CONSTRAINT VersionsAtRest
SYMMETRY Symmetric
CHECK_DEADLOCK FALSE
INVARIANTS
  OneExecutor
  StatusesAgreeAtRest
PROPERTIES
  ImplementsVersion
