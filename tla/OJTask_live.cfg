SPECIFICATION FairSpec
CONSTANTS
  w1 = w1
  w2 = w2
  o1 = o1
  o2 = o2
  Nobody = Nobody
  NoSnap = NoSnap
  MaxTasks = 1
  Workers <- OneWorker
  Operators <- OneOperator
  LockEnabled = TRUE
  MaxTime = 1
  MaxEdits = 1
  MaxFaults <- LiveFaults
CHECK_DEADLOCK FALSE
PROPERTIES
  DueIsTakenUp
  ExecutingEnds
