SPECIFICATION PipelineFairSpec
CONSTANTS
  e1 = e1
  r1 = r1
  c1 = c1
  c2 = c2
  NoRelay = NoRelay
  Events <- OneEvent
  Relays <- OneRelay
  Consumers <- TwoConsumers
  MaxRetries = 3
  BatchSize = 1
  LockEnabled = TRUE
  MaxTime = 0
  MaxFaults <- PipelineFaults
  ReadCount = 2
  MaxGroupFaults = 2
CHECK_DEADLOCK FALSE
INVARIANTS
  RepeatsAreRelayFaults
PROPERTIES
  HandledOrAccountedFor
