SPECIFICATION StatsSpec
CONSTANTS
  a1 = a1
  a2 = a2
  r1 = r1
  NoAccount = NoAccount
  Accounts <- TwoAccounts
  Growing <- OneAccount
  Binds <- OneRequest
  MaxRebuilds = 2
  MaxSolved = 2
  Window = 1
  Threshold = 2
  MaxOps = 2
CHECK_DEADLOCK FALSE
INVARIANT
  BindStands
