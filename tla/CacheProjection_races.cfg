SPECIFICATION FairSpec
CONSTANTS
  u1 = u1
  all = all
  o1 = o1
  r1 = r1
  r2 = r2
  c1 = c1
  c2 = c2
  v1 = v1
  NoOrg = NoOrg
  Elsewhere = Elsewhere
  Users <- OneUser
  Orgs <- TwoOrgs
  AllMembers = all
  Requests <- TwoRequests
  Consumers <- TwoConsumers
  Visits <- OneVisit
  MaxOps = 3
CHECK_DEADLOCK FALSE
INVARIANTS
  RightsNeedMembership
  RankingFollows
PROPERTIES
  BanTakesHold
