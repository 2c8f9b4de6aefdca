SPECIFICATION FairRuleSpec
CONSTANTS
  i1 = i1
  q1 = q1
  s1 = s1
  p1 = p1
  member = member
  Consumer = Consumer
  Startup = Startup
  Instances <- OneInstance
  Requests <- OneRequest
  Subjects <- OneSubject
  Roles <- OneRole
  Permissions <- OnePermission
  MaxEdits = 2
  MaxRuleFaults <- OneOfEach
CHECK_DEADLOCK FALSE
CONSTRAINT TwoFaults
PROPERTY
  ChangeIsProjected
