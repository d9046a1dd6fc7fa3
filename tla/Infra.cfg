CONSTANTS
  e1 = e1 a = a b = b c = c
  Edge = {e1}
  PoolName = {a, b, c}
  Config = {1, 2}
  Specs <- MCSpecs
  Staffed = {a}
  Absent = Absent
  MaxMishaps = 1
  MaxRetries = 2
  Message <- Messages
  Logs <- MCLogs
  Broken = Broken
SPECIFICATION FairSpec
INVARIANTS TypeOK NoStranded
PROPERTIES TreeGoes Delivered AgentGoesOn
