CONSTANTS
  bob = bob
  c1 = c1
  p1 = p1
  p2 = p2
  Users = {bob}
  Admins = {}
  Connections = {c1}
  Owner <- MCOwner
  Callers = {p1, p2}
  Policies <- MCPolicies
  Amounts = {1}
  TicksPerSecond = 2
  MinuteTicks = 4
  MinutesPerDay = 2
  Horizon = 8
SPECIFICATION FairSpec
INVARIANTS RowsCountGrants
PROPERTIES GrantsWithinLimits RefinesAtomicQuota RetryAfterIsExact CallsReturn
