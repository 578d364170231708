CONSTANTS
  u1 = u1
  u2 = u2
  k1 = k1
  k2 = k2
  c1 = c1
  r1 = r1
  r2 = r2
  Unused = Unused
  Deleted = Deleted
  Users <- MCUsers
  Configs <- MCConfigs
  Connections <- MCConnections
  ConnectionOwner <- MCConnectionOwner
  Requests <- MCRequests
SPECIFICATION RoutingSpec
INVARIANT SavesNeverCollide
PROPERTY RefinesAtomicRouting
