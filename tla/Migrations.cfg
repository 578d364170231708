CONSTANTS
  g1 = g1
  g2 = g2
  g3 = g3
  a = a
  b = b
  none = none
  Gateways <- MCGateways
  Names = {1, 2, 3}
  Repeatable = {1}
  Sums = {a, b}
  NoSum = none
  Deployments <- MCDeployments
  MaxFaults = 2
SPECIFICATION FairSpec
INVARIANTS AppliedOnceAndRecorded BuiltOnOwnFiles
PROPERTY GatewaysComeUp
CHECK_DEADLOCK FALSE
