CONSTANTS
  m1 = m1
  m2 = m2
  k1 = k1
  i1 = i1
  i2 = i2
  v1 = v1
  s1 = s1
  NoKey = NoKey
  NoClaim = NoClaim
  Initial = Initial
  Models <- MCModels
  Keys = {k1}
  Claims = {s1}
  Values = {v1}
  Imports <- MCImports
SPECIFICATION FairSpec
PROPERTIES ImportsKeepSettings ImportsAreWhole ImportsEnd
