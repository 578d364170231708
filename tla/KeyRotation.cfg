CONSTANTS
  Parts = {"rotation"}
  Places = {here}
  Keys = {k1, k2, k3}
  Edits = {e1}
  NoPlace = nowhere
  Tested = {t1}
  Secrets = {s1}
  Tests = {one}
  Untested = null
  Untried = untried
  Callers = {r1, r2}
  FirstKey = k1
  NoKey = nokey
  MaxClock = 6
  Connections = {c1}
  Own = {}
  Admin = FALSE
  Limit = 1
  Provider = c1
  Capabilities = {chat}
SPECIFICATION ProvidersSpec
SYMMETRY Alike
INVARIANT RotationIsEven
PROPERTY KeysInForce
