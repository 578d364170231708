CONSTANTS
  Parts = {"service", "tests"}
  Places = {here, there}
  Keys = {k1, k2}
  Edits = {e1, e2}
  NoPlace = nowhere
  Tested = {t1, t2}
  Secrets = {s1, s2}
  Tests = {one, other}
  Untested = null
  Untried = untried
  Callers = {r1}
  FirstKey = k1
  NoKey = nokey
  MaxClock = 1
  Connections = {c1}
  Own = {}
  Admin = FALSE
  Limit = 1
  Provider = c1
  Capabilities = {chat}
SPECIFICATION ProvidersSpec
SYMMETRY Alike
INVARIANTS ResultsAreOfTheirSecrets KeysReachTheirUrl ListedIsServed
