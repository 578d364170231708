CONSTANTS
  Parts = {"probes"}
  Places = {here}
  Keys = {k1, k2}
  Edits = {e1}
  NoPlace = nowhere
  Tested = {t1}
  Secrets = {s1}
  Tests = {one}
  Untested = null
  Untried = untried
  Callers = {r1}
  FirstKey = k1
  NoKey = nokey
  MaxClock = 1
  Connections = {c1}
  Own = {}
  Admin = FALSE
  Limit = 2
  Provider = c1
  Capabilities = {chat, streaming, json}
SPECIFICATION ProvidersSpec
INVARIANTS ContactsAreCharged ClosedMeansOneMoreAtMost StoredRunsAreWhole
