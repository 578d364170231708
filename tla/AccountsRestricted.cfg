CONSTANTS
  root = root
  user = user
  third = third
  temporary = temporary
  chosen = chosen
  other = other
  k1 = k1
  r1 = r1
  r2 = r2
  s1 = s1
  s2 = s2
  s3 = s3
  Users <- MCUsers
  Root = root
  Passwords <- MCPasswords
  Temporary = temporary
  Configured = chosen
  Sessions <- MCSessions
  NoSession = NoSession
  Keys <- MCKeys
  Requests <- MCRequests
SPECIFICATION Spec
INVARIANT RestrictedSessionsStayOut
SYMMETRY Alike
