SPECIFICATION WebSpec
CONSTANTS
  Ids = {d1, d2}
  Secrets = {s1, s2}
  None = None
  Pages = {p1, p2}
  Bootstrap = Bootstrap
  Junk = Junk
INVARIANTS
  SignInConsistent
PROPERTIES
  WorkingTokenStays
  AsksForToken
CHECK_DEADLOCK FALSE
