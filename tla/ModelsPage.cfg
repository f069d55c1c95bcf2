SPECIFICATION PageSpec
CONSTANTS
  Models = {m1}
  Kinds <- MCKinds
  Polls = {p1}
  Lists = {l1, l2}
  NoList = NoList
  Sent = Sent
  Idle = Idle
INVARIANTS
  
  PollingAlive
PROPERTIES
  CancelHonoured
  ProgressEnds
CHECK_DEADLOCK FALSE
