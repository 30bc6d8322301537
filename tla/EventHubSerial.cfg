SPECIFICATION FairSpec
CONSTANTS
  Instances = {a}
  Publishers = {p1}
  Subscribers = {s1}
  LogLimit = 1
  StateLimit = 1
  MaxVersion = 2
  MaxLines = 2
  None = None
INVARIANTS
  TypeOK
  ClientUpToDate
PROPERTIES
  PendingHandled
  ClosedEnds
CHECK_DEADLOCK FALSE
