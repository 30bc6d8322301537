SPECIFICATION Spec
CONSTANTS
  Instances = {a}
  Publishers = {p1, p2}
  Subscribers = {s1}
  LogLimit = 2
  StateLimit = 2
  MaxVersion = 2
  MaxLines = 3
  None = None
SYMMETRY HubSymmetry
VIEW OrderView
INVARIANTS
  NoLostWakeup
  LogsComplete
  ShutdownIsLast
CHECK_DEADLOCK FALSE
