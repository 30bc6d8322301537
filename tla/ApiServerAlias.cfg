SPECIFICATION Spec
CONSTANTS
  Conns = {c1, c2}
  Aliases = {a, b}
  PingSlots = 1
  Interval = 2
  MaxTime = 0
  MaxVersion = 0
  None = None
INVARIANT
  AliasAgrees
CHECK_DEADLOCK FALSE
