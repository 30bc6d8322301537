SPECIFICATION Spec
CONSTANTS
  Instances = {a}
  Publishers = {p1, p2}
  Subscribers = {s1}
  LogLimit = 1
  StateLimit = 1
  MaxVersion = 3
  MaxLines = 0
  None = None
PROPERTIES
  LatestStateKept
CHECK_DEADLOCK FALSE
