SPECIFICATION FairSpec
CONSTANTS
  Conns = {c1, c2}
  Aliases = {a}
  PingSlots = 1
  Interval = 1
  MaxTime = 2
  MaxVersion = 1
  None = None
INVARIANTS
  TypeOK
  ReloadsApart
  SlotsAccounted
  NobodyForgotten
PROPERTIES
  RotationServed
  RequestsAnswered
  ProgramEnds
CHECK_DEADLOCK FALSE
