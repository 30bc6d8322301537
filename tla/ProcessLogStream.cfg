SPECIFICATION Spec
CONSTANTS
  Size = 4
  MaxGiven = 7
INVARIANTS
  NothingLost
  CutsDoNotShow
  PiecesSound
CHECK_DEADLOCK FALSE
