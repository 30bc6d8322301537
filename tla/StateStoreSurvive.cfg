SPECIFICATION Spec
CONSTANTS
  Ids = {a, b}
  Key = key
  Savers = {s1}
  Main = main
  MaxVersion = 1
  MaxCrashes = 1
  MaxFailures = 0
  None = None
INVARIANTS
  RecordsSurvive
CHECK_DEADLOCK FALSE
