SPECIFICATION Spec
CONSTANTS
  Ids = {a}
  Key = key
  Savers = {s1, s2}
  Main = main
  MaxVersion = 3
  MaxCrashes = 1
  MaxFailures = 1
  None = None
SYMMETRY StoreSymmetry
INVARIANTS
  TypeOK
  FileCatchesUp
  CleanEndIsSaved
  LoadIsComplete
PROPERTIES
  FileNeverGoesBack
CHECK_DEADLOCK FALSE
