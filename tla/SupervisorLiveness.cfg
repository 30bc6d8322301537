SPECIFICATION FairSpec
CONSTANTS
  Instances = {i1}
  Procs = {p1}
  Workers = {w1}
  Main = main
  Periodic = periodic
  Urls = {u1, old}
  Supported = {u1}
  None = None
PROPERTIES
  OperationsFinish
  ExitNoticed
  FailureRecovered
  ShutdownDrains
