SPECIFICATION Spec
CONSTANTS
  Instances = {i1}
  Procs = {p1}
  Workers = {w1}
  Main = main
  Periodic = periodic
  Urls = {u1}
  Supported = {u1}
  None = None
INVARIANTS
  StoppedMeansNoChild
