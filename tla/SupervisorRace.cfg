SPECIFICATION Spec
CONSTANTS
  Instances = {i1}
  Procs = {p1, p2}
  Workers = {w1, w2}
  Main = main
  Periodic = periodic
  Urls = {u1, u2}
  Supported = {u1, u2}
  None = None
SYMMETRY RaceSymmetry
INVARIANTS
  TypeOK
  AtMostOneChild
  ChildUnderControl
  StopperOwnsChild
  ShutdownLeavesNoChild
  HaltRespected
  NoLeakedContext
  StatusMatchesHandle
PROPERTIES
  NoResurrection
  ImplementsLifecycle
