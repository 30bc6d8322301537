SPECIFICATION Spec
CONSTANTS
  Procs = {p1, p2}
  Others = {o1}
  Pids = {k1, k2}
  Endpoints = {e1, e2}
  Loads = {2}
  MaxBytes = 2
  MaxUint = 3
  MaxInt32 = 1
  None = None
SYMMETRY TelemetrySymmetry
VIEW TelemetryView
INVARIANTS
  TypeOK
  CounterExact
  ActiveIsLive
  OwnEndpointOnly
CHECK_DEADLOCK FALSE
