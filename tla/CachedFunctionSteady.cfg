CONSTANTS
  None = None
  Callers = {c1, c2, c3}
  Workers = {w1, w2}
  Keys = {k1, k2}
  SingleFlight = TRUE
  Ttls = {1}
  Jitter = 1
  StaleTtl = 2
  HasTags = FALSE
  Outcomes = {"value"}
  Env = {"bypass"}
  MaxCalls = 1
  MaxRefreshes = 2
  MaxTime = 2
SYMMETRY ThreadSymmetry
SPECIFICATION Spec
INVARIANTS
  OneComputation
  WindowIsStored
PROPERTIES
  FlightSpec
