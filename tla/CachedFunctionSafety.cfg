CONSTANTS
  None = None
  Callers = {c1, c2, c3}
  Workers = {w1}
  Keys = {k1}
  SingleFlight = TRUE
  Ttls = {1}
  Jitter = 0
  StaleTtl = 1
  HasTags = TRUE
  Outcomes = {"value", "uncached", "raise"}
  Env = {"bypass", "get", "set", "threads", "purge"}
  MaxCalls = 2
  MaxRefreshes = 1
  MaxTime = 2
SYMMETRY ThreadSymmetry
SPECIFICATION Spec
INVARIANTS
  TypeOK
  RegisteredHasLeader
  NoLostWakeup
  RegisteredNotSet
  UntaggedHasTagger
