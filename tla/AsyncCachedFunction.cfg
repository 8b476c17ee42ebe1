CONSTANTS
  None = None
  Callers = {c1, c2, c3}
  Workers = {w1}
  Keys = {k1}
  SingleFlight = TRUE
  Ttls = {1}
  Jitter = 0
  StaleTtl = 1
  HasTags = TRUE
  Outcomes = {"value", "raise"}
  Env = {"bypass", "get", "set", "tags", "purge"}
  MaxCalls = 1
  MaxRefreshes = 2
  MaxTime = 2
  Pool = {p1}
  CancelAt = {"lookup", "wait", "reread", "compute", "store", "tag", "release"}
SPECIFICATION AsyncFairSpec
INVARIANTS
  EventHasTask
  FollowersWillWake
PROPERTIES
  AsyncCallsReturn
  FlightsEnd
