CONSTANTS
  None = None
  Callers = {c1, c2}
  Workers = {w1, w2}
  Keys = {k1}
  SingleFlight = TRUE
  Ttls = {1}
  Jitter = 0
  StaleTtl = 1
  HasTags = TRUE
  Outcomes = {"value", "uncached", "raise"}
  Env = {"get", "set", "tags", "purge"}
  MaxCalls = 2
  MaxRefreshes = 2
  MaxTime = 2
SPECIFICATION FairSpec
PROPERTIES
  CallsReturn
  StaleIsRefreshed
