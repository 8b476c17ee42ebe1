SPECIFICATION FairSpec
CONSTANTS
  k1 = k1
  k2 = k2
  Keys = {k1, k2}
  Tags = {t1}
  None = None
  Text = Text
  Ttls = {1}
  Workloads <- MCWorkloads
  Faults = {"busy", "commit", "crash", "close"}
  MaxTime = 1
  Processes = {p1}
  MaxCalls = 1
  Coroutines = {c1, c2}
  Loop = Loop
  CancelAt = {"connect", "connecting", "setup", "cleanup", "compute", "store", "expiry", "lock", "read", "write", "find", "drop_rows", "drop_tags", "commit", "rows", "tags", "select"}
  MaxTasks = 1
  MaxConns = 2
INVARIANTS
  LockOwnsTransaction
  LockIsHeld
  OneConnection
  CountersAddUp
  TagsHaveRows
PROPERTIES
  CallsEnd
