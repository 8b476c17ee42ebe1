SPECIFICATION Spec
CONSTANTS
  k1 = k1
  k2 = k2
  Keys = {k1, k2}
  Tags = {t1}
  None = None
  Text = Text
  Workloads <- MixedLives
  Clients = {p1, c1}
  SyncClients = {p1}
  AsyncClients = {c1}
  Subscribers = {s1}
  Event = Event
  Garbage = Garbage
  MaxCalls = 4
  MaxFaults = 0
  MaxTime = 2
INVARIANT TaggedIsFound
