SPECIFICATION FairSpec
CONSTANTS
  k1 = k1
  k2 = k2
  Keys = {k1, k2}
  Tags = {t1}
  None = None
  Text = Text
  Workloads <- MCWorkloads
  Clients = {p1, c1}
  SyncClients = {p1}
  AsyncClients = {c1}
  Subscribers = {s1}
  Event = Event
  Garbage = Garbage
  MaxCalls = 3
  MaxFaults = 2
  MaxTime = 2
INVARIANTS
  TypeOK
  CountersAddUp
  WindowHasEnd
  InvalidationRemoves
  TaggedIsFound
PROPERTIES
  MessagesAreTaken
