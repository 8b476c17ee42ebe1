CONSTANTS
  None = None
  Keys = {a, b}
  Tags = {t1}
  Threads = {p}
  Policy = "lfu"
  MaxSize = 1
  MaxFreq = 2
  Namespaced = TRUE
  Ops = {"get", "set", "delete", "exists", "clear", "get_or_set", "expire", "expire_at", "touch", "ttl", "persist", "incr", "invalidate_tags", "add_tags"}
  Ttls = {1}
  MaxValue = 1
  MaxTime = 2
SPECIFICATION Spec
INVARIANTS
  IndexesAgree
  TrackedAreStored
