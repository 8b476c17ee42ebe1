CONSTANTS
  None = None
  Keys = {a, b, c}
  Tags = {t1}
  Threads = {p}
  Policy = "lru"
  MaxSize = 2
  MaxFreq = 1
  Namespaced = FALSE
  Ops = {"get", "set", "delete", "exists", "ttl", "get_or_set", "clear", "invalidate_tags", "add_tags"}
  Ttls = {1, 2}
  MaxValue = 0
  MaxTime = 3
SPECIFICATION Spec
INVARIANTS
  StoredAreTracked
  SizeBound
  JustSetIsKept
PROPERTIES
  EvictsOnlyWhenFull
  ContractSpec
