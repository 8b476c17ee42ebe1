SPECIFICATION Spec
CONSTANTS
  Callers = {c1, c2}
  None = None
  Stacks <- MCStacks
  MaxCalls = 3
  MaxFaults = 2
INVARIANTS
  RoundTrip
  SealedAtRest
  MetricsMatch
  LocalCountsFallbacks
