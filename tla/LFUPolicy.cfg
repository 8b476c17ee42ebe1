CONSTANTS
  None = None
  Keys = {a, b, c, d}
  MaxFreq = 3
SPECIFICATION Spec
INVARIANTS
  BucketsMatchFreq
  MinFreqIsLeast
PROPERTIES
  EvictsAsPromised
