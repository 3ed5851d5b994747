\* Three keys compete for two entries: sharing, expiry and the order of eviction.
SPECIFICATION HSpec
CONSTANTS
  Callers = {c1, c2}
  Keys = {k1, k2, k3}
  Flights = {f1, f2, f3}
  None = None
  TTLs <- OffAndOn
  MaxEntries = 2
  MaxTime = 3
SYMMETRY CacheSymmetry
\* The clock and the flights of a run are bounded, and clients may stop asking.
CHECK_DEADLOCK FALSE
INVARIANTS
  HInv
  OneEvaluationPerKey
  OnlyOwnCancellation
PROPERTIES
  HitsAreFresh
  EvictsOldestAndOnlyWhenFull
  ImplementsSharing
