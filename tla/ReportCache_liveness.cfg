\* Every key has room in the map; an evaluation may also never end.
SPECIFICATION StalledSpec
CONSTANTS
  Callers = {c1, c2}
  Keys = {k1, k2}
  Flights = {f1, f2, f3}
  None = None
  TTLs <- OffAndOn
  MaxEntries = 2
  MaxTime = 2
\* The clock and the flights of a run are bounded, and clients may stop asking.
CHECK_DEADLOCK FALSE
PROPERTIES
  NoEarlyReevaluation
  EveryCallReturns
  CancelledWaiterReturns
