\* Two callers of one service; an outage and two snapshots at any moments; time for
\* an evaluation of two units, a whole ttl and one more evaluation.
SPECIFICATION HealthSpec
CONSTANTS
  Callers = {c1, c2}
  Keys = {k1}
  Flights = {f1, f2}
  None = None
  TTLs <- OffAndOn
  MaxEntries = 1
  MaxTime = 5
  EvalTime = 2
  MaxPolls = 2
SYMMETRY HealthSymmetry
\* The clock and the flights of a run are bounded, and clients may stop asking.
CHECK_DEADLOCK FALSE
PROPERTIES
  ScoredPodsWereOnDisplay
  OutageIsForgotten
