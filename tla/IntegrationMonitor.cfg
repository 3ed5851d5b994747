\* Two providers of any kind; a round may outlast two ticks; a few rounds.
SPECIFICATION FairSpec
CONSTANTS
  Providers = {p1, p2}
  Interval = 1
  Timeout = 2
  MaxTime = 6
INVARIANTS
  IInv
  ShutdownIsNoOutage
  SnapshotIsOneRound
  StatusesStayFresh
PROPERTIES
  MonitorStops
\* Run returns once its ctx is done, and the clock stops at MaxTime.
CHECK_DEADLOCK FALSE
