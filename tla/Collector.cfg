\* A poll may outlast two ticks; four polls and more, rings of two points.
SPECIFICATION FairSpec
CONSTANTS
  Nodes = {n1}
  Services = {s1}
  Readers = {r1}
  HistorySize = 2
  Interval = 1
  Timeout = 2
  StaleAfter = 3
  MaxTime = 5
INVARIANTS
  IInv
  RingsFollowSnapshot
  ServedHistoryReachesSnapshot
  ReadyMeansRecentData
  MetricsFlagIsHonest
PROPERTIES
  PollsEnd
  ShutdownStops
