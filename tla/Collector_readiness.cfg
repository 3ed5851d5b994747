\* One success, then a failure while it is still recent.
SPECIFICATION Spec
CONSTANTS
  Nodes = {n1}
  Services = {s1}
  Readers = {r1}
  HistorySize = 2
  Interval = 1
  Timeout = 2
  StaleAfter = 3
  MaxTime = 5
INVARIANTS
  ReadyMeansLastPollSucceeded
