\* Two evaluations of two queries compete for one slot.
SPECIFICATION Spec
CONSTANTS
  Evaluations = {e1, e2}
  Queries = {q1, q2}
  MaxConcurrent = 1
  Queriers = {"nil", "unconfigured", "configured"}
  Contexts = {"detached", "caller's"}
SYMMETRY PoolSymmetry
INVARIANTS
  PoolInv
  SlotsAccountedFor
  ErrorsAreKept
  NotConfiguredIsNeverAReport
