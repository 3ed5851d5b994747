\* Under the cache: two evaluations of two queries again and again, one slot.
SPECIFICATION FairSpec
CONSTANTS
  Evaluations = {e1, e2}
  Queries = {q1, q2}
  MaxConcurrent = 1
  Queriers = {"configured"}
  Contexts = {"detached"}
PROPERTIES
  EveryEvaluationReturns
