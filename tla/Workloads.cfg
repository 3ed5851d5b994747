\* Two pods, one node and one Deployment with its autoscaler; two changes during a poll.
SPECIFICATION Spec
CONSTANTS
  Pods = {p1, p2}
  Templates <- SomeTemplates
  NodeNames = {"n1"}
  Deployments <- WebDeployments
  HashLike = {"5b5d9c5f7"}
  Desired = 2
  MaxRestarts = 1
  MaxChanges = 2
SYMMETRY PodSymmetry
INVARIANTS
  UntouchedIsExact
  TotalsAgree
