\* Replica counts below and above the step of ceil(10%), and a single replica.
SPECIFICATION Spec
CONSTANTS
  Inputs <- SomeInputs
  Supplied <- SomeSupplied
  Defaults <- SomeDefaults
  Unset = Unset
  Unparseable = Unparseable
  Replicas = {1, 2, 11}
  NoValue = NoValue
INVARIANTS
  TypeOK
  GreenIsMeasured
  AlarmIsASignals
  ComparisonOnlyRaises
  SingleReplicaDownIsCritical
PROPERTIES
  WorseNeverLooksBetter
