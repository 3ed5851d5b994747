\* The guide's claim about broken queries.
SPECIFICATION Spec
CONSTANTS
  Inputs <- SomeInputs
  Supplied <- SomeSupplied
  Defaults <- SomeDefaults
  Unset = Unset
  Unparseable = Unparseable
  Replicas = {1, 2, 11}
  NoValue = NoValue
INVARIANTS
  BrokenQueryIsNeverGreen
