\* Three reviews of a built task, nothing else.
SPECIFICATION Spec
CONSTANTS
  x = x
  y = y
  z = z
  Commands <- MCCommands
  Kinds = {"review"}
  Contracts = {"first"}
  CriterionOf <- MCCriterionOf
  FirstContract = "first"
  Histories <- MCBuilt
  Lease = 1
  MaxTime = 2
  MaxEdits = 0
  MaxCrashes = 0
  NoMaterial = NoMaterial
  NoReceipt = NoReceipt
INVARIANT NoDuplicateSpend
SYMMETRY MCSymmetry
\* The commands are over in the end.
CHECK_DEADLOCK FALSE
