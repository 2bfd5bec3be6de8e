\* Three processes review, repair a packet and rebuild one task, around one
\* edit of the spec or the files and one lease that ends.
SPECIFICATION Spec
CONSTANTS
  x = x
  y = y
  z = z
  Commands <- MCCommands
  Kinds = {"build", "review", "repair_packet"}
  Contracts = {"first", "retested"}
  CriterionOf <- MCCriterionOf
  FirstContract = "first"
  Histories <- MCUnreviewed
  Lease = 1
  MaxTime = 2
  MaxEdits = 1
  MaxCrashes = 0
  NoMaterial = NoMaterial
  NoReceipt = NoReceipt
INVARIANTS PassAfterFailIsNew
PROPERTIES StartsWhenFree
SYMMETRY MCSymmetry
\* The commands are over in the end.
CHECK_DEADLOCK FALSE
