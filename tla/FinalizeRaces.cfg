\* Three processes, one of which may be killed, review a reviewed task again,
\* override, finalize, complete or cancel it, around one edit.
SPECIFICATION Spec
CONSTANTS
  x = x
  y = y
  z = z
  Commands <- MCCommands
  Kinds = {"force_review", "human_review", "finalize", "complete", "cancel"}
  Contracts = {"first", "reworded"}
  CriterionOf <- MCCriterionOf
  FirstContract = "first"
  Histories <- MCReviewed
  Lease = 1
  MaxTime = 1
  MaxEdits = 1
  MaxCrashes = 1
  NoMaterial = NoMaterial
  NoReceipt = NoReceipt
INVARIANTS OneReceipt NothingUnanchored ReceiptRecoverable ReceiptRestsOnReview 
SYMMETRY MCSymmetry
\* The commands are over in the end.
CHECK_DEADLOCK FALSE
