\* Two processes, one of which may be killed: what has to happen in the end.
SPECIFICATION FairSpec
CONSTANTS
  x = x
  y = y
  z = z
  Commands <- MCPair
  Kinds = {"approve", "build", "review", "finalize"}
  Contracts = {"first"}
  CriterionOf <- MCCriterionOf
  FirstContract = "first"
  Histories <- MCAll
  Lease = 1
  MaxTime = 2
  MaxEdits = 0
  MaxCrashes = 1
  NoMaterial = NoMaterial
  NoReceipt = NoReceipt
INVARIANTS ApprovalIsLogged
PROPERTIES LeaseEnds CommandsEnd
\* The commands are over in the end.
CHECK_DEADLOCK FALSE
