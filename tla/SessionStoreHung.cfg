\* Two goroutines of one process and one of another, one append each and one
\* cancellation, while whoever holds a lock may hang for ever.
CONSTANTS
  a1 = a1  a2 = a2  b1 = b1  p = p  q = q
  Callers = {a1, a2, b1}
  Processes = {p, q}
  Process <- MCProcess
  Tags <- MCTags
  OldTag = OldTag
  Nobody = Nobody
  Ghost = Ghost
  NoDigest = NoDigest
  NoHead = NoHead
  Revocable = {}
  MaxCalls = 1
  MaxFaults = 1
SPECIFICATION HungHolderSpec
\* The calls are over in the end.
CHECK_DEADLOCK FALSE
PROPERTIES
  CancelledWaitersLeave
