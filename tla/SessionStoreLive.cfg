\* Two goroutines of one process, one append each, with two faults.
CONSTANTS
  a1 = a1  a2 = a2  b1 = b1  p = p  q = q
  Callers = {a1, a2}
  Processes = {p, q}
  Process <- MCProcess
  Tags <- MCTags
  OldTag = OldTag
  Nobody = Nobody
  Ghost = Ghost
  NoDigest = NoDigest
  NoHead = NoHead
  Revocable = {}
  MaxCalls = 1
  MaxFaults = 2
SPECIFICATION FairSpec
\* The calls are over in the end.
CHECK_DEADLOCK FALSE
PROPERTIES
  CallsReturn LocksReleased
