\* One provider call of each kind: two writes, two tool calls, a descendant
\* that stays in the group or leaves it, and an interrupt at any time.
SPECIFICATION FairSpec
CONSTANTS
  Noise = Noise
  NoPacket = NoPacket
  Removed = Removed
  Chunks <- MCChunks
  Raw <- MCRaw
  Requests <- MCRequests
  ExitCodes <- MCExitCodes
  Timeout = 2
  IdleTimeout = 1
  Grace = 1
  MaxCapture = 1
  MaxOutput = 2
  Outputs <- MCOutputs
  MaxCalls = 2
INVARIANTS VerdictIsEarned HeardSubmissionDecides OutputComplete
PROPERTY CallEnds
