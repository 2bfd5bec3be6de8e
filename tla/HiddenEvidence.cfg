\* Two builds of a short contract, nothing fails: does evidence the operator
\* attached take the task to review?
SPECIFICATION FairSpec
CONSTANTS
  b1 = b1  b2 = b2  p1 = p1  p2 = p2  k1 = k1  k2 = k2
  test = test  lint = lint
  Builders <- MCBoth
  Ids = {k1, k2}
  Phases = {p1, p2}
  Commands = {test, lint}
  NoCommand = NoCommand
  Final = Final
  None = None
  Contracts <- MCShort
  FirstContract <- Short
  MaxTrouble = 0
PROPERTIES EvidenceIsConsumed
