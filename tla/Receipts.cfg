SPECIFICATION Spec
CONSTANTS
    src = src
    new = new
    gen = gen
    out = out
    spc = spc
    b1 = b1
    b2 = b2
    claude = claude
    codex = codex
    Gone = Gone
    Failed = Failed
    Human = Human
    Unknown = Unknown
    NoReview = NoReview
    NoReceipt = NoReceipt
    Paths <- MCPaths
    Bytes = {b1, b2}
    Runtime = {spc}
    Ignored = {gen}
    Odd = {gen}
    Pinned = {out}
    Detected <- MCDetected
    Scopes <- MCScopes
    Hints <- MCHints
    Alone <- MCAlone
    SpecFile = spc
    Criterion = out
    Good = {b1}
    Outputs <- MCOutputs
    Vendors = {claude, codex}
    Repositories <- MCRepositories
    MaxActs = 2
    MaxTime = 1
SYMMETRY Vendor
CHECK_DEADLOCK FALSE
INVARIANTS TypeOK SealsAgree
PROPERTIES  ReceiptAttestsReview SignedSurvivesAcceptance VerifyIsSound HonestReceiptVerifies
