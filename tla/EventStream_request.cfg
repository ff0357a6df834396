SPECIFICATION Spec
CONSTANTS
    Policies <- MCPolicies
    Requests <- MCRequests
    WriteTimeout = TRUE
    MaxSeq = 2
INVARIANTS
    AppliedIsPrefix
    TornIsLast
    TruthfulEnd
    NoGateIsSkipped
PROPERTY
    EverybodyLeaves
CHECK_DEADLOCK FALSE
