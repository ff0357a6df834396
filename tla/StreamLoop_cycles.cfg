SPECIFICATION Spec
CONSTANTS
    Uids = {u1}
    Contents = {0, 1}
    Reauth = TRUE
    Overtaking = FALSE
    MaxRev = 3
    MaxCycles = 3
INVARIANTS
    NoGhosts
    WireGrammar
    NoTightLoop
PROPERTIES
    RedactionTellsChange
    NothingPastTheGate
    RevokedIsCutOff
CHECK_DEADLOCK FALSE
