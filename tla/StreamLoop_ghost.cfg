SPECIFICATION Spec
CONSTANTS
    Uids = {u1}
    Contents = {0}
    Reauth = FALSE
    Overtaking = TRUE
    MaxRev = 2
    MaxCycles = 1
INVARIANT NoGhosts
CHECK_DEADLOCK FALSE
