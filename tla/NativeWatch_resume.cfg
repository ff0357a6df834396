SPECIFICATION Spec
CONSTANTS
    Uids = {u1, u2}
    MaxRetries = 1
    MaxRev = 4
INVARIANTS
    CheckpointIsHeld
    LiveIsComplete
    BudgetHolds
PROPERTIES
    OnlyTheGoneArePruned
    NothingAfterClose
    Settles
CHECK_DEADLOCK FALSE
