SPECIFICATION Spec
CONSTANTS
    Callers = {c1, c2}
    RetryMin = 1
    RetryMax = 1
    MinUseful = 1
    Hints = {0, 2}
    MaxInc = 2
    MaxTime = 1
INVARIANTS
    SharesAreHeld
    OneUpstream
PROPERTY
    UpstreamsReleased
CHECK_DEADLOCK FALSE
