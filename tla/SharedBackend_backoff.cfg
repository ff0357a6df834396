SPECIFICATION Spec
CONSTANTS
    Callers = {c1}
    RetryMin = 1
    RetryMax = 2
    MinUseful = 1
    Hints = {3}
    MaxInc = 3
    MaxTime = 4
PROPERTIES
    FailingUpstreamLeftAlone
CHECK_DEADLOCK FALSE
