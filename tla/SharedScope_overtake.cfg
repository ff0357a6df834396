SPECIFICATION Spec
CONSTANTS
    Subs = {c1}
    Uids = {u1}
    QueueDepth = 1
    MaxRev = 2
    Stray = {2}
INVARIANT SnapshotBeforeLive
CHECK_DEADLOCK FALSE
