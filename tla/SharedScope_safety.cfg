SPECIFICATION Spec
CONSTANTS
    Subs = {c1, c2}
    Uids = {u1}
    QueueDepth = 2
    MaxRev = 3
    Stray = {3}
INVARIANTS
    TypeOK
    NothingLost
    NoSilentEnd
    NoPartialSnapshot
    UpstreamOwned
PROPERTIES
    NeverOlder
    SnapshotReachesReader
    EveryoneIsTold
CHECK_DEADLOCK FALSE
