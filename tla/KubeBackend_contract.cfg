SPECIFICATION Spec
CONSTANTS
    Streams = {s1, s2}
    Uids = {u1, u2, other}
    Wanted = {u1, u2}
    Faults = {"redirect", "untrusted", "network", "refused422", "refused403", "expired", "unauthorized",
              "forbidden", "notFound", "tooManyRequests", "serverError", "invalid", "other"}
    Present = {u1}
    MaxRev = 3
INVARIANTS
    MemoryIsEarned
PROPERTIES
    TerminalIsPermanent
    ImplementsContract
CHECK_DEADLOCK FALSE
