SPECIFICATION Spec
CONSTANTS
    Attempts = {q1, q2}
    Vals = {"a", "b"}
    MaxRev = 4
    MaxUid = 2
    MaxSnapshots = 1
    MaxReads = 1
SYMMETRY Symmetry
INVARIANTS
    AnswersAreTrue
    DrainedIsCurrent
PROPERTIES
    NoLostUpdate
    OnlyTheStreamGoesBack
CHECK_DEADLOCK FALSE
