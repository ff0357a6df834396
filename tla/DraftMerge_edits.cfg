SPECIFICATION Spec
CONSTANTS
    Keys = {labels, data}
    SecretKeys = {data}
    Fields = {f, g}
    Scalars = {v1, v2}
    Absent = Absent
INVARIANTS
    TypeOK
    DraftIsEditsOverServer
    ConflictsAreExact
    WithheldIsUntouched
CHECK_DEADLOCK FALSE
