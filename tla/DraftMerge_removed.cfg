SPECIFICATION Spec
CONSTANTS
    Keys = {labels, spec}
    SecretKeys = {}
    Fields = {f, g}
    Scalars = {v1}
    Absent = Absent
PROPERTY
    RemovedStaysRemoved
CHECK_DEADLOCK FALSE
