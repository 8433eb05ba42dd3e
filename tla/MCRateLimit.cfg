SPECIFICATION Spec
CONSTANTS
    Request = {r1, r2}
    Limit = 2
    Minute = 2
    Slack = 1
    MaxTime = 5
    MaxCount = 4
    MaxErrors = 1
SYMMETRY Symmetry
INVARIANTS
    LimitPerMinute
PROPERTIES
    StrandedByError
