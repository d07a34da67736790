SPECIFICATION Spec
CONSTANTS
    None = none
    Provider = {p1, p2}
    Tracks <- Growing
    Unknown <- MCUnknown
    SubFrame = 2
    WriteOnly = TRUE
    Grows = TRUE
    Failures = {"alloc", "static", "clear", "render", "copy"}
    MaxTime = 1
    MaxEdits = 1
    MaxSwitches = 2
SYMMETRY Providers
INVARIANTS
    TypeOK
    StoredRight
    DrawnInTime
    NoDeadlock
CHECK_DEADLOCK FALSE
