SPECIFICATION PlaySpec
CONSTANTS
    Outputs = 2
    Continuous = {1, 2}
    Switched = {2}
    MinPackets = 1
    MaxPackets = 1
    Failures = {}
    Grows = FALSE
    Stops = {}
    Length = 3
    MaxRuns = 1
INVARIANTS
    TypeOK
PROPERTIES
    EndReached
CHECK_DEADLOCK FALSE
