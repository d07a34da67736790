SPECIFICATION Spec
CONSTANTS
    Outputs = 1
    Continuous = {1}
    Switched = {}
    MinPackets = 1
    MaxPackets = 1
    Failures = {"deliver", "begin"}
    Grows = TRUE
    Stops = {"active", "stopped"}
    Length = 2
    MaxRuns = 3
INVARIANTS
    StaleAtMostOne
    LateAtMostTwo
PROPERTIES
    UnderItsSegment
    InOrder
CHECK_DEADLOCK FALSE
