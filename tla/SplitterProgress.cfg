SPECIFICATION FairSpec
CONSTANTS
    Outputs = 1
    Continuous = {1}
    Switched = {}
    MinPackets = 1
    MaxPackets = 1
    Failures = {"deliver", "begin"}
    Grows = TRUE
    Stops = {"active", "stopped"}
    Length = 1
    MaxRuns = 2
PROPERTIES
    CallsReturn
CHECK_DEADLOCK FALSE
