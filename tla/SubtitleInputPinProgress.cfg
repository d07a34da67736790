SPECIFICATION FairSpec
CONSTANTS
    Caller = {c1, c2}
    Decoder = decoder
    Viewer = viewer
    Free = free
    Formats = {"text"}
    MaxTime = 0
    MaxSamples = 2
    MaxSegments = 1

PROPERTIES
    SamplesLeave
    CallsEnd
    DestroyEnds
CHECK_DEADLOCK FALSE
