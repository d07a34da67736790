SPECIFICATION Spec
CONSTANTS
    Caller = {c1, c2}
    Decoder = decoder
    Viewer = viewer
    Free = free
    Formats = {"text", "webvtt", "rle"}
    MaxTime = 1
    MaxSamples = 2
    MaxSegments = 2
SYMMETRY Callers
INVARIANTS
    TypeOK
    FreshAfterSeek
    TextAnnounced
    StreamWhileDecoding
CHECK_DEADLOCK FALSE
