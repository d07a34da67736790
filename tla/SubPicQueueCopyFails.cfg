SPECIFICATION Spec
CONSTANTS
    Client = {c1}
    Renderer = renderer
    Free = free
    Provider = {p1}
    NoProvider = noProvider
    NoPic = noPic
    Tracks <- OneTrack
    Unknown <- MCUnknown
    Size = 2
    AnimationRate = 100
    FrameTimes = {2}
    Ahead = 4
    Blocking = {TRUE}
    Failures = {"copy"}
    MaxTime = 3
    MaxSetTime = 2
    MaxEdits = 2
INVARIANTS
    AllDrawn
CHECK_DEADLOCK FALSE
