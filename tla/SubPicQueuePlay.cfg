SPECIFICATION PlaySpec
CONSTANTS
    Client = {c1}
    Renderer = renderer
    Free = free
    Provider = {p1}
    NoProvider = noProvider
    NoPic = noPic
    Tracks <- GapTrack
    Unknown <- MCUnknown
    Size = 1
    AnimationRate = 100
    FrameTimes = {2, 3}
    Ahead = 4
    Blocking = {TRUE}
    Failures = {}
    MaxTime = 2
    MaxSetTime = 1
    MaxEdits = 2
PROPERTIES
    EventuallyShown
CHECK_DEADLOCK FALSE
