SPECIFICATION FairSpec
CONSTANTS
    Client = {c1}
    Renderer = renderer
    Free = free
    Provider = {p1}
    NoProvider = noProvider
    NoPic = noPic
    Tracks <- ShortTrack
    Unknown <- MCUnknown
    Size = 1
    AnimationRate = 100
    FrameTimes = {2}
    Ahead = 4
    Blocking = {TRUE}
    Failures = {"static"}
    MaxTime = 1
    MaxSetTime = 1
    MaxEdits = 2
PROPERTIES
    DestroyEnds
    CallsEnd
    ProviderUnlocked
CHECK_DEADLOCK FALSE
