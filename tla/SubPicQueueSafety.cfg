SPECIFICATION Spec
CONSTANTS
    Client = {c1}
    Renderer = renderer
    Free = free
    Provider = {p1}
    NoProvider = noProvider
    NoPic = noPic
    Tracks <- AnimationText
    Unknown <- MCUnknown
    Size = 2
    AnimationRate = 100
    FrameTimes = {2}
    Ahead = 2
    Blocking = {TRUE, FALSE}
    Failures = {}
    MaxTime = 2
    MaxSetTime = 2
    MaxEdits = 2
INVARIANTS
    TypeOK
    StopsAscend
    FullNotified
    ReadyNotified
    ResultShowsClock
PROPERTIES
    StaleOnlyIfOverwritten
    LookupFindsExact
    ImplementsBuffer
CHECK_DEADLOCK FALSE
