SPECIFICATION FairSpec
CONSTANTS
    MaxOpens = 4
    MainMedia = {4}
    MaxSent = 1
    MissingDrives = TRUE
    ReportFailedPins = TRUE
    PromptFlag = TRUE
INVARIANTS
    TypeOK
    GraphExclusive
    ResultFresh
    ClosedClean
    OwnedOnce
PROPERTIES
    LostByTermination
    ImplementsPlayer
    CloseCompletes
    OpenResolves
    Quits
CHECK_DEADLOCK FALSE
