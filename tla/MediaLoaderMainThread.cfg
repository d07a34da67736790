SPECIFICATION Spec
CONSTANTS
    MaxOpens = 3
    MainMedia = {1}
    MaxSent = 0
    MissingDrives = FALSE
    ReportFailedPins = FALSE
    PromptFlag = TRUE
INVARIANTS
    ResultsOnMain
CHECK_DEADLOCK FALSE
