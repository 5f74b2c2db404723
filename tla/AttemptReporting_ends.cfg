SPECIFICATION MCSpec
CONSTANTS
    Reporters = {"r1", "r2"}
    Drafters = {"r2"}
    Run = "run"
    Watcher = "watcher"
    Processing = TRUE
    Deadline = TRUE
    MaxRenew = 1
    Prolongation = TRUE
    AfterSchema = TRUE
    Autosave = TRUE
    WrapTime = TRUE
    WaitChannelClose = TRUE
    Transfers = TRUE
    EarlyReports = FALSE
    StoreErrors = FALSE
INVARIANTS
    NoOrphan
    
    LeavesOnceInRaces
PROPERTIES
    OverIsFinal
    AttemptEnds
    LegIsForgotten
CHECK_DEADLOCK FALSE
