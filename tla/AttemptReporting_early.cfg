SPECIFICATION Spec
CONSTANTS
    Reporters = {"r1", "r2"}
    Drafters = {}
    Run = "run"
    Watcher = "watcher"
    Processing = TRUE
    Deadline = TRUE
    MaxRenew = 0
    Prolongation = FALSE
    AfterSchema = FALSE
    Autosave = FALSE
    WrapTime = FALSE
    WaitChannelClose = FALSE
    Transfers = FALSE
    EarlyReports = TRUE
    StoreErrors = FALSE
INVARIANTS NoOrphan
