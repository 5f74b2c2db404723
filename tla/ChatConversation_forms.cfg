SPECIFICATION MCSpec
CONSTANTS
    Attempts = {c1, c2}
    None = None
    Capacity = 1
    Burst = 1
    Causes = {"client_leave", "transfer"}
    Cancels = TRUE
    Failures = FALSE
    TransferAbandons = FALSE
    MaxOffers = 1
    MaxLeaves = 1
    Requests = {"note", "agent_id"}
    SystemNamed = {"agent_id"}
    NoRequest = "none"
    LastPage = 3
SYMMETRY Symmetry
INVARIANTS
    StoreExact
    FieldsSurvive
    ViewIsLatest
    FormIsShown
CHECK_DEADLOCK FALSE
