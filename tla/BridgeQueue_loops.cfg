SPECIFICATION FairSpec
CONSTANTS
    Agents = {g1, g2}
    NoAgent = NoAgent
    Processing = TRUE
    WrapUp = TRUE
    Kinds = {"inbound", "predict", "progressive", "agent"}
    Amd = TRUE
    AfterSchema = {"none", "success", "retry"}
    Faults = {"command"}
    MaxAgents = 2
    MaxTransfers = 1
    MaxRetry = 2
INVARIANTS
    EndsAccounted
    OneAgent
PROPERTIES
    Implements
    MemberGoneEnds
CHECK_DEADLOCK FALSE
