SPECIFICATION MCSpec
CONSTANTS
    a1 = a1
    a2 = a2
    Attempts = {a1, a2}
    Agents = {g1, g2}
    NoAgent = NoAgent
    Kind <- PredictAndInbound
    HoldAgent = TRUE
    Failing = {a2}
    MaxMiss = 1
    None = None
INVARIANTS
    
    RingsBookedAgent
    PredictAgentNotLost
    
PROPERTIES
    FirstAgentOffered
    ChatConsumerComesBack
    ChatClosedEnds
CHECK_DEADLOCK FALSE
