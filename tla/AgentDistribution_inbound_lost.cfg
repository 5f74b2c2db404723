SPECIFICATION Spec
CONSTANTS
    a1 = a1
    a2 = a2
    Attempts = {a1, a2}
    Agents = {g1, g2}
    NoAgent = NoAgent
    Kind <- PredictAndInbound
    HoldAgent = TRUE
    Failing = {}
    MaxMiss = 0
INVARIANT FirstAgentNotLost
