SPECIFICATION MCSpec
CONSTANTS
    Attempts = {a1, a2, a3}
    First = a1
    Agents = {x1, x2}
    None = None
    Failures = TRUE
    Direct = {TRUE, FALSE}
    Sources = {a1}
    Calls = {"accept", "close", "report", "client leaves", "agent leaves"}
    MaxOffers = 2
SYMMETRY Symmetry
INVARIANTS
    PreviewsRevoked
    NoAgentLeft
    
CHECK_DEADLOCK FALSE
