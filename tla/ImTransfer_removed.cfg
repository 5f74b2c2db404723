SPECIFICATION Spec
CONSTANTS
    Attempts = {a1, a2}
    First = a1
    Agents = {x1, x2}
    None = None
    Failures = FALSE
    Direct = {TRUE}
    Sources = {a1}
    Calls = {"accept"}
    MaxOffers = 1
INVARIANT SessionEndsWithClient
CHECK_DEADLOCK FALSE
