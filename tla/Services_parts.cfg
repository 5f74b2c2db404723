SPECIFICATION MCSpec
CONSTANTS
    Buffer = 1
    MaxAttempts = 2
    Delivered = {"call", "other", "message", "echo", "transfer"}
    MaxMessages = 3
    MaxLosses = 1
    Switches = {s1, s2}
    NoSwitch = noswitch
    Rates = {0, 30, 65536}
    Errors = {16, 17, 999}
    MaxChanges = 2
    Agents = {g1, g2}
    NoAgent = NoAgent
    Processing = TRUE
    WrapUp = TRUE
    Kinds = {"preview", "offline", "outbound", "always", "ivr", "task", "taskout"}
    AfterSchema = {"none", "success", "abandoned"}
    Faults = {"command", "statement"}
    MaxTransfers = 1

PROPERTIES
    NeverWedged
    
    
    CloseEnds
CHECK_DEADLOCK FALSE
