SPECIFICATION MCSpec
CONSTANTS
    Sent = {"ringing", "progress", "active", "amd", "bridge", "hangup"}
    Callers = {"timer"}
    Joined = FALSE
    Failures = FALSE
    Reads = FALSE
INVARIANTS
    
    OriginatedNeverBlocks
CHECK_DEADLOCK FALSE
