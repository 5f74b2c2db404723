SPECIFICATION Spec
CONSTANTS
    r1 = r1
    r2 = r2
    a1 = a1
    n1 = n1
    n2 = n2
    j1 = j1
    j2 = j2
    m1 = m1
    m2 = m2
    m3 = m3
    m4 = m4
    Requests = {r1, r2}
    Mixes <- MCMixes
    Queued = {a1}
    Managers = {n1, n2}
    Jobs = {j1, j2}
    JobQueueSize = 1
    MaxRestarts = 1
    Nodes = {n1, n2}
    Rows = {m1}
    MaxEnds = 2
    Members = {m1, m2, m3, m4}
    Hooked = {m1, m2, m3}
    ExpiredLimit = 2
    ExpiredWorkers = 1
    ExpiredQueue = 1
    Peers = {n1, n2}
    MaxDeaths = 2
INVARIANTS
    
    ActiveIsHeld
    
PROPERTIES
    ShutdownEnds
    
    MasterLives
CHECK_DEADLOCK FALSE
