CONSTANTS
  Keys = {k1, k2, k3}
  Values = {v1, v2}
  Size = 2
  Lifetimes = {0, 1}
  MaxTime = 2
  MaxGeneration = 1
  None = none
  Callers = {c1, c2}
  NoCaller = nobody
  Replicas = {r1, r2}
  MaxEdits = 1
  Kinds = {"queue", "resource", "team", "agent", "record_all"}
  Attempts = {a1, a2}
  Objs = {o1, o2, o3}
  NoObj = noobj
  MaxErrors = 2
  ErrorMasks <- MCMasks
  Codes <- MCCodes
  Agents = {g1}
  Requests = {q1}
  Watcher = w
  MaxNoAnswer = 2
  MinOnline = {0, 1}
  Faults = TRUE
SPECIFICATION MCSpec

    
    
PROPERTIES
    CacheIsMap
    EditsAreSeen
