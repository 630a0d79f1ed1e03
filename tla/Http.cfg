\* A peer that sends requests at once or one after the other; two peers; a
\* client that makes two calls.
SPECIFICATION Spec
CONSTANTS
    PoolScheds = {"s"}
    Elems = {1, 2}
    MaxCap = 1
    MaxConn = 2
    Scenes <- MCScenes
    Requests <- MCRequests
    MaxHeader = 2
    MaxIdle = 1
    LogInfo = TRUE
INVARIANTS
    InOrder
    BuffersOwnedOnce
    OwnAnswer
CHECK_DEADLOCK FALSE
