\* A client, with the right password, a wrong one or none, makes three calls.
SPECIFICATION FairSpec
CONSTANTS
    PoolScheds = {"s"}
    Elems = {1, 2}
    MaxCap = 2
    MaxConn = 2
    MaxCalls = 3
    ServerPass = "p"
    ClientPasses = {"p", "q", None}
    None = None
    MaxIdle = 1
    LogInfo = TRUE
INVARIANTS
    AnswersMatch
    AuthedOnly
    BuffersOwnedOnce
PROPERTIES
    CallsReturn
CHECK_DEADLOCK FALSE
