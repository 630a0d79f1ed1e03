\* Two signalling threads against coroutines that start no wait while an earlier
\* signal() is still at work.
SPECIFICATION FairSpec
CONSTANTS
    Threads = {t1, t2}
    SchedThread = s
    MaxTimers = 3
    MaxGo = 2
    LateSignals = FALSE
INVARIANTS
    ResumedOnce
    TimersMatch
    PoolIsInit
PROPERTIES
    WaitResult
    WaitsEnd
