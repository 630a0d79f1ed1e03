\* A one-shot, a daily and an immediate task, and a call of stop().
SPECIFICATION FairSpec
CONSTANTS
    Ids = {"a", "b", "z"}
    Job <- MCJobs
    K = 1
    Day = 2
    Busy = 1
    Late = 0
    MaxAge = 3
    MayStop = TRUE
INVARIANTS
    OnceInLists
    SignalKept
PROPERTIES
    NotEarly
    EveryTaskRuns
    StopReturns
CHECK_DEADLOCK FALSE
