\* Two threads and the scheduler add two tasks; either thread may stop it.
SPECIFICATION WakeFairSpec
CONSTANTS
    OtherThreads = {t1, t2}
    Sched = s
    Tasks = {a, b}
    Stoppers = {t1, t2}
INVARIANTS
    NoLostWakeup
PROPERTIES
    EveryTaskTaken
    StopCompletes
CHECK_DEADLOCK FALSE
