\* Two threads push, either may close the logger, and a signal may interrupt
\* any thread.
SPECIFICATION FairSpec
CONSTANTS
    Apps = {a1, a2}
    Closers = {a1, a2}
    MaxLogs = 4
    MaxBuf = 2
INVARIANTS
    LogsKept
    StopWritesAll
PROPERTIES
    StopEnds
CHECK_DEADLOCK FALSE
