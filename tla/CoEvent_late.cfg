\* One signalling thread, and a coroutine may wait again at once.
SPECIFICATION Spec
CONSTANTS
    Threads = {t1}
    SchedThread = s
    MaxTimers = 3
    MaxGo = 2
    LateSignals = TRUE
INVARIANTS
    TimerToDeleteLives
