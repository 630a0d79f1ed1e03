\* One waiter, and a condition variable that may wake up spuriously.
SPECIFICATION EvSpec
CONSTANTS
    Waiters = {w}
    Manual = FALSE
    Spurious = TRUE
INVARIANTS
    WokenIsSignaled
