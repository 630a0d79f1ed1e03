\* Two coroutines, delays that fit into a signed integer.
SPECIFICATION FairSpec
CONSTANTS
    Users = {u1, u2}
    Nodes = {n1, n2}
    IntMax = 3
    Delays = {0, 1, 3}
    Busy = 1
INVARIANTS
    IteratorsLive
    NotEarly
    NoOversleep
PROPERTIES
    TimerFires
