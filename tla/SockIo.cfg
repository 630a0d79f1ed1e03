\* Two coroutines of one scheduler share sockets, a third one in another
\* scheduler serves connections they accepted and gets descriptors they closed.
SPECIFICATION Spec
CONSTANTS
    Scheds = {s1, s2}
    Fds = {1, 2}
    Cos = {c1, c2, c3}
    NoCo = NoCo
    SchedOf <- MCSchedOf
    MaxIn = 1
    Room = 1
    Need = 2
    Chunk = 1
    MaxOpen = 2
    Programs <- MCPrograms
    Careless = FALSE
    c1 = c1
    c2 = c2
    c3 = c3
    s1 = s1
    s2 = s2
INVARIANTS
    EntriesMatch
    NoLostEdge
    NoStrayResume
