\* Two schedulers, three coroutines (two share a scheduler), one thread.
SPECIFICATION FairSpec
CONSTANTS
    c1 = c1
    c2 = c2
    c3 = c3
    s1 = s1
    s2 = s2
    Cos = {c1, c2, c3}
    Threads = {t}
    Scheds = {s1, s2}
    Home <- MCHome
    None = None
INVARIANTS
    MutualExclusion
    ResumeYielded
PROPERTIES
    ImplementsFairLock
    NoStarvation
