\* Two Json values and three addresses; three files in a cache of two; two
\* strings of up to two characters; all texts up to a length, over an alphabet
\* for each group of functions.
SPECIFICATION Spec
CONSTANTS
    Names = {11, 12}
    Mems = {1, 2, 3}
    Keys = {"k"}
    MaxPool = 1
    MaxKids = 2
    Scheds = {1}
    Urls <- MCUrls
    Root <- MCRoot
    Capacity = 2
    Ttl = 2
    MaxNow = 3
    MaxPast = 1
    Strs = {21, 22}
    Blocks = {1, 2, 3}
    Chars = {"a"}
    MaxSize = 2
    MaxCap = 3
INVARIANTS
    RefsMatch
    CacheLaw
    TextKept
    
    NumberLaw
    RoundTripLaw
CHECK_DEADLOCK FALSE
