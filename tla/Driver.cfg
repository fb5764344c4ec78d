\* A buffer of three bytes, two threads and two open files, named alike: the
\* processes of the test share no file.
SPECIFICATION MCSpec
CONSTANTS
    MemSize = 3
    SizeMod = 8
    Greeting <- Hi
    NUL = "NUL"
    Files = {t1, t2}
    Callers = {t1, t2}
    Data <- Pair
    Counts = {4}
    Offsets <- BackOrStay
    MaxSeek = 3
    Texts <- Users
    MaxOpen = 2
    MaxLoads = 3
INVARIANTS
    StaysInside
    LoneWriteStands
    TestsInv
    ModuleInv
PROPERTIES
    EveryTestEnds
\* The tests and the loads come to an end.
CHECK_DEADLOCK FALSE
