\* Two tasks with three users and two groups; five processes, init included.
SPECIFICATION MCSpec
CONSTANTS
    Tasks = {"t1", "t2"}
    UIds = {0, 1, 2}
    GIds = {10, 11}
    Root = 0
    Keep = 99
    NprocLimit = 1
    Pids = {init, p1, p2, p3, p4}
    InitPid = init
    NoPid = NoPid
SYMMETRY Symmetric
CONSTRAINT Small
INVARIANTS
    CredentialsInv
    RefsCounted
    JobsInv
    DescendantsFlagged
PROPERTIES
    DropIsFinal
    GroupsOnlyShrink
    ImplementsPrivilege
    NewSessionAlone
    OrphansReachReaper
