\* Two tasks; see MCCalls for the other constants of each part.
SPECIFICATION MCSpec
CONSTANTS
    weak = weak
    able = able
    f1 = f1
    f2 = f2
    kid = kid
    u1 = u1
    u2 = u2
    ch1 = 1
    ch2 = 2
    Subjects = {"CPU", "NOFILE", "fields", "files", "vector", "usage", "name", "DATA", "NICE", "nice"}
    NoFile = NoFile
    Procs = {weak, able}
    Capable = {able}
    MayChange <- OneWay
    Resources = {"CPU", "NOFILE", "DATA", "NICE"}
    Requests <- Asked
    Infinity = 3
    NrOpen = 2
    Nobody = Nobody
    Threads = {weak, able}
    Resource = {weak, able}
    MapAdmin = {able}
    Files = {f1, f2}
    MinAddr = 1
    TaskSize = 6
    Owner = weak
    FirstMap <- Base
    MapRequests <- Maps
    Options = {"start_data", "end_data", "start_brk", "brk"}
    Vectors <- Touched
    AuxWords = 3
    Tasks = {weak, able}
    Callers = {weak, able}
    NiceCapable = {able}
    Users = {u1, u2}
    Pgrp <- InOneGroup
    FirstNice <- NiceOfOne
    FirstUid <- UidOfU1
    FirstEuid <- Setuid
    FirstSuid <- Setuid
    Setid = {weak}
    Keep = Keep
    MIN_NICE = 0
    MAX_NICE = 2
    Given = {0, 3}
    Targets <- Aimed
    Children = {kid}
    MaxCount = 1
    MaxCalls = 3
    Admin = {weak, able}
    NEW_UTS_LEN = 2
    OLD_UTS_LEN = 1
    Names <- HostNames
    Lens <- Lengths
    NUL = 0
INVARIANTS
    LimitsInv
    MapInv
    PriorityInv
    UsageInv
    NameInv
PROPERTIES
    HardFalls
    EveryCallEnds
\* Where every task has ended, nothing more happens.
CHECK_DEADLOCK FALSE
