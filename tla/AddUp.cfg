\* As Programs.cfg: the window that adds up the numbers.
SPECIFICATION MCSpec
CONSTANTS
    Curves = {"cpu", "mem"}
    Points = 3
    Cycle = 3
    Advances <- IdleOrBusy
    MemTotal = 1
    NaN = NaN
    Pids = {1, 2, 3, 4}
    Mine = {2, 3}
    MaxLists = 3
    LineHeight = 3
    TitleHeight = 1
    PageHeight = 6
    Word = 4
    TwoSeconds <- EitherOrBoth
    Callers = {"call"}
    Programs = {"program"}
    Names = {"a", "b"}
    Contents <- NoneOneThree
    Absent = Absent
    BufLen = 2
    MaxCalls = 1
PROPERTY
    AddsTo100
CHECK_DEADLOCK FALSE
