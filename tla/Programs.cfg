\* Curves of three samples; see MCPrograms for the other parts.
SPECIFICATION MCSpec
CONSTANTS
    Curves = {"cpu", "mem"}
    Points = 3
    Cycle = 3
    Advances <- IdleOrBusy
    MemTotal = 1
    NaN = NaN
    Pids = {1, 2, 3, 4}
    Mine = {2, 3}
    MaxLists = 3
    LineHeight = 3
    TitleHeight = 1
    PageHeight = 6
    Word = 4
    TwoSeconds <- EitherOrBoth
    Callers = {"call"}
    Programs = {"program"}
    Names = {"a", "b"}
    Contents <- NoneOneThree
    Absent = Absent
    BufLen = 2
    MaxCalls = 1
INVARIANTS
    MetersInv
    SelectionLives
    WindowsInv
    FaultlessCopies
    WaysOut
PROPERTIES
    CurvesSlide
    MemSettles
    SearchShows
    ProgramsEnd
\* The programs end when their windows are closed.
CHECK_DEADLOCK FALSE
