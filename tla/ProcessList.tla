---------------------------- MODULE ProcessList ----------------------------
(***************************************************************************)
(* The Processes page of the system monitor (sysmonitor.c): the list read  *)
(* from /proc, the row that is highlighted, select_pid, which points into  *)
(* the text of a row, and the buttons Search, Kill and Refresh.  Processes *)
(* come and go meanwhile, also between two rows of one listing.            *)
(***************************************************************************)
EXTENDS Integers, Sequences

CONSTANTS
    Pids,       \* the process numbers in use; 1 never ends
    Mine,       \* those the user may signal
    MaxLists,   \* bound: the listings
    LineHeight, TitleHeight, PageHeight  \* what the window shows of the list

\* What the constants must be.
ListAssumption ==
    /\ 1 \in Pids /\ Pids \subseteq Nat \ {0} /\ Mine \subseteq Pids \ {1}
    /\ MaxLists \in Nat \ {0}
    /\ {LineHeight, TitleHeight, PageHeight} \subseteq Nat \ {0}
    /\ PageHeight > TitleHeight + LineHeight

VARIABLES
    alive,       \* the numbers of the processes there are
    rows,        \* the list: the pid of each row
    left,        \* the numbers readdir has still to give, during a listing
    lists,       \* how often the list was filled
    proc_num,    \* proc_num
    selected,    \* the highlighted row, 0 if there is none
    select_pid,  \* where select_pid points: a listing and a row of it
    entry,       \* the text of the entry: a pid, or 0 for any other
    scroll       \* the adjustment of the scrolled window

list == <<rows, left, lists, proc_num>>
gui == <<selected, select_pid, entry, scroll>>
vars == <<alive, list, gui>>

NULL == [list |-> 0, row |-> 0]
Listing == left # {}
Lowest(S) == CHOOSE p \in S : \A q \in S : p <= q

\* A slip: the pid goes to the entry only.
select_to_entryOnly(row, r) ==
    /\ selected' = row
    /\ entry' = r[row]
    /\ UNCHANGED select_pid

\* select_to_entry: every select_row signal ends here.
select_to_entry(row, r) ==
    /\ selected' = row
    /\ select_pid' = [list |-> lists, row |-> row]
    /\ entry' = r[row]

-----------------------------------------------------------------------------
Birth(p) ==
    /\ alive' = alive \cup {p}
    /\ UNCHANGED <<list, gui>>

Death(p) ==
    /\ p # 1
    /\ alive' = alive \ {p}
    /\ UNCHANGED <<list, gui>>

-----------------------------------------------------------------------------
\* A process that is gone when its file is opened leaves the text of the one
\* before in the buffer.
RowOf(p) == IF p \in alive THEN p ELSE rows[Len(rows)]

\* A slip: refresh_proc leaves the selection as it was.
get_processes_infoOnly ==
    /\ Listing
    /\ rows' = Append(rows, RowOf(Lowest(left)))
    /\ left' = left \ {Lowest(left)}
    /\ proc_num' = proc_num + 1
    /\ UNCHANGED <<alive, lists, gui>>

\* A slip: a name whose file cannot be opened is tried again.
get_processes_infoRetry ==
    /\ Listing
    /\ IF Lowest(left) \notin alive THEN UNCHANGED vars
       ELSE /\ rows' = Append(rows, Lowest(left))
            /\ left' = left \ {Lowest(left)}
            /\ proc_num' = proc_num + 1
            /\ IF left' = {} /\ lists > 1
               THEN select_to_entry(1, rows')
               ELSE UNCHANGED <<selected, select_pid, entry>>
            /\ UNCHANGED <<alive, lists, scroll>>

\* get_processes_info, one name of /proc at a time; readdir gives the lowest next.
get_processes_info ==
    /\ Listing
    /\ rows' = Append(rows, RowOf(Lowest(left)))
    /\ left' = left \ {Lowest(left)}
    /\ proc_num' = proc_num + 1
    \* The end of refresh_proc selects the first row.
    /\ IF left' = {} /\ lists > 1
       THEN select_to_entry(1, rows')
       ELSE UNCHANGED <<selected, select_pid, entry>>
    /\ UNCHANGED <<alive, lists, scroll>>

\* A slip: the rows of the last listing are still counted.
refresh_procCounts ==
    /\ ~Listing /\ lists < MaxLists
    /\ rows' = <<>> /\ lists' = lists + 1
    /\ left' = alive
    /\ selected' = 0
    /\ UNCHANGED <<proc_num, alive, select_pid, entry, scroll>>

\* refresh_proc clears the list, and with it the highlighted row.
refresh_proc ==
    /\ ~Listing /\ lists < MaxLists
    /\ rows' = <<>> /\ proc_num' = 0 /\ lists' = lists + 1
    /\ left' = alive
    /\ selected' = 0
    /\ UNCHANGED <<alive, select_pid, entry, scroll>>

-----------------------------------------------------------------------------
\* A click turns the highlight of a row on or off, and only on is signalled.
Click(row) ==
    /\ ~Listing
    /\ IF selected = row
       THEN selected' = 0 /\ UNCHANGED <<select_pid, entry>>
       ELSE select_to_entry(row, rows)
    /\ UNCHANGED <<alive, list, scroll>>

Type(p) ==
    /\ ~Listing
    /\ entry' = p
    /\ UNCHANGED <<alive, list, selected, select_pid, scroll>>

Upper == TitleHeight + LineHeight * Len(rows)

\* A slip: the line is counted from 1.
scroll_lineFromOne(row) ==
    LET to_value == (Upper * (row + 1)) \div proc_num
        max_value == IF Upper > PageHeight THEN Upper - PageHeight ELSE 0
    IN  IF to_value > max_value THEN max_value ELSE to_value

\* scroll_line: rows are counted from 0 there.
scroll_line(row) ==
    LET to_value == (Upper * row) \div proc_num
        max_value == IF Upper > PageHeight THEN Upper - PageHeight ELSE 0
    IN  IF to_value > max_value THEN max_value ELSE to_value

Found == {r \in 1 .. Len(rows) : rows[r] = entry}

\* With no such row the row behind the last is selected, which does nothing.
search_proc ==
    /\ ~Listing
    /\ IF Found # {}
       THEN select_to_entry(Lowest(Found), rows) /\ scroll' = scroll_line(Lowest(Found) - 1)
       ELSE scroll' = scroll_line(Len(rows)) /\ UNCHANGED <<selected, select_pid, entry>>
    /\ UNCHANGED <<alive, list>>

\* The process that has the number now is killed; when the user may not, or it
\* is gone, a box is shown.
kill_proc ==
    /\ ~Listing /\ select_pid # NULL
    /\ alive' = alive \ ({rows[select_pid.row]} \cap Mine)
    /\ UNCHANGED <<list, gui>>

-----------------------------------------------------------------------------
\* main fills the list before it connects the select_row signal.
Init ==
    /\ alive \in SUBSET Pids /\ 1 \in alive
    /\ left = alive
    /\ rows = <<>> /\ lists = 1 /\ proc_num = 0
    /\ selected = 0 /\ select_pid = NULL /\ entry = 0 /\ scroll = 0

Next ==
    \/ \E p \in Pids : Birth(p) \/ Death(p)
    \/ get_processes_info \/ refresh_proc
    \/ \E row \in 1 .. Len(rows) : Click(row)
    \/ \E p \in Pids : Type(p)
    \/ search_proc \/ kill_proc

\* A listing that was begun is carried on; nobody has to press a button.
Spec == Init /\ [][Next]_vars /\ WF_vars(get_processes_info)

-----------------------------------------------------------------------------
TypeOK ==
    /\ alive \subseteq Pids /\ rows \in Seq(Pids)
    /\ lists \in 1 .. MaxLists /\ proc_num = Len(rows)
    /\ selected \in 0 .. Len(rows) /\ entry \in Pids \cup {0}
    /\ scroll \in Nat

\* select_pid points into memory that refresh_proc gives back: whenever a button
\* can be pressed, it points into a row of the list that is there.
SelectPidLive ==
    ~Listing /\ select_pid # NULL =>
        select_pid.list = lists /\ select_pid.row \in 1 .. Len(rows)

\* A row that is highlighted is the one select_pid is of, so Kill without a
\* click in between goes to the row that is seen.
HighlightIsSelected ==
    ~Listing /\ selected # 0 => select_pid = [list |-> lists, row |-> selected]

\* The list, its highlight and the pointer into it go together.
SelectionLives == TypeOK /\ SelectPidLive /\ HighlightIsSelected

\* The row Search finds is in view, wherever it is in the list.
SearchShows ==
    [][search_proc /\ Found # {} =>
          LET top == TitleHeight + LineHeight * (Lowest(Found) - 1)
          IN  scroll' <= top /\ top + LineHeight <= scroll' + PageHeight]_vars

\* Every listing ends, whatever comes and goes meanwhile.
ListingEnds == Listing ~> ~Listing
=============================================================================
