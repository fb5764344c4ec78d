---------------------------- MODULE UserPrograms ----------------------------
(***************************************************************************)
(* The programs a user runs: the pages of the system monitor (LoadMeters   *)
(* and ProcessList), the three windows of procUI, and the two copiers.     *)
(* They share no state.                                                    *)
(***************************************************************************)
EXTENDS LoadMeters

CONSTANTS
    Pids, Mine, MaxLists, LineHeight, TitleHeight, PageHeight,
    Word, TwoSeconds,
    Callers, Programs, Names, Contents, Absent, BufLen, MaxCalls

VARIABLES
    alive, rows, left, lists, proc_num, selected, select_pid, entry, scroll,
    parent, child, sum, now, ustat, ucpu, wrapped,
    file, job, fds, limit, done, disturbed

List == INSTANCE ProcessList
UI == INSTANCE ProcUI WITH Advances <- TwoSeconds, stat <- ustat, cpu <- ucpu
Copy == INSTANCE Copy

ASSUME ProgramsAssumption ==
    List!ListAssumption /\ UI!ProcUIAssumption /\ Copy!CopyAssumption

listvars == <<alive, rows, left, lists, proc_num, selected, select_pid, entry, scroll>>
uivars == <<parent, child, sum, now, ustat, ucpu, wrapped>>
copyvars == <<file, job, fds, limit, done, disturbed>>

-----------------------------------------------------------------------------
(* The properties of LoadMeters, and these, each explained in its module. *)

\* Whenever a button can be pressed, select_pid is of a row that is there, and of
\* the one that is highlighted.
SelectionLives == List!SelectionLives

\* The row Search finds is in view.
SearchShows == List!SearchShows

\* The sum is the one of the numbers so far, a usage not computed across a wrap
\* of the counters is one, and the parent waits for both children.
WindowsInv == UI!WindowsInv

\* The window that adds up the numbers from 1 ends with 100.
AddsTo100 == UI!AddsTo100

\* Where nothing failed and nobody else wrote, the target is a copy.
FaultlessCopies == Copy!FaultlessCopies

\* On every way out of a copy the address limit is put back, and only calls that
\* failed leave a descriptor open.
WaysOut == Copy!WaysOut
=============================================================================
