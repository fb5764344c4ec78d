----------------------------- MODULE MCPrograms -----------------------------
(***************************************************************************)
(* The programs side by side; `subject` says which one a behaviour is      *)
(* about, and the state of the others stays where it began.                *)
(*   "cpu", "mem"  the meters, for a user who looks at that page alone     *)
(*   "list"        the Processes page: four numbers, three listings, a     *)
(*                 window that shows a row and a half                      *)
(*   "windows"     procUI, its counters counted modulo 4                   *)
(*   "copy"        the system call and the program, once each, between two *)
(*                 files of none, one or three units; a buffer of two      *)
(***************************************************************************)
EXTENDS UserPrograms

VARIABLE subject

\* A second is idle or busy; two seconds are either, or one of each.
IdleOrBusy == {[idle |-> 1, busy |-> 0], [idle |-> 0, busy |-> 1]}
EitherOrBoth == {[idle |-> 2, busy |-> 0], [idle |-> 0, busy |-> 2], [idle |-> 1, busy |-> 1]}

NoneOneThree == {<< >>, <<1>>, <<2, 3, 4>>}

mcvars == <<subject, vars, listvars, uivars, copyvars>>

MCInit ==
    /\ subject \in {"cpu", "mem", "list", "windows", "copy"}
    /\ Init /\ List!Init /\ UI!Init /\ Copy!Init
    \* A part that is not looked at begins in one state.
    /\ subject # "list" => alive = {1}
    /\ subject # "windows" => ustat = [idle |-> 0, total |-> 0]
    /\ subject # "copy" => file = [n \in Names |-> << >>]

\* While the CPU page is looked at the memory is full, and the machine is idle
\* while the Memory page is.
Watched ==
    /\ page' \in {subject, "processes"}
    /\ subject = "cpu" => mem'.free = 0
    /\ subject = "mem" => stat'.idle = stat'.total

Meters(A) == /\ subject \in Curves /\ A /\ Watched
             /\ UNCHANGED <<subject, listvars, uivars, copyvars>>
OnList(A) == subject = "list" /\ A /\ UNCHANGED <<subject, vars, uivars, copyvars>>
Windows(A) == subject = "windows" /\ A /\ UNCHANGED <<subject, vars, listvars, copyvars>>
Copies(A) == subject = "copy" /\ A /\ UNCHANGED <<subject, vars, listvars, uivars>>

MCNext == Meters(Next) \/ OnList(List!Next) \/ Windows(UI!Next) \/ Copies(Copy!Next)

\* The fairness of the parts.
MCSpec ==
    /\ MCInit /\ [][MCNext]_mcvars
    /\ WF_mcvars(Meters(Timer))
    /\ WF_mcvars(OnList(List!get_processes_info))
    /\ WF_mcvars(Windows(UI!Parent))
    /\ \A t \in Callers \cup Programs : WF_mcvars(Copies(Copy!Step(t)))

-----------------------------------------------------------------------------
(* The properties of the programs, each explained in its module, and this. *)

\* Everything ends: a listing, whatever comes and goes meanwhile; procUI, when
\* its windows are closed in whichever order; and copies, even two that each
\* read the file the other one writes.
ProgramsEnd ==
    /\ subject = "list" => List!ListingEnds
    /\ subject = "windows" => UI!AllEnd
    /\ Copy!CopiesEnd
=============================================================================
