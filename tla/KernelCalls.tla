----------------------------- MODULE KernelCalls -----------------------------
(***************************************************************************)
(* The calls of sys.c that read and change what several tasks share: the   *)
(* limits (Limits), the memory map of one process, the priorities, the     *)
(* usage and the host's name.  Two of the limits are what others read:     *)
(* prctl its RLIMIT_DATA and setpriority the RLIMIT_NICE of each task, both *)
(* without the task lock that do_prlimit holds.  The parts share nothing   *)
(* else: a task of one is no task of another, and exits are each one's own. *)
(***************************************************************************)
EXTENDS Limits

CONSTANTS
    Threads, Resource, MapAdmin, Files, NoFile, MinAddr, TaskSize, FirstMap,
    Owner,      \* the process whose map it is
    MapRequests, Options, Vectors, AuxWords,
    Tasks, Callers, NiceCapable, Users, Pgrp, FirstNice, FirstUid, FirstEuid, FirstSuid,
    Setid, Keep, MIN_NICE, MAX_NICE, Given, Targets,
    Children, MaxCount, MaxCalls,
    Admin, NEW_UTS_LEN, OLD_UTS_LEN, Names, Lens, NUL

VARIABLES
    map, auxv, exe, mapped, fds, refs, sem, mcall, peak,
    present, nice, uid, euid, suid, users, pcall, log, lifted, most_nice,
    count, threads, gone, cflt, cvcsw, unreaped, siglock, rcall, calls,
    nodename, uts_sem, ncall

\* rlimit(RLIMIT_DATA), and task_rlimit(p, RLIMIT_NICE).
DataLimit == rlim[Owner]["DATA"].cur
NiceLimits == [p \in Tasks |-> rlim[p]["NICE"].cur]

Memory == INSTANCE MemoryMap WITH
    Admin <- MapAdmin, Requests <- MapRequests, call <- mcall, limit <- DataLimit
Prio == INSTANCE Priority WITH
    Capable <- NiceCapable, alive <- present, refs <- users, call <- pcall,
    rlim_nice <- NiceLimits
Rusage == INSTANCE Usage WITH alive <- threads, call <- rcall
Uts == INSTANCE HostName WITH call <- ncall

ASSUME CallsAssumption ==
    Memory!MapAssumption /\ Prio!PriorityAssumption /\ Rusage!UsageAssumption
    /\ Uts!HostNameAssumption
    /\ Owner \in Procs /\ Tasks \subseteq Procs /\ {"DATA", "NICE"} \subseteq Resources

memoryvars == <<map, auxv, exe, mapped, fds, refs, sem, mcall, peak>>
priovars == <<present, nice, uid, euid, suid, users, pcall, log, lifted, most_nice>>
usagevars == <<count, threads, gone, cflt, cvcsw, unreaped, siglock, rcall, calls>>
namevars == <<nodename, uts_sem, ncall>>
callvars == <<vars, memoryvars, priovars, usagevars, namevars>>

-----------------------------------------------------------------------------
(* A step A of one part, of which the others see the limits at most.       *)

AsLimits(A) == A /\ Memory!SetLimit /\ Prio!SetLimits /\ UNCHANGED <<usagevars, namevars>>
AsMemory(A) == UNCHANGED vars /\ A /\ UNCHANGED <<priovars, usagevars, namevars>>
AsPrio(A) == UNCHANGED vars /\ A /\ UNCHANGED <<memoryvars, usagevars, namevars>>
AsUsage(A) == A /\ UNCHANGED <<vars, memoryvars, priovars, namevars>>
AsName(A) == A /\ UNCHANGED <<vars, memoryvars, priovars, usagevars>>

CallsInit == Init /\ Memory!Init /\ Prio!Init /\ Rusage!Init /\ Uts!Init
CallsNext ==
    \/ AsLimits(Next) \/ AsMemory(Memory!Calls) \/ AsPrio(Prio!Calls)
    \/ AsUsage(Rusage!Next) \/ AsName(Uts!Next)
CallsSpec == CallsInit /\ [][CallsNext]_callvars

-----------------------------------------------------------------------------
(* The properties of Limits, and these, each explained in its module. *)

\* PR_SET_MM: whoever reads the map finds one that is in order, no reference to a
\* file is lost or freed while in use, and the vector ends with AT_NULL.
MapInv == Memory!MapInv

\* setpriority: nobody comes to a better priority than it may, an answer tells of
\* the tasks as a whole, and no reference to a user is lost or kept.
PriorityInv == Prio!PriorityInv

\* getrusage: what a thread has used is counted once, and of a child's counters a
\* sample has all or none.
UsageInv == Rusage!UsageInv

\* The host's name: a reader gets one name, whole, as a call gave it, and a call
\* that fails leaves the name that was there.
NameInv == Uts!NameInv
=============================================================================
