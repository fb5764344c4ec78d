-------------------------------- MODULE Copy --------------------------------
(***************************************************************************)
(* The two copiers: the system call mycopy (EXP2-SYSCALL/mycopy.c, and the *)
(* same text at the end of sys.c) and the program copy (EXP1-LINUX_UI).    *)
(* Tasks of both kinds copy at once between the same files.  A read may    *)
(* return less than was asked for, every call of a file may fail, and a    *)
(* write may store less than it was given: neither copier looks.           *)
(***************************************************************************)
EXTENDS Integers, Sequences, FiniteSets

CONSTANTS
    Callers,   \* the tasks that make the system call
    Programs,  \* the processes that run copy
    Names,     \* files
    Contents,  \* what a file may hold at first
    Absent,    \* no file of that name
    BufLen,    \* the length of tmp_buf
    MaxCalls   \* bound: the calls of a task, the runs of a program

Tasks == Callers \cup Programs

\* What the constants must be.
CopyAssumption ==
    /\ Callers \cap Programs = {}
    /\ Contents \subseteq Seq(Nat) /\ Absent \notin Contents
    /\ BufLen \in Nat \ {0} /\ MaxCalls \in Nat

VARIABLES
    file,      \* what each file holds
    job,       \* the call each task is in, or its last one
    fds,       \* how many descriptors each task has open
    limit,     \* the address limit, get_fs(), of each task
    done,      \* how many calls each task has begun, and how many failed
    disturbed  \* the tasks whose files another task changed (history)

vars == <<file, job, fds, limit, done, disturbed>>

\* lost says that a write of this call did not store all it was given.
NoJob == [pc |-> "idle", ret |-> "none"]
Running(t) == job[t].pc # "idle"

Go(t, pc) == job' = [job EXCEPT ![t].pc = pc]

\* The order of the calls: the program opens the source before it asks for
\* the mode, which is an argument of the second open.
AfterNames(t) == IF t \in Callers THEN "stat" ELSE "open_source"
AfterStat(t) == IF t \in Callers THEN "open_source" ELSE "open_target"
AfterSource(t) == IF t \in Callers THEN "open_target" ELSE "stat"

\* Others whose source or target is the file a task is about to change.
Sharing(t, n) ==
    {u \in Tasks \ {t} : Running(u) /\ n \in {job[u].src, job[u].dst}}

-----------------------------------------------------------------------------
Start(t, s, d) ==
    /\ ~Running(t)
    /\ done[t].calls < MaxCalls
    /\ job' = [job EXCEPT ![t] = [pc |-> "names", ret |-> "none", src |-> s, dst |-> d,
                                  from |-> "none", to |-> "none", rpos |-> 0, wpos |-> 0,
                                  buf |-> <<>>, lost |-> FALSE]]
    /\ limit' = [limit EXCEPT ![t] = IF t \in Callers THEN "kernel" ELSE "user"]
    /\ done' = [done EXCEPT ![t].calls = @ + 1]
    /\ disturbed' = disturbed \ {t}
    /\ UNCHANGED <<file, fds>>

\* A slip: an error path without set_fs(oldfs).
FailWithLimit(t) ==
    /\ job' = [job EXCEPT ![t].pc = "idle", ![t].ret = "error"]
    /\ fds' = [fds EXCEPT ![t] = IF t \in Programs THEN 0 ELSE @]
    /\ limit' = [limit EXCEPT ![t] = IF job[t].pc = "read" THEN @ ELSE "user"]
    /\ done' = [done EXCEPT ![t].errors = @ + 1]

\* The system call returns -EFAULT as it stands; the program exits, which
\* closes what it has open.
Fail(t) ==
    /\ job' = [job EXCEPT ![t].pc = "idle", ![t].ret = "error"]
    /\ fds' = [fds EXCEPT ![t] = IF t \in Programs THEN 0 ELSE @]
    /\ limit' = [limit EXCEPT ![t] = "user"]
    /\ done' = [done EXCEPT ![t].errors = @ + 1]

\* strncpy_from_user fails or the name is too long; argc is not 3.
GetNames(t) ==
    /\ job[t].pc = "names"
    /\ \/ Go(t, AfterNames(t)) /\ UNCHANGED <<fds, limit, done>>
       \/ Fail(t)
    /\ UNCHANGED <<file, disturbed>>

\* vfs_stat, get_mode.
Stat(t) ==
    /\ job[t].pc = "stat"
    /\ \/ file[job[t].src] # Absent /\ Go(t, AfterStat(t)) /\ UNCHANGED <<fds, limit, done>>
       \/ Fail(t)
    /\ UNCHANGED <<file, disturbed>>

\* An open that fails gives the program -1; it gives the system call a
\* negative number, of which only -EPERM is -1: any other is kept and used.
OpenFails(t, role, next) ==
    \/ Fail(t)
    \/ /\ t \in Callers
       /\ job' = [job EXCEPT ![t] = [job[t] EXCEPT !.pc = next, ![role] = "bad"]]
       /\ UNCHANGED <<fds, limit, done>>

OpenSource(t) ==
    /\ job[t].pc = "open_source"
    /\ \/ /\ file[job[t].src] # Absent
          /\ job' = [job EXCEPT ![t] = [job[t] EXCEPT !.pc = AfterSource(t), !.from = "open"]]
          /\ fds' = [fds EXCEPT ![t] = @ + 1]
          /\ UNCHANGED <<limit, done>>
       \/ OpenFails(t, "from", AfterSource(t))
    /\ UNCHANGED <<file, disturbed>>

\* O_CREAT and O_TRUNC: the target is empty from here on.
OpenTarget(t) ==
    /\ job[t].pc = "open_target"
    /\ \/ /\ job' = [job EXCEPT ![t] = [job[t] EXCEPT !.pc = "read", !.to = "open"]]
          /\ file' = [file EXCEPT ![job[t].dst] = <<>>]
          /\ fds' = [fds EXCEPT ![t] = @ + 1]
          /\ disturbed' = disturbed \cup Sharing(t, job[t].dst)
          /\ UNCHANGED <<limit, done>>
       \/ OpenFails(t, "to", "read") /\ UNCHANGED <<file, disturbed>>

Left(t) == Len(file[job[t].src]) - job[t].rpos

\* A slip: the loop does not end when nothing was read.
ReadOn(t) ==
    /\ job[t].pc = "read" /\ job[t].from = "open"
    /\ \E n \in 0 .. BufLen :
          /\ n <= Left(t)
          /\ job' = [job EXCEPT ![t] = [job[t] EXCEPT
                       !.pc = "write", !.rpos = @ + n,
                       !.buf = SubSeq(file[job[t].src], job[t].rpos + 1, job[t].rpos + n)]]
    /\ UNCHANGED <<file, fds, limit, done, disturbed>>

\* At least one unit while there is one, none at the end; on the number of an
\* open that failed, and at any other time too, the read may fail.
Read(t) ==
    /\ job[t].pc = "read"
    /\ \/ /\ job[t].from = "open"
          /\ \E n \in 1 .. BufLen :
                /\ n <= Left(t)
                /\ job' = [job EXCEPT ![t] = [job[t] EXCEPT
                             !.pc = "write", !.rpos = @ + n,
                             !.buf = SubSeq(file[job[t].src], job[t].rpos + 1, job[t].rpos + n)]]
          /\ UNCHANGED <<fds, limit, done>>
       \/ job[t].from = "open" /\ Left(t) <= 0 /\ Go(t, "close") /\ UNCHANGED <<fds, limit, done>>
       \/ Fail(t)
    /\ UNCHANGED <<file, disturbed>>

\* What a write at a position leaves: a hole before it is filled with zeroes.
Stored(old, pos, units) ==
    LET end == pos + Len(units)
    IN  [i \in 1 .. (IF end > Len(old) THEN end ELSE Len(old)) |->
           IF i > pos /\ i <= end THEN units[i - pos]
           ELSE IF i <= Len(old) THEN old[i] ELSE 0]

\* A slip: every write begins where the file begins.
WriteAtStart(t) ==
    /\ job[t].pc = "write" /\ job[t].to = "open"
    /\ file' = [file EXCEPT ![job[t].dst] = Stored(@, 0, job[t].buf)]
    /\ job' = [job EXCEPT ![t].pc = "read", ![t].buf = <<>>]
    /\ disturbed' = disturbed \cup Sharing(t, job[t].dst)
    /\ UNCHANGED <<fds, limit, done>>

\* The result of the write is not looked at: part of the buffer, or nothing,
\* may have been stored.
Write(t) ==
    /\ job[t].pc = "write"
    /\ \E n \in 0 .. Len(job[t].buf) :
          /\ job[t].to = "bad" => n = 0
          /\ file' = IF n = 0 THEN file
                     ELSE [file EXCEPT ![job[t].dst] =
                             Stored(@, job[t].wpos, SubSeq(job[t].buf, 1, n))]
          /\ job' = [job EXCEPT ![t] = [job[t] EXCEPT !.pc = "read", !.wpos = @ + n, !.buf = <<>>,
                                                 !.lost = @ \/ n < Len(job[t].buf)]]
          /\ disturbed' = disturbed \cup (IF n = 0 THEN {} ELSE Sharing(t, job[t].dst))
    /\ UNCHANGED <<fds, limit, done>>

\* A slip: a number that is no descriptor closes one all the same.
CloseTwo(t) ==
    /\ job[t].pc = "close"
    /\ job' = [job EXCEPT ![t].pc = "idle", ![t].ret = "ok"]
    /\ fds' = [fds EXCEPT ![t] = @ - 2]
    /\ limit' = [limit EXCEPT ![t] = "user"]
    /\ UNCHANGED <<file, done, disturbed>>

\* A slip: only one of the two is closed.
CloseOne(t) ==
    /\ job[t].pc = "close"
    /\ job' = [job EXCEPT ![t].pc = "idle", ![t].ret = "ok"]
    /\ fds' = [fds EXCEPT ![t] = @ - 1]
    /\ limit' = [limit EXCEPT ![t] = "user"]
    /\ UNCHANGED <<file, done, disturbed>>

OpenEnds(t) == {r \in {"from", "to"} : job[t][r] = "open"}

\* A close of a number that is no descriptor does nothing.
Close(t) ==
    /\ job[t].pc = "close"
    /\ job' = [job EXCEPT ![t].pc = "idle", ![t].ret = "ok"]
    /\ fds' = [fds EXCEPT ![t] = @ - Cardinality(OpenEnds(t))]
    /\ limit' = [limit EXCEPT ![t] = "user"]
    /\ UNCHANGED <<file, done, disturbed>>

-----------------------------------------------------------------------------
Init ==
    /\ file \in [Names -> Contents \cup {Absent}]
    /\ job = [t \in Tasks |-> NoJob]
    /\ fds = [t \in Tasks |-> 0]
    /\ limit = [t \in Tasks |-> "user"]
    /\ done = [t \in Tasks |-> [calls |-> 0, errors |-> 0]]
    /\ disturbed = {}

Step(t) ==
    \/ GetNames(t) \/ Stat(t) \/ OpenSource(t) \/ OpenTarget(t)
    \/ Read(t) \/ Write(t) \/ Close(t)

Next == \E t \in Tasks : Step(t) \/ \E s, d \in Names : Start(t, s, d)

\* A call that was entered is carried on; nobody has to begin one.
Spec == Init /\ [][Next]_vars /\ \A t \in Tasks : WF_vars(Step(t))

-----------------------------------------------------------------------------
TypeOK ==
    /\ DOMAIN file = Names
    /\ \A t \in Tasks : /\ Running(t) => /\ {job[t].src, job[t].dst} \subseteq Names
                                         /\ {job[t].rpos, job[t].wpos} \subseteq Nat
                                         /\ Len(job[t].buf) <= BufLen
                        /\ fds[t] \in Nat /\ limit[t] \in {"user", "kernel"}
    /\ disturbed \subseteq Tasks

\* A task is under the lifted address limit exactly while it is in mycopy,
\* whichever of its returns it takes.
LimitLifted == \A t \in Tasks : limit[t] = "kernel" <=> Running(t) /\ t \in Callers

\* When all went well - nothing failed that the copier ignores, and nobody else
\* changed the files - what is about to be closed is a copy, however the reads
\* were cut.
FaultlessCopies ==
    \A t \in Tasks \ disturbed :
        /\ job[t].pc = "close" /\ ~job[t].lost
        /\ job[t].to = "open" /\ job[t].src # job[t].dst
        => file[job[t].dst] = file[job[t].src]

\* A call that succeeded leaves no descriptor open; one that failed leaves at
\* most two, and a program none at all.
OnlyErrorsLeak ==
    \A t \in Tasks : ~Running(t) =>
        fds[t] <= IF t \in Callers THEN 2 * done[t].errors ELSE 0

\* Every way out of a copy puts back what it changed of its task.
WaysOut == TypeOK /\ LimitLifted /\ OnlyErrorsLeak

\* Copies end, even two that each read the file the other one writes.
CopiesEnd == \A t \in Tasks : Running(t) ~> ~Running(t)
=============================================================================
