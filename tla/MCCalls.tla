------------------------------ MODULE MCCalls ------------------------------
(***************************************************************************)
(* The calls of sys.c that read and change what several tasks share, side  *)
(* by side.  weak and able make them; `subject` says which ones, and the   *)
(* state of the others stays where it began.                               *)
(*   "CPU", "NOFILE"  prlimit on one limit; able is capable and may set    *)
(*                    those of weak, weak only its own                     *)
(*   "fields", "files", "vector"  prctl(PR_SET_MM): single fields and      *)
(*                    whole maps; the executable, one of two files; the    *)
(*                    vector, of three pairs                               *)
(*   "DATA"           single fields and whole maps, while able sets the    *)
(*                    limit of weak, whose map it is                       *)
(*   "nice"           setpriority and getpriority of both                  *)
(*   "NICE"           those of weak alone, while able sets its limit       *)
(*   "usage"          getrusage of two threads; a child is reaped          *)
(*   "name"           the host's name, of up to two bytes                  *)
(***************************************************************************)
EXTENDS KernelCalls, TLC

CONSTANTS weak, able, f1, f2, kid, u1, u2, ch1, ch2, Subjects

VARIABLE subject

Asked == {[cur |-> 0, max |-> 0], [cur |-> 2, max |-> 3], [cur |-> 3, max |-> 3],
          [cur |-> 3, max |-> 2], [cur |-> 1, max |-> 2]}
Fits(n, r) ==
    CASE r = "CPU" -> n # [cur |-> 1, max |-> 2]
      [] r = "NOFILE" -> TRUE
      [] r = "DATA" -> n.cur \in 1 .. 2 /\ n.cur <= n.max
      [] r = "NICE" -> n.cur \in {1, 3} /\ n.cur <= n.max
Usual(t, r) ==
    CASE r = "CPU" -> [cur |-> Infinity, max |-> Infinity]
      [] r = "NOFILE" -> NoLimit
      [] r = "DATA" -> [cur |-> 2, max |-> 3]
      [] r = "NICE" -> IF t = weak THEN [cur |-> 3, max |-> 3] ELSE [cur |-> 1, max |-> 2]
OneWay == {<<able, weak>>}

-----------------------------------------------------------------------------
(* What the constants are given. *)

Base == [start_code |-> 1, end_code |-> 2, start_data |-> 1, end_data |-> 2,
         start_brk |-> 3, brk |-> 3, start_stack |-> 2,
         arg_start |-> 2, arg_end |-> 2, env_start |-> 2, env_end |-> 2]
Moved == [Base EXCEPT !.end_data = 3, !.start_brk = 4, !.brk = 4]
All(n) == [i \in 1 .. 3 |-> n]

\* A whole map, in order or not; one with a vector, and one with a file.
Maps == {[map |-> Base, auxv |-> << >>, exe |-> NoFile],
         [map |-> Moved, auxv |-> << >>, exe |-> NoFile],
         [map |-> [Moved EXCEPT !.start_brk = 2], auxv |-> << >>, exe |-> NoFile],
         [map |-> Base, auxv |-> All(8), exe |-> NoFile],
         [map |-> Base, auxv |-> << >>, exe |-> f1]}

Touched == {All(7), All(8)}

InOneGroup == [t \in Tasks |-> "g"]
NiceOfOne == [t \in Tasks |-> 1]
UidOfU1 == [t \in Tasks |-> u1]
Setuid == weak :> u2 @@ able :> u1
Aimed == {[which |-> "process", who |-> weak], [which |-> "group", who |-> "g"],
          [which |-> "user", who |-> u1]}

HostNames == {All(ch1), All(ch2)}
Lengths == -1 .. 3

mcvars == <<subject, callvars>>

-----------------------------------------------------------------------------
\* A task is in one call at a time.
OneCall == \A t \in Procs : call'[t] = Idle \/ mcall'[t].pc = "idle"

\* What keeps to the subject: a resource, or a part of the map.
OneLimit ==
    \A c \in Procs : LET k == call'[c]
                     IN  k.pc # "idle" =>
                            /\ k.res = subject /\ (k.set => Fits(k.new, subject))
                            /\ subject \in {"DATA", "NICE"} =>
                                 c = able /\ k.target = weak /\ k.set
OnePart ==
    /\ subject \notin {"fields", "DATA"} => map' = map /\ \A t \in Procs : mcall'[t].map = Base
    /\ subject # "files" => fds' = {} /\ mapped' = mapped
    /\ subject # "vector" => \A t \in Procs : mcall'[t].vec = << >>

\* setreuid exchanges the ids of weak, or sets its effective one and with it the
\* saved one.
OneCaller ==
    /\ uid'[able] = u1 /\ euid'[able] = u1
    /\ subject = "nice" => {uid'[weak], euid'[weak]} = {u1, u2}
    /\ subject = "NICE" => /\ pcall'[able] = Prio!Idle /\ able \in present'
                           /\ uid'[weak] = u1 /\ suid'[weak] = euid'[weak]

OfLimits(A) == subject \in Resources /\ UNCHANGED subject /\ AsLimits(A /\ OneLimit) /\ OneCall
OfMemory(A) == /\ subject \in {"fields", "files", "vector", "DATA"} /\ UNCHANGED subject
               /\ AsMemory(A /\ OnePart) /\ OneCall
OfPrio(A) == subject \in {"nice", "NICE"} /\ UNCHANGED subject /\ AsPrio(A /\ OneCaller)
OfUsage(A) == subject = "usage" /\ UNCHANGED subject /\ AsUsage(A)
OfName(A) == subject = "name" /\ UNCHANGED subject /\ AsName(A)

MCInit ==
    /\ subject \in Subjects
    \* A part that is not looked at begins in one state.
    /\ rlim \in [Procs -> [Resources -> {n \in Requests : n.cur <= n.max}]]
    /\ \A t \in Procs, r \in Resources :
          IF r = subject /\ (t = weak \/ r \in {"CPU", "NOFILE"})
          THEN Fits(rlim[t][r], r) ELSE rlim[t][r] = Usual(t, r)
    /\ CallsInit
    /\ subject # "files" => exe = f1

MCNext ==
    \/ OfLimits(Next) \/ OfMemory(Memory!Calls) \/ OfPrio(Prio!Calls)
    \/ OfUsage(Rusage!Next) \/ OfName(Uts!Next)

\* A step of a call of t, and the ones among them that take a lock.
Goes(t) ==
    \/ OfLimits(Step(t)) \/ OfMemory(Memory!Step(t))
    \/ OfUsage(Rusage!Step(t)) \/ OfName(Uts!Step(t))
Locks(t) ==
    \/ OfLimits(Lock(t)) \/ OfMemory(Memory!Scan(t) \/ Memory!WriteMap(t))
    \/ OfUsage(Rusage!Lock(t)) \/ OfName(Uts!DownWrite(t) \/ Uts!DownRead(t))

\* The fairness of the parts: calls go on, and each lock comes to everybody who
\* waits for it; a call waits for one lock at a time.
MCSpec ==
    /\ MCInit /\ [][MCNext]_mcvars
    /\ \A t \in Procs : WF_mcvars(Goes(t)) /\ SF_mcvars(Locks(t))
    /\ WF_mcvars(OfUsage(Rusage!ReapSecond(kid)))

-----------------------------------------------------------------------------
(* The properties of KernelCalls, and this. *)

\* Every call of any of the parts comes back, whoever holds its lock meanwhile.
Idles(t) == call[t] = Idle /\ mcall[t].pc = "idle" /\ rcall[t].pc = "idle" /\ ncall[t].pc = "idle"
EveryCallEnds == \A t \in Procs : ~Idles(t) ~> Idles(t)
=============================================================================
