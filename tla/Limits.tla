------------------------------- MODULE Limits -------------------------------
(***************************************************************************)
(* The resource limits of processes (kernel sys.c): prlimit64, setrlimit   *)
(* and getrlimit all come down to do_prlimit, which reads and writes the   *)
(* two words of a limit under the target's task lock, and sets the         *)
(* target's CPU timer after it has let go of the lock.  Any process may    *)
(* call for any target at once.  Credentials do not change.                *)
(***************************************************************************)
EXTENDS Integers

CONSTANTS
    Procs,      \* the processes
    Capable,    \* those with CAP_SYS_RESOURCE
    MayChange,  \* <<caller, target>>: the ids match, or the caller may anyway
    Resources,  \* of "CPU", "NOFILE" and others
    Requests,   \* the limits asked for: [cur |-> n, max |-> n]
    Infinity,   \* RLIM_INFINITY, the largest value there is
    NrOpen,     \* sysctl_nr_open
    Nobody      \* no process

Limit == [cur : 0 .. Infinity, max : 0 .. Infinity]

ASSUME LimitsAssumption ==
    /\ Capable \subseteq Procs /\ Nobody \notin Procs
    /\ Infinity \in Nat \ {0}
    /\ NrOpen \in 0 .. Infinity - 1
    /\ Requests \subseteq Limit

VARIABLES
    rlim,     \* signal->rlim of each process
    holder,   \* who holds the task lock of each process
    alive,    \* the processes whose sighand is there
    call,     \* the call each process is in
    timer,    \* when the CPU timer of each process goes off next
    settled   \* the limits when their lock was last let go (history)

vars == <<rlim, holder, alive, call, timer, settled>>

NoLimit == [cur |-> 0, max |-> 0]
Idle == [pc |-> "idle", target |-> Nobody, res |-> "none", set |-> FALSE,
         new |-> NoLimit, old |-> NoLimit]

Critical == {"compare", "save_cur", "save_max", "write_cur", "write_max", "unlock", "refuse"}
Inside == Critical \cup {"lock", "timer"}

At(c, pc) == call[c].pc = pc
Go(c, pc) == call' = [call EXCEPT ![c].pc = pc]
Return(c) == call' = [call EXCEPT ![c] = Idle]
\* The limit a call is about.
Its(c) == rlim[call[c].target][call[c].res]

-----------------------------------------------------------------------------
\* prlimit64, and with target = c setrlimit and getrlimit: the new limit is
\* copied from the caller's memory before anything else.
Enter(c) ==
    /\ At(c, "idle") /\ c \in alive
    /\ \E p \in Procs, r \in Resources, n \in Requests, set \in BOOLEAN :
          call' = [call EXCEPT ![c] = [Idle EXCEPT !.pc = "check", !.target = p, !.res = r,
                                         !.set = set, !.new = IF set THEN n ELSE NoLimit]]
    /\ UNCHANGED <<rlim, holder, alive, timer, settled>>

\* A slip: the two words of the request are not compared.
RefusedUnordered(c) ==
    \/ c # call[c].target /\ <<c, call[c].target>> \notin MayChange
    \/ call[c].set /\ call[c].res = "NOFILE" /\ call[c].new.max > NrOpen
    \/ call[c].target \notin alive

\* A slip: the bound of open files is forgotten.
RefusedUnbounded(c) ==
    \/ c # call[c].target /\ <<c, call[c].target>> \notin MayChange
    \/ call[c].set /\ call[c].new.cur > call[c].new.max
    \/ call[c].target \notin alive

\* check_prlimit_permission, and the checks of do_prlimit before the lock.
Refused(c) ==
    \/ c # call[c].target /\ <<c, call[c].target>> \notin MayChange
    \/ /\ call[c].set
       /\ \/ call[c].new.cur > call[c].new.max
          \/ call[c].res = "NOFILE" /\ call[c].new.max > NrOpen
    \/ call[c].target \notin alive

Check(c) ==
    /\ At(c, "check")
    /\ IF Refused(c) THEN Return(c) ELSE Go(c, "lock")
    /\ UNCHANGED <<rlim, holder, alive, timer, settled>>

\* A slip: the lock of the caller is taken.
LockOwn(c) ==
    /\ At(c, "lock") /\ holder[c] = Nobody
    /\ holder' = [holder EXCEPT ![c] = c]
    /\ Go(c, IF call[c].set THEN "compare" ELSE "save_cur")
    /\ UNCHANGED <<rlim, alive, timer, settled>>

Lock(c) ==
    /\ At(c, "lock") /\ holder[call[c].target] = Nobody
    /\ holder' = [holder EXCEPT ![call[c].target] = c]
    /\ Go(c, IF call[c].set THEN "compare" ELSE "save_cur")
    /\ UNCHANGED <<rlim, alive, timer, settled>>

\* A slip: a CPU limit becomes one second more, whatever it is.
CompareLater(c) ==
    /\ At(c, "compare")
    /\ \/ Go(c, "refuse")
       \/ /\ call[c].new.max > Its(c).max => c \in Capable
          /\ call' = [call EXCEPT ![c].pc = "save_cur", ![c].new.cur = call[c].new.cur + 1]
    /\ UNCHANGED <<rlim, holder, alive, timer, settled>>

\* A slip: a process may raise its own hard limit.
CompareOwn(c) ==
    /\ At(c, "compare")
    /\ \/ Go(c, "refuse")
       \/ /\ call[c].new.max > Its(c).max => c \in Capable \/ c = call[c].target
          /\ Go(c, "save_cur")
    /\ UNCHANGED <<rlim, holder, alive, timer, settled>>

\* The hard limit may be raised by the capable only; a security module may
\* refuse anybody.  A CPU limit of zero becomes one, after it was compared.
Compare(c) ==
    /\ At(c, "compare")
    /\ \/ Go(c, "refuse")
       \/ /\ call[c].new.max > Its(c).max => c \in Capable
          /\ call' = [call EXCEPT ![c].pc = "save_cur",
                        ![c].new.cur = IF call[c].res = "CPU" /\ call[c].new.cur = 0
                                       THEN 1 ELSE call[c].new.cur]
    /\ UNCHANGED <<rlim, holder, alive, timer, settled>>

\* The old limit, one word after the other; who did not ask for it drops it.
SaveCur(c) ==
    /\ At(c, "save_cur")
    /\ call' = [call EXCEPT ![c].pc = "save_max", ![c].old.cur = Its(c).cur]
    /\ UNCHANGED <<rlim, holder, alive, timer, settled>>

SaveMax(c) ==
    /\ At(c, "save_max")
    /\ call' = [call EXCEPT ![c].pc = IF call[c].set THEN "write_cur" ELSE "unlock",
                            ![c].old.max = Its(c).max]
    /\ UNCHANGED <<rlim, holder, alive, timer, settled>>

WriteCur(c) ==
    /\ At(c, "write_cur")
    /\ rlim' = [rlim EXCEPT ![call[c].target][call[c].res].cur = call[c].new.cur]
    /\ Go(c, "write_max")
    /\ UNCHANGED <<holder, alive, timer, settled>>

WriteMax(c) ==
    /\ At(c, "write_max")
    /\ rlim' = [rlim EXCEPT ![call[c].target][call[c].res].max = call[c].new.max]
    /\ Go(c, "unlock")
    /\ UNCHANGED <<holder, alive, timer, settled>>

Release(c) ==
    /\ holder' = [holder EXCEPT ![call[c].target] = Nobody]
    /\ settled' = [settled EXCEPT ![call[c].target] = rlim[call[c].target]]

\* copy_to_user of what was found happens after all of this, and whether it
\* fails or not changes nothing any more.
Unlock(c) ==
    /\ At(c, "unlock")
    /\ Release(c)
    /\ IF call[c].set /\ call[c].res = "CPU" /\ call[c].new.cur # Infinity
       THEN Go(c, "timer") ELSE Return(c)
    /\ UNCHANGED <<rlim, alive, timer>>

\* A slip: the error path returns with the lock.
RefuseLocked(c) ==
    /\ At(c, "refuse")
    /\ Return(c)
    /\ UNCHANGED <<rlim, holder, alive, timer, settled>>

Refuse(c) ==
    /\ At(c, "refuse")
    /\ Release(c) /\ Return(c)
    /\ UNCHANGED <<rlim, alive, timer>>

\* A slip: the timer of the caller is set.
UpdateOwnTimer(c) ==
    /\ At(c, "timer")
    /\ timer' = [timer EXCEPT ![c] = IF call[c].new.cur < timer[c] THEN call[c].new.cur ELSE timer[c]]
    /\ Return(c)
    /\ UNCHANGED <<rlim, holder, alive, settled>>

\* update_rlimit_cpu only ever makes the timer go off sooner.
UpdateTimer(c) ==
    /\ At(c, "timer")
    /\ LET p == call[c].target
       IN  timer' = [timer EXCEPT ![p] = IF call[c].new.cur < timer[p] THEN call[c].new.cur
                                         ELSE timer[p]]
    /\ Return(c)
    /\ UNCHANGED <<rlim, holder, alive, settled>>

\* A process ends, which waits for the tasklist lock the calls hold.
Exit(p) ==
    /\ p \in alive /\ At(p, "idle")
    /\ \A c \in Procs : call[c].target = p => call[c].pc \notin Inside
    /\ alive' = alive \ {p}
    /\ UNCHANGED <<rlim, holder, call, timer, settled>>

-----------------------------------------------------------------------------
Init ==
    /\ rlim \in [Procs -> [Resources -> {n \in Requests : n.cur <= n.max}]]
    /\ \A p \in Procs : /\ "NOFILE" \in Resources => rlim[p]["NOFILE"].max <= NrOpen
                        /\ "CPU" \in Resources => rlim[p]["CPU"].cur = Infinity
    /\ holder = [p \in Procs |-> Nobody]
    /\ alive = Procs
    /\ call = [c \in Procs |-> Idle]
    /\ timer = [p \in Procs |-> Infinity]
    /\ settled = rlim

Step(c) ==
    \/ Check(c) \/ Lock(c) \/ Compare(c) \/ SaveCur(c) \/ SaveMax(c)
    \/ WriteCur(c) \/ WriteMax(c) \/ Unlock(c) \/ Refuse(c) \/ UpdateTimer(c)

Next == \E c \in Procs : Enter(c) \/ Step(c) \/ Exit(c)

\* A call goes on; the lock is given to those who wait for it in turn.
Spec == Init /\ [][Next]_vars /\ \A c \in Procs : WF_vars(Step(c)) /\ SF_vars(Lock(c))

-----------------------------------------------------------------------------
TypeOK ==
    /\ rlim \in [Procs -> [Resources -> Limit]]
    /\ holder \in [Procs -> Procs \cup {Nobody}]
    /\ alive \subseteq Procs
    /\ call \in [Procs -> [pc : Inside \cup {"idle", "check"}, target : Procs \cup {Nobody},
                           res : Resources \cup {"none"}, set : BOOLEAN,
                           new : Limit, old : Limit]]
    /\ timer \in [Procs -> 0 .. Infinity]
    /\ settled \in [Procs -> [Resources -> Limit]]

\* A task lock is held by exactly the call that is between taking and letting
\* go of it, on every path out of do_prlimit.
LockHeld ==
    \A c, p \in Procs : holder[p] = c <=> call[c].target = p /\ call[c].pc \in Critical

\* What a call gives as the old limit is the limit it replaced: nobody set it
\* since, and its two words belong together.
Replaces ==
    \A c \in Procs : At(c, "unlock") => call[c].old = settled[call[c].target][call[c].res]

\* Whenever a limit can be read under its lock, the soft one is within the hard
\* one - but a CPU limit of nothing at all was made one second.
SoftWithinHard ==
    \A p \in Procs, r \in Resources :
        LET l == settled[p][r]
        IN  l.cur <= l.max \/ (r = "CPU" /\ l.cur = 1 /\ l.max = 0)

\* No process is promised more open files than the kernel has.
FilesBounded == \A p \in Procs : "NOFILE" \in Resources => settled[p]["NOFILE"].max <= NrOpen

\* Once nobody is about to set it, the CPU timer goes off no later than the
\* limit of its process, whatever the order the setters came in.
TimerNotLate ==
    "CPU" \in Resources =>
        \A p \in Procs :
            (\A c \in Procs : call[c].target = p => call[c].pc \notin {"write_max", "unlock", "timer"})
            => timer[p] <= rlim[p]["CPU"].cur

\* What the task lock is for: limits that are read and replaced whole, in order
\* and within bounds, and a timer that is in time.
LimitsInv ==
    /\ TypeOK /\ LockHeld /\ Replaces /\ SoftWithinHard /\ FilesBounded /\ TimerNotLate

\* A hard limit rises only where a capable process sets it.
HardFalls ==
    [][\A p \in Procs, r \in Resources :
          settled'[p][r].max > settled[p][r].max =>
              \E c \in Capable : At(c, "unlock") /\ call[c].target = p]_vars

\* Every call comes to an end.
CallsEnd == \A c \in Procs : ~At(c, "idle") ~> At(c, "idle")
=============================================================================
