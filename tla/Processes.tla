----------------------------- MODULE Processes ------------------------------
(***************************************************************************)
(* Process groups, sessions and child subreapers: setpgid, getpgid, getsid *)
(* and setsid of EXP2-SYSCALL/sys.c and the subreaper option of its prctl. *)
(* A process stands for a thread group: the calls act on the group leader. *)
(* The lock they hold (tasklist_lock) makes each one step, but prctl sets  *)
(* its own mark before it takes the lock and walks down the tree.  What    *)
(* the rest of the kernel does to processes - fork, execve, exit, a        *)
(* controlling terminal - is modelled as far as the calls depend on it.    *)
(* A process that exits is reaped at once.                                 *)
(***************************************************************************)
CONSTANTS
    Pids,
    InitPid,  \* the child reaper, which never exits
    NoPid     \* the group and session of init at boot, and its parent

ASSUME PidAssumption == InitPid \in Pids /\ NoPid \notin Pids

VARIABLES
    proc,     \* the processes there are: a function on the pids in use
    console,  \* the session whose controlling terminal the console is
    walking   \* the processes in prctl that have not walked their tree yet

jobvars == <<proc, console, walking>>

\* execed is the absence of PF_FORKNOEXEC; is and has are is_child_subreaper
\* and has_child_subreaper of the signal structure, tty its terminal.
Process == [parent : Pids \cup {NoPid}, pgrp : Pids \cup {NoPid}, sid : Pids \cup {NoPid},
            leader : BOOLEAN, tty : BOOLEAN, execed : BOOLEAN, is : BOOLEAN, has : BOOLEAN]

Live == DOMAIN proc

\* pid_task(pid, PIDTYPE_PGID): a process of the group.
InGroup(pgid) == {g \in Live : proc[g].pgrp = pgid}

getpgid(p) == proc[p].pgrp
getsid(p) == proc[p].sid

-----------------------------------------------------------------------------
(* The calls.  A refused call (EPERM, ESRCH, EACCES, EINVAL, or the security *)
(* hook) changes nothing. *)

\* A slip: the session of the group joined is not compared with the caller's.
setpgidAnySession(me, p, pgid) ==
    /\ p \in Live
    /\ \/ proc[p].parent = me /\ proc[p].sid = proc[me].sid /\ ~proc[p].execed
       \/ p = me
    /\ ~proc[p].leader
    /\ pgid = p \/ InGroup(pgid) # {}
    /\ proc' = [proc EXCEPT ![p].pgrp = pgid]
    /\ UNCHANGED <<console, walking>>

\* A slip: the test for a session leader is forgotten.
setpgidOfLeader(me, p, pgid) ==
    /\ p \in Live
    /\ \/ proc[p].parent = me /\ proc[p].sid = proc[me].sid /\ ~proc[p].execed
       \/ p = me
    /\ pgid # p => \E g \in InGroup(pgid) : proc[g].sid = proc[me].sid
    /\ proc' = [proc EXCEPT ![p].pgrp = pgid]
    /\ UNCHANGED <<console, walking>>

setpgid(me, p, pgid) ==
    /\ p \in Live
    /\ IF proc[p].parent = me
       THEN proc[p].sid = proc[me].sid /\ ~proc[p].execed
       ELSE p = me
    /\ ~proc[p].leader
    /\ pgid # p => \E g \in InGroup(pgid) : proc[g].sid = proc[me].sid
    /\ proc' = [proc EXCEPT ![p].pgrp = pgid]
    /\ UNCHANGED <<console, walking>>

\* A slip: the terminal is kept.
ksys_setsidKeepsTty(me) ==
    /\ ~proc[me].leader
    /\ InGroup(me) = {}
    /\ proc' = [proc EXCEPT ![me] = [@ EXCEPT !.leader = TRUE, !.sid = me, !.pgrp = me]]
    /\ UNCHANGED <<console, walking>>

\* A slip: a group of the new session's number is not looked for.
ksys_setsidOverGroup(me) ==
    /\ ~proc[me].leader
    /\ proc' = [proc EXCEPT ![me] = [@ EXCEPT !.leader = TRUE, !.sid = me, !.pgrp = me,
                                              !.tty = FALSE]]
    /\ UNCHANGED <<console, walking>>

\* set_special_pids and proc_clear_tty are part of the step.
ksys_setsid(me) ==
    /\ ~proc[me].leader
    /\ InGroup(me) = {}
    /\ proc' = [proc EXCEPT ![me] = [@ EXCEPT !.leader = TRUE, !.sid = me, !.pgrp = me,
                                              !.tty = FALSE]]
    /\ UNCHANGED <<console, walking>>

\* walk_process_tree with propagate_has_child_subreaper: down from a process,
\* not below a descendant that already has the flag or is the child reaper.
Marked(me) ==
    LET Goes(S) == \A q \in Live :
                      /\ proc[q].parent \in S \cup {me}
                      /\ ~proc[q].has
                      /\ q # InitPid
                      => q \in S
    IN  {q \in Live : \A S \in SUBSET Live : Goes(S) => q \in S}

\* PR_SET_CHILD_SUBREAPER: the process marks itself.
set_child_subreaper(me, on) ==
    /\ proc' = [proc EXCEPT ![me].is = on]
    /\ walking' = IF on THEN walking \cup {me} ELSE walking
    /\ UNCHANGED console

\* A slip: the walk goes on below nobody but the caller's own children.
propagate_has_child_subreaperOneLevel(me) ==
    /\ me \in walking
    /\ proc' = [p \in Live |-> [proc[p] EXCEPT !.has = @ \/ proc[p].parent = me]]
    /\ walking' = walking \ {me}
    /\ UNCHANGED console

\* Then, under the lock, its descendants.
propagate_has_child_subreaper(me) ==
    /\ me \in walking
    /\ proc' = [p \in Live |-> [proc[p] EXCEPT !.has = @ \/ p \in Marked(me)]]
    /\ walking' = walking \ {me}
    /\ UNCHANGED console

-----------------------------------------------------------------------------
(* External: what else happens to processes. *)

\* A pid is not given out again while a group or a session has its number.
fork(me, c) ==
    /\ c \notin Live
    /\ \A p \in Live : c \notin {proc[p].pgrp, proc[p].sid}
    /\ proc' = [p \in Live \cup {c} |->
                  IF p = c THEN [proc[me] EXCEPT !.parent = me, !.leader = FALSE,
                                   !.execed = FALSE, !.is = FALSE, !.has = @ \/ proc[me].is]
                  ELSE proc[p]]
    /\ UNCHANGED <<console, walking>>

execve(me) ==
    /\ ~proc[me].execed
    /\ proc' = [proc EXCEPT ![me].execed = TRUE]
    /\ UNCHANGED <<console, walking>>

\* A leader without a terminal opens the console while no session has it.
open_tty(me) ==
    /\ proc[me].leader
    /\ console = NoPid
    /\ proc' = [proc EXCEPT ![me].tty = TRUE]
    /\ console' = me
    /\ UNCHANGED walking

Ancestors(p) ==
    LET Closed(S) == /\ proc[p].parent \in S
                     /\ \A q \in S \cap Live : proc[q].parent \in S
    IN  {a \in Live : \A S \in SUBSET (Pids \cup {NoPid}) : Closed(S) => a \in S}

\* find_new_reaper: under the flag, the first subreaper on the way up, to
\* whom every other one is an ancestor; init without flag or subreaper.
Adopts(r, p) ==
    LET reapers == {a \in Ancestors(p) : proc[p].has /\ proc[a].is}
    IN  \/ reapers = {} /\ r = InitPid
        \/ r \in reapers /\ reapers \subseteq Ancestors(r) \cup {r}

\* A slip: the children keep a parent that is gone.
exitKeepsChildren(me, reaper) ==
    /\ me # InitPid
    /\ proc' = [p \in Live \ {me} |-> proc[p]]
    /\ console' = IF console = me THEN NoPid ELSE console
    /\ UNCHANGED walking

\* The terminal of a leader that exits is taken from its session.
exit(me, reaper) ==
    LET hangup == proc[me].leader /\ console = me
    IN  /\ me # InitPid
        /\ Adopts(reaper, me)
        /\ proc' = [p \in Live \ {me} |-> [proc[p] EXCEPT
                      !.parent = IF @ = me THEN reaper ELSE @,
                      !.tty = @ /\ ~(hangup /\ proc[p].sid = me)]]
        /\ console' = IF hangup THEN NoPid ELSE console
        /\ UNCHANGED walking

-----------------------------------------------------------------------------
JobsInit ==
    /\ proc = [p \in {InitPid} |->
                 [parent |-> NoPid, pgrp |-> NoPid, sid |-> NoPid, leader |-> FALSE,
                  tty |-> FALSE, execed |-> TRUE, is |-> FALSE, has |-> FALSE]]
    /\ console = NoPid
    /\ walking = {}

Calls(me) ==
    \/ \E p, pgid \in Pids : setpgid(me, p, pgid)
    \/ ksys_setsid(me)
    \/ \E on \in BOOLEAN : set_child_subreaper(me, on)

Others(me) ==
    \/ \E c \in Pids : fork(me, c)
    \/ execve(me)
    \/ open_tty(me)
    \/ \E reaper \in Live \ {me} : exit(me, reaper)

\* A process in the walk does nothing else.
JobsNext ==
    \/ \E me \in Live \ walking : Calls(me) \/ Others(me)
    \/ \E me \in walking : propagate_has_child_subreaper(me)

JobsSpec == JobsInit /\ [][JobsNext]_jobvars

-----------------------------------------------------------------------------
JobsTypeOK ==
    /\ Live \subseteq Pids /\ InitPid \in Live
    /\ \A p \in Live : /\ proc[p] \in Process
                       /\ proc[p].parent \in Live \cup {NoPid}
                       /\ (proc[p].parent = NoPid) = (p = InitPid)
    /\ console \in Live \cup {NoPid}
    /\ walking \subseteq Live

\* A process group never spans two sessions, although setpgid looks at one
\* member of the group it joins and setsid only at the group of its own pid.
GroupWithinSession ==
    \A p, q \in Live : getpgid(p) = getpgid(q) => getsid(p) = getsid(q)

\* While the process a session is named after lives, it is the session's
\* leader and stays in the group of its own pid.
SessionLed ==
    \A p, q \in Live : getsid(p) = q =>
        proc[q].leader /\ getsid(q) = q /\ getpgid(q) = q

\* Who has a terminal is in the session the terminal controls.
TerminalOfSession == \A p \in Live : proc[p].tty => getsid(p) = console

\* Job control as a whole: what setpgid's and setsid's tests are for.
JobsInv == JobsTypeOK /\ GroupWithinSession /\ SessionLed /\ TerminalOfSession

\* A process that leaves its session starts one of its own: nobody is in it
\* already, and no group has its number.
NewSessionAlone ==
    [][\A p \in Live \cap DOMAIN proc' : getsid(p)' # getsid(p) =>
          /\ getsid(p)' = p
          /\ \A q \in Live : p \notin {getsid(q), getpgid(q)}]_jobvars

\* Once prctl is done, every descendant of a subreaper has the flag, whatever
\* forks, exits and other walks came in between; init's need none.
DescendantsFlagged ==
    \A p \in Live : \A a \in Ancestors(p) \ {InitPid} :
        proc[a].is /\ a \notin walking => proc[p].has

\* exit looks for a subreaper only under that flag: an orphan is never handed
\* past a subreaper above it.
OrphansReachReaper ==
    [][\A p \in Live \ DOMAIN proc' : \A c \in Live \ {p}, a \in Ancestors(p) :
          proc[c].parent = p /\ proc[a].is /\ a \notin walking =>
              a \in Ancestors(proc'[c].parent) \cup {proc'[c].parent}]_jobvars
=============================================================================
