------------------------------ MODULE MCTasks -------------------------------
(***************************************************************************)
(* The calls of sys.c on what a task is: whom it acts for (Credentials),   *)
(* and where it stands among the others (Processes).  They share no        *)
(* variable, so a behaviour is about one of the two; `subject` says which: *)
(*   "one"   t2 is a process of root that makes no call, and t1 takes any  *)
(*           of three user ids in one group, or any of two user ids and    *)
(*           two groups                                                    *)
(*   "both"  both move between the accounts of two users, by their real    *)
(*           and effective ids, in one group                               *)
(*   "jobs"  job control and subreapers share no variable but the tree of  *)
(*           processes, so a behaviour keeps to one of them: sessions and  *)
(*           groups among four processes, or subreapers among five         *)
(***************************************************************************)
EXTENDS Credentials, Processes, TLC

VARIABLE subject

\* The pids but that of init are alike.
Symmetric == Permutations(Pids \ {InitPid})

mcvars == <<subject, vars, jobvars>>

-----------------------------------------------------------------------------
(* The bounds. *)

FirstGroup == CHOOSE g \in GIds : \A h \in GIds : g <= h

StandsStill(t) ==
    pending[t] = NoCall /\ cred[t] = Executed(Root, Root, FirstGroup, FirstGroup)

OneGroup(c) == {c.gid, c.egid, c.sgid, c.fsgid} = {FirstGroup}
TwoUsers(c) == {c.uid, c.euid, c.suid, c.fsuid} \subseteq {Root, Root + 1}
TwoIds(c) == TwoUsers(c) /\ c.suid = c.euid /\ c.fsuid = c.euid

Ids ==
    CASE subject = "one" -> OneGroup(cred["t1"]) \/ TwoUsers(cred["t1"])
      [] subject = "both" -> \A t \in Tasks :
            /\ OneGroup(cred[t]) /\ TwoIds(cred[t])
            /\ pending[t] # NoCall => TwoIds(pending[t].new)
      [] subject = "jobs" -> TRUE

\* The numbers of processes, groups and sessions.
Numbers == Live \cup {console} \cup UNION {{proc[p].pgrp, proc[p].sid} : p \in Live}

\* Job control: no process is a subreaper, or was born below one.
NoReapers == \A p \in Live : ~proc[p].is /\ ~proc[p].has
InGroups == NoReapers /\ Cardinality(Numbers \ {NoPid}) <= 4

\* Subreapers: every process stays in the group and session of the boot, and
\* no process executes a program.
NoJobs == \A p \in Live : proc[p].pgrp = NoPid
NoPrograms == \A p \in Live : ~proc[p].execed \/ p = InitPid
Reapers == NoJobs /\ NoPrograms

Small == Ids /\ (InGroups \/ Reapers)

-----------------------------------------------------------------------------
\* What a behaviour is not about stays where it began, in one state.
MCInit ==
    /\ subject \in {"one", "both", "jobs"} /\ Init /\ JobsInit
    /\ subject = "one" => StandsStill("t2")
    /\ subject = "jobs" => \A t \in Tasks : StandsStill(t)
MCNext ==
    \/ subject = "one" /\ (UserCall("t1") \/ GroupCall("t1")) /\ UNCHANGED <<subject, jobvars>>
    \/ /\ subject = "both" /\ \E t \in Tasks : UserCall(t)
       /\ UNCHANGED <<subject, jobvars>>
    \/ subject = "jobs" /\ JobsNext /\ UNCHANGED <<subject, vars>>
MCSpec == MCInit /\ [][MCNext]_mcvars
=============================================================================
