-------------------------- MODULE ProcessesProofs ---------------------------
(***************************************************************************)
(* The invariants of Processes hold for any number of processes.  Those    *)
(* that the runs check are not inductive: setpgid looks at one member of   *)
(* a group, so the number of a live process must say which session its     *)
(* group is in (NumberKept); exit looks at a flag, so the flag must go     *)
(* down the tree link by link (FlagsDown).                                 *)
(***************************************************************************)
EXTENDS Processes, TLAPS

\* Leaders are those whose session has their own number.
Leaders ==
    \A p \in Live : /\ proc[p].leader <=> proc[p].sid = p
                    /\ proc[p].leader => proc[p].pgrp = p

\* A group with the number of a live process is in that process's session.
NumberKept == \A p, q \in Live : proc[q].pgrp = p => proc[q].sid = proc[p].sid

\* The process a session is named after leads it.
SidLed == \A p, q \in Live : proc[q].sid = p => proc[p].leader

\* Nobody has a terminal while the console is free.
Terminals ==
    /\ console \in Live => proc[console].leader
    /\ \A p \in Live : proc[p].tty => proc[p].sid = console /\ console # NoPid

\* The children of a settled subreaper, and of a process with the flag, have it.
FlagsDown ==
    \A c \in Live : LET q == proc[c].parent
                    IN  /\ q \in Live \ {InitPid}
                        /\ proc[q].has \/ (proc[q].is /\ q \notin walking)
                        => proc[c].has

IInv ==
    /\ JobsTypeOK
    /\ Leaders
    /\ NumberKept
    /\ SidLed
    /\ GroupWithinSession
    /\ Terminals
    /\ FlagsDown

-----------------------------------------------------------------------------
LEMMA InitInv == JobsInit => IInv
  <1> SUFFICES ASSUME JobsInit PROVE IInv
    OBVIOUS
  <1>1. /\ Live = {InitPid} /\ console = NoPid /\ walking = {}
        /\ proc[InitPid].parent = NoPid /\ proc[InitPid].pgrp = NoPid
        /\ proc[InitPid].sid = NoPid /\ ~proc[InitPid].leader /\ ~proc[InitPid].tty
        /\ InitPid \in Pids /\ NoPid \notin Pids
    BY PidAssumption DEF JobsInit, Live
  <1>2. proc[InitPid] \in Process
    BY PidAssumption DEF JobsInit, Process
  <1>3. JobsTypeOK
    BY <1>1, <1>2 DEF JobsTypeOK
  <1>4. Leaders /\ NumberKept /\ SidLed
    BY <1>1 DEF Leaders, NumberKept, SidLed
  <1>5. GroupWithinSession
    BY <1>1 DEF GroupWithinSession, getpgid, getsid
  <1>6. Terminals
    BY <1>1 DEF Terminals
  <1>7. FlagsDown
    BY <1>1 DEF FlagsDown
  <1> QED
    BY <1>3, <1>4, <1>5, <1>6, <1>7 DEF IInv

\* A step that changes neither the tree nor groups nor terminals.
Same(f) == \A p \in Live : proc'[p][f] = proc[p][f]

LEMMA MembersSuffice ==
    ASSUME IInv, Live' = Live, console' = console,
           Same("pgrp"), Same("sid"), Same("leader"), Same("tty")
    PROVE  Leaders' /\ NumberKept' /\ SidLed' /\ GroupWithinSession' /\ Terminals'
  <1>1. \A p \in Live : /\ proc'[p].pgrp = proc[p].pgrp /\ proc'[p].sid = proc[p].sid
                        /\ proc'[p].leader = proc[p].leader /\ proc'[p].tty = proc[p].tty
    BY DEF Same
  <1>2. Leaders'
    BY <1>1 DEF IInv, Leaders
  <1>3. NumberKept' /\ SidLed'
    BY <1>1 DEF IInv, NumberKept, SidLed
  <1>4. GroupWithinSession'
    BY <1>1 DEF IInv, GroupWithinSession, getpgid, getsid
  <1>5. Terminals'
    BY <1>1 DEF IInv, Terminals
  <1> QED
    BY <1>2, <1>3, <1>4, <1>5

LEMMA TreeSuffices ==
    ASSUME IInv, Live' = Live, walking' = walking,
           Same("parent"), Same("is"), Same("has")
    PROVE  FlagsDown'
  <1>1. \A p \in Live : /\ proc'[p].parent = proc[p].parent /\ proc'[p].is = proc[p].is
                        /\ proc'[p].has = proc[p].has
    BY DEF Same
  <1> QED
    BY <1>1 DEF IInv, FlagsDown

\* The fields of a process whose record was changed.
LEMMA ChangedType ==
    ASSUME IInv, NEW me \in Live, NEW r \in Process, r.parent = proc[me].parent,
           proc' = [proc EXCEPT ![me] = r], console' \in Live \cup {NoPid},
           walking' \subseteq Live
    PROVE  JobsTypeOK' /\ Live' = Live /\ proc'[me] = r
           /\ \A p \in Live \ {me} : proc'[p] = proc[p]
  <1>1. Live' = Live /\ proc'[me] = r /\ \A p \in Live \ {me} : proc'[p] = proc[p]
    BY DEF Live
  <1>2. \A p \in Live : proc'[p] \in Process /\ proc'[p].parent = proc[p].parent
    BY <1>1 DEF IInv, JobsTypeOK
  <1> QED
    BY <1>1, <1>2 DEF IInv, JobsTypeOK

LEMMA SetpgidInv ==
    ASSUME IInv, NEW me \in Live, NEW p \in Pids, NEW pgid \in Pids, setpgid(me, p, pgid)
    PROVE  IInv'
  <1> DEFINE r == [proc[p] EXCEPT !.pgrp = pgid]
  <1>1. /\ p \in Live /\ proc[p].sid = proc[me].sid /\ ~proc[p].leader
        /\ pgid # p => \E g \in Live : proc[g].pgrp = pgid /\ proc[g].sid = proc[me].sid
    BY DEF setpgid, InGroup
  <1>2. proc[p] \in Process
    BY <1>1 DEF IInv, JobsTypeOK
  <1>3. /\ r \in Process /\ r.parent = proc[p].parent /\ r.pgrp = pgid /\ r.sid = proc[p].sid
        /\ r.leader = proc[p].leader /\ r.tty = proc[p].tty /\ r.is = proc[p].is
        /\ r.has = proc[p].has
    BY <1>2 DEF Process
  <1>4. proc' = [proc EXCEPT ![p] = r] /\ console' = console /\ walking' = walking
    BY <1>1 DEF setpgid
  <1> HIDE DEF r
  <1>5. console' \in Live \cup {NoPid} /\ walking' \subseteq Live
    BY <1>4 DEF IInv, JobsTypeOK
  <1>6. JobsTypeOK' /\ Live' = Live /\ proc'[p] = r /\ \A q \in Live \ {p} : proc'[q] = proc[q]
    BY <1>1, <1>3, <1>4, <1>5, ChangedType
  <1>7. \A q \in Live : /\ proc'[q].sid = proc[q].sid /\ proc'[q].leader = proc[q].leader
                        /\ proc'[q].tty = proc[q].tty
    BY <1>3, <1>6
  <1>8. \A q \in Live : proc[q].pgrp = pgid => proc[q].sid = proc[p].sid
    BY <1>1 DEF IInv, GroupWithinSession, NumberKept, getpgid, getsid
  <1>9. pgid \in Live => proc[p].sid = proc[pgid].sid
    BY <1>1 DEF IInv, NumberKept
  <1>10. Leaders'
    BY <1>1, <1>3, <1>6, <1>7 DEF IInv, Leaders
  <1>11. NumberKept'
    BY <1>3, <1>6, <1>7, <1>9 DEF IInv, NumberKept
  <1>12. SidLed' /\ Terminals'
    BY <1>4, <1>6, <1>7 DEF IInv, SidLed, Terminals
  <1>13. GroupWithinSession'
    BY <1>3, <1>6, <1>7, <1>8 DEF IInv, GroupWithinSession, getpgid, getsid
  <1>14. Same("parent") /\ Same("is") /\ Same("has")
    BY <1>3, <1>6 DEF Same
  <1>15. FlagsDown'
    BY <1>4, <1>6, <1>14, TreeSuffices
  <1> QED
    BY <1>6, <1>10, <1>11, <1>12, <1>13, <1>15 DEF IInv

LEMMA SetsidInv ==
    ASSUME IInv, NEW me \in Live, ksys_setsid(me)
    PROVE  IInv'
  <1> DEFINE r == [proc[me] EXCEPT !.leader = TRUE, !.sid = me, !.pgrp = me, !.tty = FALSE]
  <1>1. proc[me] \in Process /\ me \in Pids
    BY DEF IInv, JobsTypeOK
  <1>2. /\ r \in Process /\ r.parent = proc[me].parent /\ r.pgrp = me /\ r.sid = me
        /\ r.leader /\ ~r.tty /\ r.is = proc[me].is /\ r.has = proc[me].has
    BY <1>1 DEF Process
  <1>3. /\ proc' = [proc EXCEPT ![me] = r] /\ console' = console /\ walking' = walking
        /\ \A q \in Live : proc[q].pgrp # me
    BY DEF ksys_setsid, InGroup
  <1> HIDE DEF r
  <1>4. console' \in Live \cup {NoPid} /\ walking' \subseteq Live
    BY <1>3 DEF IInv, JobsTypeOK
  <1>5. JobsTypeOK' /\ Live' = Live /\ proc'[me] = r /\ \A q \in Live \ {me} : proc'[q] = proc[q]
    BY <1>2, <1>3, <1>4, ChangedType
  <1>6. Leaders' /\ NumberKept' /\ SidLed'
    BY <1>2, <1>3, <1>5 DEF IInv, Leaders, NumberKept, SidLed
  <1>7. GroupWithinSession'
    BY <1>2, <1>3, <1>5 DEF IInv, GroupWithinSession, getpgid, getsid
  <1>8. Terminals'
    BY <1>2, <1>3, <1>5 DEF IInv, Terminals
  <1>9. Same("parent") /\ Same("is") /\ Same("has")
    BY <1>2, <1>5 DEF Same
  <1>10. FlagsDown'
    BY <1>3, <1>5, <1>9, TreeSuffices
  <1> QED
    BY <1>5, <1>6, <1>7, <1>8, <1>10 DEF IInv

\* A process starts the walk only when it is not in one: it was not settled.
LEMMA SetReaperInv ==
    ASSUME IInv, NEW me \in Live, me \notin walking, NEW on \in BOOLEAN,
           set_child_subreaper(me, on)
    PROVE  IInv'
  <1> DEFINE r == [proc[me] EXCEPT !.is = on]
  <1>1. proc[me] \in Process
    BY DEF IInv, JobsTypeOK
  <1>2. /\ r \in Process /\ r.parent = proc[me].parent /\ r.pgrp = proc[me].pgrp
        /\ r.sid = proc[me].sid /\ r.leader = proc[me].leader /\ r.tty = proc[me].tty
        /\ r.is = on /\ r.has = proc[me].has
    BY <1>1 DEF Process
  <1>3. /\ proc' = [proc EXCEPT ![me] = r] /\ console' = console
        /\ walking' = IF on THEN walking \cup {me} ELSE walking
    BY DEF set_child_subreaper
  <1> HIDE DEF r
  <1>4. console' \in Live \cup {NoPid} /\ walking' \subseteq Live
    BY <1>3 DEF IInv, JobsTypeOK
  <1>5. JobsTypeOK' /\ Live' = Live /\ proc'[me] = r /\ \A q \in Live \ {me} : proc'[q] = proc[q]
    BY <1>2, <1>3, <1>4, ChangedType
  <1>6. Same("pgrp") /\ Same("sid") /\ Same("leader") /\ Same("tty")
    BY <1>2, <1>5 DEF Same
  <1>7. Leaders' /\ NumberKept' /\ SidLed' /\ GroupWithinSession' /\ Terminals'
    BY <1>3, <1>5, <1>6, MembersSuffice
  <1>8. \A q \in Live : /\ proc'[q].parent = proc[q].parent /\ proc'[q].has = proc[q].has
                        /\ proc'[q].is /\ q \notin walking' => proc[q].is /\ q \notin walking
    BY <1>2, <1>3, <1>5
  <1>9. FlagsDown'
    BY <1>5, <1>8 DEF IInv, FlagsDown
  <1> QED
    BY <1>5, <1>7, <1>9 DEF IInv

LEMMA MarkedCloses ==
    ASSUME NEW me \in Live, NEW q \in Live,
           proc[q].parent \in Marked(me) \cup {me}, ~proc[q].has, q # InitPid
    PROVE  q \in Marked(me)
  BY DEF Marked

LEMMA PropagateInv ==
    ASSUME IInv, NEW me \in walking, propagate_has_child_subreaper(me)
    PROVE  IInv'
  <1> DEFINE M == Marked(me)
             has(p) == proc[p].has \/ p \in M
             r(p) == [proc[p] EXCEPT !.has = has(p)]
  <1>1. me \in Live
    BY DEF IInv, JobsTypeOK
  <1>2. ASSUME NEW q \in Live, proc[q].parent \in M \cup {me}, ~proc[q].has, q # InitPid
        PROVE  q \in M
    BY <1>1, <1>2, MarkedCloses
  <1> HIDE DEF M
  <1>3. ASSUME NEW p \in Live PROVE has(p) \in BOOLEAN /\ (has(p) <=> proc[p].has \/ p \in M)
    <2>1. CASE has(p)
      <3>1. has(p) = TRUE
        BY <2>1
      <3> QED
        BY <3>1, <2>1
    <2>2. CASE ~has(p)
      <3>1. has(p) = FALSE
        BY <2>2
      <3> QED
        BY <3>1, <2>2
    <2> QED
      BY <2>1, <2>2
  <1> HIDE DEF has
  <1>4. ASSUME NEW p \in Live
        PROVE  /\ r(p) \in Process /\ r(p).parent = proc[p].parent /\ r(p).pgrp = proc[p].pgrp
               /\ r(p).sid = proc[p].sid /\ r(p).leader = proc[p].leader
               /\ r(p).tty = proc[p].tty /\ r(p).is = proc[p].is /\ r(p).has = has(p)
    <2>1. proc[p] \in Process
      BY DEF IInv, JobsTypeOK
    <2> QED
      BY <2>1, <1>3 DEF Process
  <1>5. /\ proc' = [p \in Live |-> r(p)] /\ console' = console /\ walking' = walking \ {me}
    BY DEF propagate_has_child_subreaper, has, M
  <1> HIDE DEF r
  <1>6. Live' = Live /\ \A p \in Live : proc'[p] = r(p)
    BY <1>5 DEF Live
  <1>7. JobsTypeOK'
    BY <1>4, <1>5, <1>6 DEF IInv, JobsTypeOK
  <1>8. Same("pgrp") /\ Same("sid") /\ Same("leader") /\ Same("tty")
    BY <1>4, <1>6 DEF Same
  <1>9. Leaders' /\ NumberKept' /\ SidLed' /\ GroupWithinSession' /\ Terminals'
    BY <1>5, <1>6, <1>8, MembersSuffice
  <1>10. ASSUME NEW c \in Live', NEW q \in Live \ {InitPid}, proc'[c].parent = q,
                proc'[q].has \/ (proc'[q].is /\ q \notin walking')
         PROVE  proc'[c].has
    <2>1. /\ proc[c].parent = q /\ c # InitPid
          /\ proc'[c].has <=> proc[c].has \/ c \in M
          /\ proc'[q].has <=> proc[q].has \/ q \in M
          /\ proc'[q].is = proc[q].is
      BY <1>3, <1>4, <1>6, <1>10, PidAssumption DEF IInv, JobsTypeOK
    <2>2. CASE q \in M \cup {me}
      BY <1>2, <1>6, <2>1, <2>2
    <2>3. CASE q \notin M \cup {me}
      BY <1>5, <1>6, <1>10, <2>1, <2>3 DEF IInv, FlagsDown
    <2> QED
      BY <2>2, <2>3
  <1>11. FlagsDown'
    BY <1>6, <1>10 DEF FlagsDown
  <1> QED
    BY <1>7, <1>9, <1>11 DEF IInv

LEMMA ForkInv ==
    ASSUME IInv, NEW me \in Live, NEW c \in Pids, fork(me, c)
    PROVE  IInv'
  <1> DEFINE has == proc[me].has \/ proc[me].is
             r == [proc[me] EXCEPT !.parent = me, !.leader = FALSE, !.execed = FALSE,
                                   !.is = FALSE, !.has = has]
  <1>1. proc[me] \in Process /\ me \in Pids
    BY DEF IInv, JobsTypeOK
  <1>2. has \in BOOLEAN
    BY <1>1 DEF Process
  <1>3. has <=> proc[me].has \/ proc[me].is
    OBVIOUS
  <1> HIDE DEF has
  <1>4. /\ r \in Process /\ r.parent = me /\ r.pgrp = proc[me].pgrp /\ r.sid = proc[me].sid
        /\ ~r.leader /\ r.tty = proc[me].tty /\ ~r.is /\ r.has = has
    BY <1>1, <1>2 DEF Process
  <1>5. /\ c \notin Live /\ \A p \in Live : proc[p].pgrp # c /\ proc[p].sid # c
        /\ proc' = [p \in Live \cup {c} |-> IF p = c THEN r ELSE proc[p]]
        /\ console' = console /\ walking' = walking
    BY DEF fork, has
  <1> HIDE DEF r
  <1>6. /\ Live' = Live \cup {c} /\ proc'[c] = r
        /\ \A p \in Live : proc'[p] = proc[p]
    BY <1>5 DEF Live
  <1>7. ASSUME NEW p \in Live'
        PROVE  /\ proc'[p] \in Process /\ proc'[p].parent \in Live' \cup {NoPid}
               /\ (proc'[p].parent = NoPid) = (p = InitPid)
    <2>1. CASE p = c
      BY <1>1, <1>4, <1>5, <1>6, <2>1, PidAssumption DEF IInv, JobsTypeOK
    <2>2. CASE p # c
      BY <1>6, <2>2 DEF IInv, JobsTypeOK
    <2> QED
      BY <2>1, <2>2
  <1>8. JobsTypeOK'
    BY <1>5, <1>6, <1>7 DEF IInv, JobsTypeOK
  <1>9. Leaders'
    BY <1>4, <1>5, <1>6 DEF IInv, Leaders
  <1>10. NumberKept' /\ SidLed'
    BY <1>4, <1>5, <1>6 DEF IInv, NumberKept, SidLed
  <1>11. GroupWithinSession'
    BY <1>4, <1>5, <1>6 DEF IInv, GroupWithinSession, getpgid, getsid
  <1>12. Terminals'
    <2>1. console # c /\ (console \in Live' => console \in Live)
      BY <1>5, <1>6, PidAssumption DEF IInv, JobsTypeOK
    <2>2. console' \in Live' => proc'[console'].leader
      BY <1>5, <1>6, <2>1 DEF IInv, Terminals
    <2>3. \A p \in Live' : proc'[p].tty => proc'[p].sid = console' /\ console' # NoPid
      BY <1>4, <1>5, <1>6 DEF IInv, Terminals
    <2> QED
      BY <2>2, <2>3 DEF Terminals
  <1>13. FlagsDown'
    BY <1>3, <1>4, <1>5, <1>6, PidAssumption DEF IInv, FlagsDown, JobsTypeOK
  <1> QED
    BY <1>8, <1>9, <1>10, <1>11, <1>12, <1>13 DEF IInv

LEMMA ExecInv ==
    ASSUME IInv, NEW me \in Live, execve(me)
    PROVE  IInv'
  <1> DEFINE r == [proc[me] EXCEPT !.execed = TRUE]
  <1>1. proc[me] \in Process
    BY DEF IInv, JobsTypeOK
  <1>2. /\ r \in Process /\ r.parent = proc[me].parent /\ r.pgrp = proc[me].pgrp
        /\ r.sid = proc[me].sid /\ r.leader = proc[me].leader /\ r.tty = proc[me].tty
        /\ r.is = proc[me].is /\ r.has = proc[me].has
    BY <1>1 DEF Process
  <1>3. proc' = [proc EXCEPT ![me] = r] /\ console' = console /\ walking' = walking
    BY DEF execve
  <1> HIDE DEF r
  <1>4. console' \in Live \cup {NoPid} /\ walking' \subseteq Live
    BY <1>3 DEF IInv, JobsTypeOK
  <1>5. JobsTypeOK' /\ Live' = Live /\ proc'[me] = r /\ \A q \in Live \ {me} : proc'[q] = proc[q]
    BY <1>2, <1>3, <1>4, ChangedType
  <1>6. /\ Same("pgrp") /\ Same("sid") /\ Same("leader") /\ Same("tty")
        /\ Same("parent") /\ Same("is") /\ Same("has")
    BY <1>2, <1>5 DEF Same
  <1> QED
    BY <1>3, <1>5, <1>6, MembersSuffice, TreeSuffices DEF IInv

LEMMA OpenTtyInv ==
    ASSUME IInv, NEW me \in Live, open_tty(me)
    PROVE  IInv'
  <1> DEFINE r == [proc[me] EXCEPT !.tty = TRUE]
  <1>1. proc[me] \in Process
    BY DEF IInv, JobsTypeOK
  <1>2. /\ r \in Process /\ r.parent = proc[me].parent /\ r.pgrp = proc[me].pgrp
        /\ r.sid = proc[me].sid /\ r.leader = proc[me].leader /\ r.tty
        /\ r.is = proc[me].is /\ r.has = proc[me].has
    BY <1>1 DEF Process
  <1>3. /\ proc' = [proc EXCEPT ![me] = r] /\ console' = me /\ walking' = walking
        /\ console = NoPid /\ proc[me].leader
    BY DEF open_tty
  <1> HIDE DEF r
  <1>4. console' \in Live \cup {NoPid} /\ walking' \subseteq Live
    BY <1>3 DEF IInv, JobsTypeOK
  <1>5. JobsTypeOK' /\ Live' = Live /\ proc'[me] = r /\ \A q \in Live \ {me} : proc'[q] = proc[q]
    BY <1>2, <1>3, <1>4, ChangedType
  <1>6. \A q \in Live : /\ proc'[q].pgrp = proc[q].pgrp /\ proc'[q].sid = proc[q].sid
                        /\ proc'[q].leader = proc[q].leader
    BY <1>2, <1>5
  <1>7. Leaders' /\ NumberKept' /\ SidLed'
    BY <1>5, <1>6 DEF IInv, Leaders, NumberKept, SidLed
  <1>8. GroupWithinSession'
    BY <1>5, <1>6 DEF IInv, GroupWithinSession, getpgid, getsid
  <1>9. proc[me].sid = me /\ me # NoPid
    BY <1>3, PidAssumption DEF IInv, Leaders, JobsTypeOK
  <1>10. Terminals'
    BY <1>2, <1>3, <1>5, <1>6, <1>9 DEF IInv, Terminals
  <1>11. Same("parent") /\ Same("is") /\ Same("has")
    BY <1>2, <1>5 DEF Same
  <1> QED
    BY <1>3, <1>5, <1>7, <1>8, <1>10, <1>11, TreeSuffices DEF IInv

LEMMA AdoptsOnlyUnderFlag ==
    ASSUME NEW me \in Live, NEW reaper \in Live, Adopts(reaper, me), reaper # InitPid
    PROVE  proc[me].has
  BY DEF Adopts

LEMMA ExitInv ==
    ASSUME IInv, NEW me \in Live \ walking, NEW reaper \in Live \ {me}, exit(me, reaper)
    PROVE  IInv'
  <1> DEFINE hangup == proc[me].leader /\ console = me
             par(p) == IF proc[p].parent = me THEN reaper ELSE proc[p].parent
             tty(p) == proc[p].tty /\ ~(hangup /\ proc[p].sid = me)
             r(p) == [proc[p] EXCEPT !.parent = par(p), !.tty = tty(p)]
  <1>1. ASSUME NEW p \in Live
        PROVE  tty(p) \in BOOLEAN /\ (tty(p) => proc[p].tty /\ ~(hangup /\ proc[p].sid = me))
    <2>1. CASE tty(p)
      <3>1. tty(p) = TRUE
        BY <2>1
      <3> QED
        BY <3>1, <2>1
    <2>2. CASE ~tty(p)
      <3>1. tty(p) = FALSE
        BY <2>2
      <3> QED
        BY <3>1
    <2> QED
      BY <2>1, <2>2
  <1> HIDE DEF tty
  <1>2. ASSUME NEW p \in Live
        PROVE  /\ r(p) \in Process /\ r(p).parent = par(p) /\ r(p).pgrp = proc[p].pgrp
               /\ r(p).sid = proc[p].sid /\ r(p).leader = proc[p].leader /\ r(p).tty = tty(p)
               /\ r(p).is = proc[p].is /\ r(p).has = proc[p].has
    <2>1. proc[p] \in Process /\ par(p) \in Pids \cup {NoPid}
      BY DEF IInv, JobsTypeOK, Process
    <2> HIDE DEF par
    <2> QED
      BY <1>1, <2>1 DEF Process
  <1>3. /\ me # InitPid /\ Adopts(reaper, me) /\ walking' = walking
        /\ proc' = [p \in Live \ {me} |-> r(p)]
        /\ console' = IF hangup THEN NoPid ELSE console
    BY DEF exit, tty
  <1> HIDE DEF r
  <1>4. Live' = Live \ {me} /\ \A p \in Live \ {me} : proc'[p] = r(p)
    BY <1>3 DEF Live
  <1>5. \A p \in Live' : /\ p \in Live /\ p # me /\ proc'[p] \in Process
                         /\ proc'[p].parent = par(p) /\ proc'[p].pgrp = proc[p].pgrp
                         /\ proc'[p].sid = proc[p].sid /\ proc'[p].leader = proc[p].leader
                         /\ proc'[p].tty = tty(p) /\ proc'[p].is = proc[p].is
                         /\ proc'[p].has = proc[p].has
    BY <1>2, <1>4
  <1>6. console = me => hangup
    BY DEF IInv, Terminals
  <1>7. ASSUME NEW p \in Live'
        PROVE  /\ proc'[p].parent \in Live' \cup {NoPid}
               /\ (proc'[p].parent = NoPid) = (p = InitPid)
    <2>1. /\ proc[p].parent \in Live \cup {NoPid}
          /\ (proc[p].parent = NoPid) = (p = InitPid) /\ reaper # NoPid /\ me # NoPid
      BY <1>5, PidAssumption DEF IInv, JobsTypeOK
    <2> QED
      BY <2>1, <1>4, <1>5
  <1>8. Live' \subseteq Pids /\ InitPid \in Live' /\ walking' \subseteq Live'
    BY <1>3, <1>4 DEF IInv, JobsTypeOK
  <1>9. console' \in Live' \cup {NoPid}
    BY <1>3, <1>4, <1>6 DEF IInv, JobsTypeOK
  <1>10. JobsTypeOK'
    BY <1>5, <1>7, <1>8, <1>9 DEF JobsTypeOK
  <1>11. Leaders' /\ NumberKept' /\ SidLed'
    BY <1>5 DEF IInv, Leaders, NumberKept, SidLed
  <1>12. GroupWithinSession'
    BY <1>5 DEF IInv, GroupWithinSession, getpgid, getsid
  <1>13. ASSUME NEW p \in Live', proc'[p].tty
         PROVE  proc'[p].sid = console' /\ console' # NoPid
    <2>1. proc[p].tty /\ ~(hangup /\ proc[p].sid = me)
      BY <1>1, <1>5, <1>13
    <2>2. proc[p].sid = console /\ console # NoPid
      BY <1>5, <2>1 DEF IInv, Terminals
    <2> QED
      BY <1>3, <1>5, <2>1, <2>2
  <1>14. console' \in Live' => proc'[console'].leader
    <2> SUFFICES ASSUME console' \in Live' PROVE proc'[console'].leader
      OBVIOUS
    <2>1. console' \in Live /\ NoPid \notin Live
      BY <1>5, PidAssumption DEF IInv, JobsTypeOK
    <2>2. console' = console
      BY <1>3, <2>1
    <2> QED
      BY <1>5, <2>1, <2>2 DEF IInv, Terminals
  <1>15. Terminals'
    BY <1>13, <1>14 DEF Terminals
  <1>16. ASSUME NEW c \in Live', NEW q \in Live' \ {InitPid}, proc'[c].parent = q,
                proc'[q].has \/ (proc'[q].is /\ q \notin walking')
         PROVE  proc'[c].has
    <2>1. CASE proc[c].parent = me
      <3>1. q = reaper
        BY <1>5, <1>16, <2>1
      <3>2. proc[me].has
        BY <1>3, <1>16, <3>1, AdoptsOnlyUnderFlag
      <3> QED
        BY <1>3, <1>5, <2>1, <3>2 DEF IInv, FlagsDown
    <2>2. CASE proc[c].parent # me
      BY <1>3, <1>5, <1>16, <2>2 DEF IInv, FlagsDown
    <2> QED
      BY <2>1, <2>2
  <1>17. FlagsDown'
    BY <1>16 DEF FlagsDown
  <1> QED
    BY <1>10, <1>11, <1>12, <1>15, <1>17 DEF IInv

-----------------------------------------------------------------------------
LEMMA NextInv == IInv /\ [JobsNext]_jobvars => IInv'
  <1> SUFFICES ASSUME IInv, [JobsNext]_jobvars PROVE IInv'
    OBVIOUS
  <1>1. CASE UNCHANGED jobvars
    BY <1>1 DEF jobvars, IInv, JobsTypeOK, Leaders, NumberKept, SidLed, GroupWithinSession,
                Terminals, FlagsDown, Live, getpgid, getsid
  <1>2. ASSUME NEW me \in Live \ walking, Calls(me) PROVE IInv'
    BY <1>2, SetpgidInv, SetsidInv, SetReaperInv DEF Calls
  <1>3. ASSUME NEW me \in Live \ walking, Others(me) PROVE IInv'
    BY <1>3, ForkInv, ExecInv, OpenTtyInv, ExitInv DEF Others
  <1>4. ASSUME NEW me \in walking, propagate_has_child_subreaper(me) PROVE IInv'
    BY <1>4, PropagateInv
  <1> QED
    BY <1>1, <1>2, <1>3, <1>4 DEF JobsNext

LEMMA Invariance == JobsSpec => []IInv
  BY InitInv, NextInv, PTL DEF JobsSpec

\* Every variable keeps its type, and the parent of a live process lives.
THEOREM TypeCorrect == JobsSpec => []JobsTypeOK
  <1>1. IInv => JobsTypeOK
    BY DEF IInv
  <1> QED
    BY <1>1, Invariance, PTL

\* setpgid, setsid, fork and exit, in any order, keep a group in one session.
THEOREM GroupsStay == JobsSpec => []GroupWithinSession
  <1>1. IInv => GroupWithinSession
    BY DEF IInv
  <1> QED
    BY <1>1, Invariance, PTL

\* The process a session is named after leads it as long as it lives.
THEOREM SessionsAreLed == JobsSpec => []SessionLed
  <1>1. IInv => SessionLed
    BY DEF IInv, Leaders, SidLed, SessionLed, getsid, getpgid
  <1> QED
    BY <1>1, Invariance, PTL

\* setsid and exit leave nobody with the terminal of another session.
THEOREM TerminalsBelong == JobsSpec => []TerminalOfSession
  <1>1. IInv => TerminalOfSession
    BY DEF IInv, Terminals, TerminalOfSession, getsid
  <1> QED
    BY <1>1, Invariance, PTL

\* Job control as a whole: groups, sessions and terminals.
THEOREM JobsKept == JobsSpec => []JobsInv
  BY TypeCorrect, GroupsStay, SessionsAreLed, TerminalsBelong, PTL DEF JobsInv

\* setsid's test for a group of its pid is enough for the session to be new.
THEOREM SessionsStartAlone == JobsSpec => NewSessionAlone
  <1> DEFINE A == \A p \in Live \cap DOMAIN proc' : getsid(p)' # getsid(p) =>
                    /\ getsid(p)' = p
                    /\ \A q \in Live : p \notin {getsid(q), getpgid(q)}
  <1>1. IInv /\ [JobsNext]_jobvars => [A]_jobvars
    <2> SUFFICES ASSUME IInv, JobsNext PROVE A
      OBVIOUS
    <2>1. ASSUME NEW me \in Live, ksys_setsid(me) PROVE A
      <3>1. /\ \A p \in Live : p # me => proc'[p] = proc[p]
            /\ proc'[me].sid = me /\ ~proc[me].leader
            /\ \A q \in Live : proc[q].pgrp # me
        <4>1. proc[me] \in Process
          BY DEF IInv, JobsTypeOK
        <4> QED
          BY <2>1, <4>1 DEF ksys_setsid, InGroup, Live, Process
      <3>2. \A q \in Live : proc[q].sid # me
        BY <3>1 DEF IInv, SidLed
      <3> QED
        BY <3>1, <3>2 DEF getsid, getpgid
    <2> DEFINE Kept == \A p \in Live \cap DOMAIN proc' : proc'[p].sid = proc[p].sid
    <2>2. ASSUME NEW p \in Live PROVE proc[p] \in Process
      BY DEF IInv, JobsTypeOK
    <2>3. ASSUME NEW me \in Live, NEW p \in Pids, NEW pgid \in Pids, setpgid(me, p, pgid)
          PROVE  Kept
      BY <2>2, <2>3 DEF setpgid, Live, Process
    <2>4. ASSUME NEW me \in Live, NEW on \in BOOLEAN, set_child_subreaper(me, on) PROVE Kept
      BY <2>2, <2>4 DEF set_child_subreaper, Live, Process
    <2>5. ASSUME NEW me \in Live, NEW c \in Pids, fork(me, c) PROVE Kept
      BY <2>2, <2>5 DEF fork, Live, Process
    <2>6. ASSUME NEW me \in Live, execve(me) \/ open_tty(me) PROVE Kept
      BY <2>2, <2>6 DEF execve, open_tty, Live, Process
    <2>7. ASSUME NEW me \in Live, NEW reaper \in Live, exit(me, reaper) PROVE Kept
      BY <2>2, <2>7 DEF exit, Live, Process
    <2>8. ASSUME NEW me \in walking, propagate_has_child_subreaper(me) PROVE Kept
      BY <2>2, <2>8 DEF propagate_has_child_subreaper, Live, Process
    <2>9. Kept => A
      BY DEF getsid
    <2> HIDE DEF Kept, A
    <2> QED
      BY <2>1, <2>3, <2>4, <2>5, <2>6, <2>7, <2>8, <2>9 DEF JobsNext, Calls, Others
  <1> QED
    BY <1>1, Invariance, PTL DEF JobsSpec, NewSessionAlone

-----------------------------------------------------------------------------
\* FlagsDown speaks of one link; the way up from an unflagged process stays
\* among processes that are neither flagged nor settled subreapers.
LEMMA FlaggedAll == IInv => DescendantsFlagged
  <1> SUFFICES ASSUME IInv, NEW p \in Live, NEW a \in Ancestors(p) \ {InitPid},
                      proc[a].is, a \notin walking, ~proc[p].has
               PROVE  FALSE
    BY DEF DescendantsFlagged
  <1> DEFINE clear == {q \in Live : ~proc[q].has /\ ~(proc[q].is /\ q \notin walking)}
             S == clear \cup {InitPid, NoPid}
  <1>1. \A q \in Live : proc[q].parent \in Live \cup {NoPid}
                        /\ (proc[q].parent = NoPid) = (q = InitPid)
    BY DEF IInv, JobsTypeOK
  <1>2. \A q \in Live : ~proc[q].has => proc[q].parent \in S
    BY <1>1 DEF IInv, FlagsDown
  <1>3. ASSUME NEW q \in S \cap Live PROVE proc[q].parent \in S
    <2>1. CASE q = InitPid
      BY <1>1, <2>1
    <2>2. CASE q \in clear
      BY <1>2, <2>2
    <2> QED
      BY <2>1, <2>2, PidAssumption DEF IInv, JobsTypeOK
  <1>4. S \in SUBSET (Pids \cup {NoPid})
    BY DEF IInv, JobsTypeOK
  <1>5. a \in S
    BY <1>2, <1>3, <1>4 DEF Ancestors
  <1>6. a \in Live /\ NoPid \notin Live
    BY PidAssumption DEF Ancestors, IInv, JobsTypeOK
  <1> QED
    BY <1>5, <1>6

\* The flag prctl spreads is on every descendant of a settled subreaper.
THEOREM FlagsReachAll == JobsSpec => []DescendantsFlagged
  BY FlaggedAll, Invariance, PTL

\* So the flag that exit tests never hides a subreaper from an orphan.
THEOREM OrphansAreReached == JobsSpec => OrphansReachReaper
  <1> DEFINE A == \A p \in Live \ DOMAIN proc' : \A c \in Live \ {p}, a \in Ancestors(p) :
                    proc[c].parent = p /\ proc[a].is /\ a \notin walking =>
                        a \in Ancestors(proc'[c].parent) \cup {proc'[c].parent}
             Stay == Live \subseteq DOMAIN proc'
  <1>1. IInv /\ [JobsNext]_jobvars => [A]_jobvars
    <2> SUFFICES ASSUME IInv, JobsNext PROVE A
      OBVIOUS
    <2>1. ASSUME NEW me \in Live, NEW reaper \in Live, exit(me, reaper) PROVE A
      <3> SUFFICES ASSUME NEW c \in Live \ {me}, NEW a \in Ancestors(me),
                          proc[c].parent = me, proc[a].is, a \notin walking
                   PROVE  a \in Ancestors(proc'[c].parent) \cup {proc'[c].parent}
        BY <2>1 DEF exit, Live
      <3>1. proc'[c].parent = reaper /\ Adopts(reaper, me)
        <4>1. proc[c] \in Process
          BY DEF IInv, JobsTypeOK
        <4> QED
          BY <2>1, <4>1 DEF exit, Live, Process
      <3>2. CASE proc[me].has
        BY <3>1, <3>2 DEF Adopts
      <3>3. CASE ~proc[me].has
        <4>1. reaper = InitPid
          BY <3>1, <3>3 DEF Adopts
        <4>2. a = InitPid
          BY <3>3, FlaggedAll DEF DescendantsFlagged
        <4> QED
          BY <3>1, <4>1, <4>2
      <3> QED
        BY <3>2, <3>3
    <2>2. ASSUME NEW me \in Live, NEW p \in Pids, NEW pgid \in Pids, setpgid(me, p, pgid)
          PROVE  Stay
      BY <2>2 DEF setpgid, Live
    <2>3. ASSUME NEW me \in Live, NEW on \in BOOLEAN, set_child_subreaper(me, on) PROVE Stay
      BY <2>3 DEF set_child_subreaper, Live
    <2>4. ASSUME NEW me \in Live, NEW c \in Pids, fork(me, c) PROVE Stay
      BY <2>4 DEF fork, Live
    <2>5. ASSUME NEW me \in Live, ksys_setsid(me) \/ execve(me) \/ open_tty(me) PROVE Stay
      BY <2>5 DEF ksys_setsid, execve, open_tty, Live
    <2>6. ASSUME NEW me \in walking, propagate_has_child_subreaper(me) PROVE Stay
      BY <2>6 DEF propagate_has_child_subreaper, Live
    <2>7. Stay => A
      OBVIOUS
    <2> HIDE DEF Stay, A
    <2> QED
      BY <2>1, <2>2, <2>3, <2>4, <2>5, <2>6, <2>7 DEF JobsNext, Calls, Others
  <1> QED
    BY <1>1, Invariance, PTL DEF JobsSpec, OrphansReachReaper
=============================================================================
