---------------------------- MODULE MCFileSystem ----------------------------
(***************************************************************************)
(* Small volumes for TLC, and sessions of a bounded number of commands:    *)
(* any session (MCSpec), and a careful user's (MCCarefulSpec).             *)
(***************************************************************************)
EXTENDS CarefulSession

CONSTANT MaxCommands  \* bound: commands, typed blocks, starts and crashes
VARIABLE typed        \* how many there were

mcvars == <<vars, typed>>
\* Names without a dot are their own stem; "a.c" can be typed as "a".
MCStem == [n \in Names |-> IF n = "a.c" THEN "a" ELSE n]
MCSymmetry == Permutations(Names)
MCPathArgs == {<<"..">>} \cup {<<n>> : n \in Names} \cup {<<"..", n>> : n \in Names}

Count == mode # "rmdir" /\ typed < MaxCommands /\ typed' = typed + 1
Same  == UNCHANGED typed

MCInit == Init /\ typed = 0
MCNext ==
    \/ Count /\ startsys
    \/ Count /\ startsysTorn
    \/ Count /\ existsys
    \/ Count /\ CrashWhileSaving
    \/ Crash /\ typed' = IF typed < MaxCommands THEN typed + 1 ELSE typed
    \/ Count /\ format
    \/ Count /\ LostDirectory
    \/ Count /\ close
    \/ Count /\ writeFlush
    \/ rmdirPop /\ Same
    \/ rmdirScan /\ Same
    \/ rmdirDone /\ Same
    \/ \E n \in Names : Count /\ mkdir(n)
    \/ \E n \in Names : Count /\ create(n)
    \/ \E n \in Names : Count /\ openFile(n)
    \/ \E n \in Names : Count /\ rmfile(n)
    \/ \E n \in Names : Count /\ rmdir(n)
    \/ \E p \in PathArgs : Count /\ cd(p)
    \/ \E id \in TextIds : Count /\ write(id)
    \/ \E n \in 0..BlockSize, spill \in {"no", "", JunkName} :
          Count /\ writeQuit(n, spill)
MCSpec == MCInit /\ [][MCNext]_mcvars /\ WF_mcvars(RmdirStep /\ Same)

MCCarefulNext ==
    \/ mode # "rmdir" /\ typed < MaxCommands /\ typed' = typed + 1 /\ CarefulNext
    \/ RmdirStep /\ Same
MCCarefulSpec == MCInit /\ [][MCCarefulNext]_mcvars
=============================================================================
