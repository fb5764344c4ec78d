------------------------------- MODULE ProcUI -------------------------------
(***************************************************************************)
(* procUI.c: a process that forks twice, so that three windows show the    *)
(* time, a sum that is added up, and the CPU usage.  Each child ends when  *)
(* its window is closed; the parent then waits for both.                   *)
(***************************************************************************)
EXTENDS Integers

CONSTANTS
    Word,      \* unsigned int counts modulo this
    Advances   \* what two seconds may add to the counters: [idle |-> i, busy |-> b]

\* What the constants must be.
ProcUIAssumption ==
    /\ Word \in Nat \ {0}
    /\ \A a \in Advances : a.idle \in Nat /\ a.busy \in Nat /\ a.idle + a.busy \in 1 .. Word - 1

VARIABLES
    parent,    \* where main is in the parent
    child,     \* each child: not there, its window, ended, or waited for
    sum, now,  \* the statics of refresh_sum
    stat,      \* /proc/stat as unsigned int: the idle and the total time
    cpu,       \* the statics of refresh_CPUusage
    wrapped    \* a counter wrapped since the reading before the last (history)

vars == <<parent, child, sum, now, stat, cpu, wrapped>>
windows == <<parent, child>>
counting == <<sum, now>>
measuring == <<stat, cpu, wrapped>>

Percent == 0 .. 100

-----------------------------------------------------------------------------
\* fork() for child i: one that fails ends the parent, the children it has
\* keep their windows.
Fork(i, next) ==
    /\ parent = (IF i = 1 THEN "fork1" ELSE "fork2")
    /\ \/ parent' = next /\ child' = [child EXCEPT ![i] = "window"]
       \/ parent' = "failed" /\ UNCHANGED child
    /\ UNCHANGED <<counting, measuring>>

CloseParent ==
    /\ parent = "window"
    /\ parent' = "wait1"
    /\ UNCHANGED <<child, counting, measuring>>

\* A slip: without exit(0) a child falls into the next case, with a window again.
CloseChildOn(i) ==
    /\ child[i] = "window"
    /\ UNCHANGED <<windows, counting, measuring>>

CloseChild(i) ==
    /\ child[i] = "window"
    /\ child' = [child EXCEPT ![i] = "ended"]
    /\ UNCHANGED <<parent, counting, measuring>>

\* A slip: waitpid is told not to wait.
WaitNot(i, next) ==
    /\ parent = (IF i = 1 THEN "wait1" ELSE "wait2")
    /\ child' = [child EXCEPT ![i] = IF @ = "ended" THEN "waited" ELSE @]
    /\ parent' = next
    /\ UNCHANGED <<counting, measuring>>

\* waitpid(pid1), waitpid(pid2).
Wait(i, next) ==
    /\ parent = (IF i = 1 THEN "wait1" ELSE "wait2")
    /\ child[i] = "ended"
    /\ child' = [child EXCEPT ![i] = "waited"]
    /\ parent' = next
    /\ UNCHANGED <<counting, measuring>>

-----------------------------------------------------------------------------
\* A slip: the sum is not reset with the number.
refresh_sumKeeps ==
    /\ child[1] = "window"
    /\ sum' = sum + now
    /\ now' = IF now + 1 = 100 THEN 1 ELSE now + 1
    /\ UNCHANGED <<windows, measuring>>

refresh_sum ==
    /\ child[1] = "window"
    /\ IF now + 1 = 100 THEN sum' = 0 /\ now' = 1
                        ELSE sum' = sum + now /\ now' = now + 1
    /\ UNCHANGED <<windows, measuring>>

\* A slip: the old idle time is not stored.
refresh_CPUusageOldIdle ==
    /\ child[2] = "window"
    /\ \E a \in Advances :
          LET idle == (stat.idle + a.idle) % Word
              total == (stat.total + a.idle + a.busy) % Word
              total_diff == total - cpu.old_total
          IN  /\ stat' = [idle |-> idle, total |-> total]
              /\ cpu' = [cpu EXCEPT !.flag = TRUE, !.old_total = total,
                           !.usage = IF ~cpu.flag THEN 0
                                     ELSE (100 * (total_diff - (idle - cpu.old_idle))) \div total_diff]
              /\ wrapped' = (cpu.flag /\ (idle < stat.idle \/ total < stat.total))
    /\ UNCHANGED <<windows, counting>>

\* The counters are read into unsigned ints, the old ones kept as longs: the
\* sum of the counters wraps, the difference does not.
refresh_CPUusage ==
    /\ child[2] = "window"
    /\ \E a \in Advances :
          LET idle == (stat.idle + a.idle) % Word
              total == (stat.total + a.idle + a.busy) % Word
              total_diff == total - cpu.old_total
              idle_diff == idle - cpu.old_idle
              used == 100 * (total_diff - idle_diff)
          IN  /\ stat' = [idle |-> idle, total |-> total]
              /\ cpu' = [flag |-> TRUE, old_idle |-> idle, old_total |-> total,
                         usage |-> IF ~cpu.flag THEN 0
                                   ELSE IF total_diff > 0 THEN used \div total_diff
                                   ELSE (0 - used) \div (0 - total_diff)]
              /\ wrapped' = (cpu.flag /\ (idle < stat.idle \/ total < stat.total))
    /\ UNCHANGED <<windows, counting>>

-----------------------------------------------------------------------------
Init ==
    /\ parent = "fork1" /\ child = [i \in {1, 2} |-> "none"]
    /\ sum = 0 /\ now = 1
    /\ stat \in [idle : 0 .. Word - 1, total : 0 .. Word - 1]
    /\ cpu = [flag |-> FALSE, old_idle |-> 0, old_total |-> 0, usage |-> 0]
    /\ wrapped = FALSE

Parent ==
    \/ Fork(1, "fork2") \/ Fork(2, "window")
    \/ Wait(1, "wait2") \/ Wait(2, "gone")

Next ==
    \/ Parent \/ CloseParent
    \/ \E i \in {1, 2} : CloseChild(i)
    \/ refresh_sum \/ refresh_CPUusage

\* The parent goes on when it can; nobody has to close a window.
Spec == Init /\ [][Next]_vars /\ WF_vars(Parent)

-----------------------------------------------------------------------------
TypeOK ==
    /\ parent \in {"fork1", "fork2", "window", "wait1", "wait2", "gone", "failed"}
    /\ child \in [{1, 2} -> {"none", "window", "ended", "waited"}]
    /\ {now, sum} \subseteq Nat
    /\ stat \in [idle : 0 .. Word - 1, total : 0 .. Word - 1]
    /\ cpu.usage \in Int /\ wrapped \in BOOLEAN

\* The two statics belong together, over every restart: the sum is the one of
\* the numbers before now.
SumOfNumbers == 2 * sum = now * (now - 1)

\* "Show Add 1 to 100", says the window's title: what it shows last, before it
\* starts again, is the sum of the numbers up to 100.
AddsTo100 == [][sum' < sum => 2 * (sum + now) = 100 * 101]_counting

\* The parent is the last to go, unless a fork failed: nobody is left without a
\* window to end it, and no child is left that was not waited for.
ParentLast == parent = "gone" => \A i \in {1, 2} : child[i] = "waited"

\* A usage that was not computed across a wrap of the counters is one.
UsageBetweenWraps == ~wrapped => cpu.usage \in Percent

\* The three processes and what two of them count.
WindowsInv == TypeOK /\ SumOfNumbers /\ ParentLast /\ UsageBetweenWraps

\* When the user closes all three windows, in whichever order, everything ends.
AllEnd ==
    WF_vars(CloseParent) /\ WF_vars(CloseChild(1)) /\ WF_vars(CloseChild(2))
        => <>(parent \in {"gone", "failed"})
=============================================================================
