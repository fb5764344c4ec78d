-------------------------------- MODULE Usage --------------------------------
(***************************************************************************)
(* getrusage (kernel sys.c): the counters of a process are in three        *)
(* places - each live thread's own, what the threads that exited left in   *)
(* signal_struct, and what its reaped children did - and are added up one  *)
(* after the other, under siglock.  A thread counts for itself without any *)
(* lock; that exit and wait move counters under siglock is the rest of the *)
(* kernel's part.  One counter stands for those of a thread; the children  *)
(* have two, to tell a whole sample from a torn one.                       *)
(***************************************************************************)
EXTENDS Integers, FiniteSets

CONSTANTS
    Threads,
    Children,
    MaxCount,   \* bound: how far a thread counts
    MaxCalls,   \* bound: how many calls there are
    Nobody

\* What the constants must be.
UsageAssumption ==
    /\ Threads \cap Children = {} /\ Nobody \notin Threads \cup Children
    /\ IsFiniteSet(Threads) /\ IsFiniteSet(Children)
    /\ MaxCount \in Nat /\ MaxCalls \in Nat

VARIABLES
    count,      \* the counter of each thread
    alive,      \* the threads of the group
    gone,       \* signal->...: of those that exited
    cflt, cvcsw,  \* signal->cmin_flt and signal->cnvcsw
    unreaped,   \* the children still there
    siglock,    \* who holds it
    call,       \* the getrusage each thread is in
    calls       \* how many there were

vars == <<count, alive, gone, cflt, cvcsw, unreaped, siglock, call, calls>>

RUSAGE == {"self", "children", "both"}
\* low and most: what there was to count when the call began and when it had
\* read everything; kids: as many children were reaped; these the code never reads.
Idle == [pc |-> "idle", who |-> "self", left |-> {}, sum |-> 0, flt |-> 0, vcsw |-> 0,
         low |-> 0, kids |-> 0]
At(t, pc) == call[t].pc = pc
\* What the threads of S have counted, a pair for each time.
Counted(S) == {u \in S \X (1 .. MaxCount) : u[2] <= count[u[1]]}
Total == gone + Cardinality(Counted(alive))
Reaped == Cardinality(Children) - Cardinality(unreaped)

-----------------------------------------------------------------------------
\* Of the calling process; RUSAGE_THREAD, the caller's own counters, takes no lock
\* and reads nothing that another thread writes.
getrusage(t) ==
    /\ At(t, "idle") /\ t \in alive /\ calls < MaxCalls
    /\ \E who \in RUSAGE :
          call' = [call EXCEPT ![t] = [Idle EXCEPT !.pc = "lock", !.who = who,
                                                   !.low = Total, !.kids = Reaped]]
    /\ calls' = calls + 1
    /\ UNCHANGED <<count, alive, gone, cflt, cvcsw, unreaped, siglock>>

\* A slip: who reads its own process needs no lock.
LockNone(t) ==
    /\ At(t, "lock")
    /\ call' = [call EXCEPT ![t].pc = IF call[t].who = "self" THEN "group" ELSE "vcsw"]
    /\ UNCHANGED <<count, alive, gone, cflt, cvcsw, unreaped, siglock, calls>>

\* lock_task_sighand: the caller is in the process, so there is one.
Lock(t) ==
    /\ At(t, "lock") /\ siglock = Nobody
    /\ siglock' = t
    /\ call' = [call EXCEPT ![t].pc = IF call[t].who = "self" THEN "group" ELSE "vcsw"]
    /\ UNCHANGED <<count, alive, gone, cflt, cvcsw, unreaped, calls>>

\* The counters of the children, one by one.
ChildVcsw(t) ==
    /\ At(t, "vcsw")
    /\ call' = [call EXCEPT ![t].pc = "flt", ![t].vcsw = cvcsw]
    /\ UNCHANGED <<count, alive, gone, cflt, cvcsw, unreaped, siglock, calls>>
ChildFlt(t) ==
    /\ At(t, "flt")
    /\ call' = [call EXCEPT ![t].pc = IF call[t].who = "children" THEN "unlock" ELSE "group",
                            ![t].flt = cflt]
    /\ UNCHANGED <<count, alive, gone, cflt, cvcsw, unreaped, siglock, calls>>

\* A slip: the head of the list is taken for a thread.
GroupHead(t) ==
    /\ At(t, "group")
    /\ call' = [call EXCEPT ![t].pc = "threads", ![t].sum = gone, ![t].left = alive \cup {Nobody}]
    /\ UNCHANGED <<count, alive, gone, cflt, cvcsw, unreaped, siglock, calls>>

\* What the threads that exited left.
Group(t) ==
    /\ At(t, "group")
    /\ call' = [call EXCEPT ![t].pc = "threads", ![t].sum = gone, ![t].left = alive]
    /\ UNCHANGED <<count, alive, gone, cflt, cvcsw, unreaped, siglock, calls>>

\* accumulate_thread_rusage of one thread after the other, as they are listed.
Thread(t) ==
    /\ At(t, "threads")
    /\ IF call[t].left \cap alive = {}
       THEN call' = [call EXCEPT ![t].pc = "unlock"]
       ELSE \E u \in call[t].left \cap alive :
               call' = [call EXCEPT ![t].left = @ \ {u}, ![t].sum = @ + count[u]]
    /\ UNCHANGED <<count, alive, gone, cflt, cvcsw, unreaped, siglock, calls>>

Unlock(t) ==
    /\ At(t, "unlock") /\ siglock' = Nobody
    /\ call' = [call EXCEPT ![t].pc = "done"]
    /\ UNCHANGED <<count, alive, gone, cflt, cvcsw, unreaped, calls>>

Return(t) ==
    /\ At(t, "done")
    /\ call' = [call EXCEPT ![t] = Idle]
    /\ UNCHANGED <<count, alive, gone, cflt, cvcsw, unreaped, siglock, calls>>

-----------------------------------------------------------------------------
(* The rest of the kernel.                                                 *)

Works(t) ==
    /\ t \in alive /\ count[t] < MaxCount
    /\ count' = [count EXCEPT ![t] = @ + 1]
    /\ UNCHANGED <<alive, gone, cflt, cvcsw, unreaped, siglock, call, calls>>

\* __exit_signal.
Exit(t) ==
    /\ t \in alive /\ At(t, "idle") /\ siglock = Nobody
    /\ alive' = alive \ {t} /\ gone' = gone + count[t]
    /\ UNCHANGED <<count, cflt, cvcsw, unreaped, siglock, call, calls>>

\* wait takes siglock (reaper), adds the one counter and then the other.
ReapFirst(k) ==
    /\ k \in unreaped /\ siglock = Nobody /\ alive # {}
    /\ siglock' = k /\ cflt' = cflt + 1
    /\ UNCHANGED <<count, alive, gone, cvcsw, unreaped, call, calls>>
ReapSecond(k) ==
    /\ siglock = k
    /\ siglock' = Nobody /\ cvcsw' = cvcsw + 1 /\ unreaped' = unreaped \ {k}
    /\ UNCHANGED <<count, alive, gone, cflt, call, calls>>

Init ==
    /\ count = [t \in Threads |-> 0] /\ alive = Threads /\ gone = 0
    /\ cflt = 0 /\ cvcsw = 0 /\ unreaped = Children /\ siglock = Nobody
    /\ call = [t \in Threads |-> Idle] /\ calls = 0

Step(t) ==
    \/ Lock(t) \/ ChildVcsw(t) \/ ChildFlt(t) \/ Group(t) \/ Thread(t) \/ Unlock(t) \/ Return(t)

Next ==
    \/ \E t \in Threads : getrusage(t) \/ Step(t) \/ Works(t) \/ Exit(t)
    \/ \E k \in Children : ReapFirst(k) \/ ReapSecond(k)

\* A call goes on, and siglock, a ticket lock, comes to everybody who waits.
Spec ==
    /\ Init /\ [][Next]_vars
    /\ \A t \in Threads : WF_vars(Step(t)) /\ SF_vars(Lock(t))
    /\ \A k \in Children : WF_vars(ReapSecond(k))

-----------------------------------------------------------------------------
TypeOK ==
    /\ count \in [Threads -> 0 .. MaxCount] /\ alive \subseteq Threads /\ gone \in Nat
    /\ cflt \in Nat /\ cvcsw \in Nat /\ unreaped \subseteq Children
    /\ siglock \in Threads \cup Children \cup {Nobody} /\ calls \in 0 .. MaxCalls
    /\ \A t \in Threads : call[t].who \in RUSAGE /\ call[t].left \subseteq Threads

\* What is answered for the process is at least what it had used when the call
\* began and at most what it has by now: what a thread leaves behind on its exit
\* is neither lost nor counted twice, whenever it exits.
UsedOnce ==
    \A t \in Threads : At(t, "done") /\ call[t].who # "children" =>
        call[t].low <= call[t].sum /\ call[t].sum <= Total

\* "A sample either gets all the additions of a given child after it's reaped, or
\* none": of the children that were reaped before the call it has all.
ChildrenWhole ==
    \A t \in Threads : At(t, "done") /\ call[t].who # "self" =>
        call[t].flt = call[t].vcsw /\ call[t].kids <= call[t].vcsw

\* What siglock is for.
UsageInv == TypeOK /\ UsedOnce /\ ChildrenWhole

\* Whoever asks gets an answer, while others ask, exit and reap.
CallsEnd == \A t \in Threads : ~At(t, "idle") ~> At(t, "idle")
=============================================================================
