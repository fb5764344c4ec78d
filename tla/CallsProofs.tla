----------------------------- MODULE CallsProofs -----------------------------
(***************************************************************************)
(* The calls of sys.c, for any number of tasks: the resource limits, whose *)
(* promises rest on the task lock though the CPU timer is set after the    *)
(* lock was let go; the memory map and the priorities, under limits that   *)
(* are set meanwhile; the usage and the host's name.  Each part has its    *)
(* own inductive invariant, and keeps it through the steps of the others.  *)
(***************************************************************************)
EXTENDS KernelCalls, FiniteSetTheorems, WellFoundedInduction, NaturalsInduction, TLAPS

-----------------------------------------------------------------------------
(* The limits.                                                             *)

CallType == [pc : Inside \cup {"idle", "check"}, target : Procs \cup {Nobody},
             res : Resources \cup {"none"}, set : BOOLEAN, new : Limit, old : Limit]

\* Soft within hard, or the CPU limit of nothing that was made one second.
Fits(l, r) == l.cur <= l.max \/ (r = "CPU" /\ l.cur = 1 /\ l.max = 0)

\* What a call carries from step to step.
Carried(k) ==
    /\ k.pc # "idle" => k.target \in Procs /\ k.res \in Resources
    /\ k.pc \in {"compare", "write_cur", "write_max", "timer"} => k.set
    /\ k.set /\ k.pc \in {"lock", "compare"} => k.new.cur <= k.new.max
    /\ k.set /\ k.pc \in {"save_cur", "save_max", "write_cur", "write_max", "unlock"} =>
          Fits(k.new, k.res)
    /\ k.set /\ k.pc \in Inside /\ k.res = "NOFILE" => k.new.max <= NrOpen

\* What the holder k of c's lock knows of its limits: now is what they are,
\* was what they were when the lock was last let go.
Held(k, c, now, was) ==
    /\ k.pc \in {"compare", "save_cur", "save_max", "write_cur", "refuse"} => now = was
    /\ k.pc = "write_max" => now = [was EXCEPT ![k.res].cur = k.new.cur]
    /\ k.pc = "unlock" =>
          IF k.set THEN now = [was EXCEPT ![k.res] = k.new] ELSE now = was
    /\ k.set /\ k.pc \in {"save_cur", "save_max", "write_cur", "write_max", "unlock"} =>
          (k.new.max > was[k.res].max => c \in Capable)
    /\ k.pc = "save_max" => k.old.cur = was[k.res].cur
    /\ k.pc \in {"write_cur", "write_max", "unlock"} => k.old = was[k.res]

Calls == \A c \in Procs : Carried(call[c])
Holders ==
    \A c \in Procs : call[c].pc \in Critical =>
        Held(call[c], c, rlim[call[c].target], settled[call[c].target])
FreeSettled == \A p \in Procs : holder[p] = Nobody => rlim[p] = settled[p]

\* The call k is about to set the timer of p, or to come to it.
Due(k, p) ==
    k.target = p /\ k.res = "CPU" /\ k.set /\ k.pc \in {"write_max", "unlock", "timer"}
TimerComes ==
    "CPU" \in Resources =>
        \A p \in Procs :
            \/ timer[p] <= rlim[p]["CPU"].cur
            \/ \E c \in Procs : Due(call[c], p) /\ call[c].new.cur = rlim[p]["CPU"].cur

IInv == TypeOK /\ LockHeld /\ Calls /\ Holders /\ FreeSettled /\ SoftWithinHard
        /\ FilesBounded /\ TimerComes

-----------------------------------------------------------------------------
(* Lemmas.                                                                 *)

\* Two calls that hold a lock hold two locks.
LEMMA Apart ==
    ASSUME IInv, NEW c \in Procs, NEW d \in Procs, c # d,
           call[c].pc \in Critical, call[d].pc \in Critical
    PROVE  call[c].target # call[d].target /\ call[c].target \in Procs
                                           /\ call[d].target \in Procs
<1>1. call[c].target \in Procs /\ call[d].target \in Procs
  BY DEF IInv, Calls, Carried, Critical
<1>. QED BY <1>1 DEF IInv, LockHeld

\* A step of c that touches no lock and no limit keeps what the others know.
LEMMA QuietStep ==
    ASSUME IInv, NEW c \in Procs, NEW k \in CallType, call' = [call EXCEPT ![c] = k],
           UNCHANGED <<rlim, holder, alive, settled>>,
           Carried(k),
           k.pc \in Critical => /\ call[c].pc \in Critical
                                /\ k.target = call[c].target
                                /\ Held(k, c, rlim[k.target], settled[k.target]),
           call[c].pc \in Critical => k.pc \in Critical
    PROVE  /\ LockHeld' /\ Calls' /\ Holders' /\ FreeSettled' /\ SoftWithinHard'
           /\ FilesBounded' /\ alive' \subseteq Procs /\ call' \in [Procs -> CallType]
           /\ rlim' \in [Procs -> [Resources -> Limit]]
           /\ settled' \in [Procs -> [Resources -> Limit]]
           /\ holder' \in [Procs -> Procs \cup {Nobody}]
<1>1. call \in [Procs -> CallType] BY DEF IInv, TypeOK, CallType
<1>2. call'[c] = k /\ \A d \in Procs : d # c => call'[d] = call[d] BY <1>1
<1>3. call' \in [Procs -> CallType] BY <1>1
<1>4. Calls' BY <1>2 DEF IInv, Calls
<1>5. Holders' BY <1>2 DEF IInv, Holders
<1>6. LockHeld' BY <1>2 DEF IInv, LockHeld
<1>7. FreeSettled' BY DEF IInv, FreeSettled
<1>8. SoftWithinHard' BY DEF IInv, SoftWithinHard
<1>9. FilesBounded' BY DEF IInv, FilesBounded
<1>. QED BY <1>3, <1>4, <1>5, <1>6, <1>7, <1>8, <1>9 DEF IInv, TypeOK

\* Neither does the timer come too late, while limit and timer stay and a call
\* that is due stays due.
LEMMA TimerStays ==
    ASSUME IInv, NEW c \in Procs, NEW k \in CallType, call' = [call EXCEPT ![c] = k],
           UNCHANGED <<rlim, timer>>,
           \A p \in Procs : Due(call[c], p) =>
               (Due(k, p) /\ k.new.cur = call[c].new.cur) \/ timer[p] <= rlim[p]["CPU"].cur
    PROVE  TimerComes'
<1>1. call \in [Procs -> CallType] BY DEF IInv, TypeOK, CallType
<1>2. call'[c] = k /\ \A d \in Procs : d # c => call'[d] = call[d] BY <1>1
<1>3. ASSUME "CPU" \in Resources, NEW p \in Procs, ~(timer'[p] <= rlim'[p]["CPU"].cur)
      PROVE  \E d \in Procs : Due(call'[d], p) /\ call'[d].new.cur = rlim'[p]["CPU"].cur
  <2>1. PICK d \in Procs : Due(call[d], p) /\ call[d].new.cur = rlim[p]["CPU"].cur
    BY <1>3 DEF IInv, TimerComes
  <2>2. Due(call'[d], p) /\ call'[d].new.cur = call[d].new.cur
    BY <1>2, <1>3, <2>1
  <2>. QED BY <2>1, <2>2
<1>. QED BY <1>3 DEF TimerComes

\* A call returns: it carries nothing.
LEMMA IdleCarries == Idle \in CallType /\ Carried(Idle) /\ Idle.pc \notin Critical
<1>1. NoLimit \in Limit BY LimitsAssumption, SMT DEF NoLimit, Limit
<1>. QED BY <1>1 DEF Idle, CallType, Carried, Critical, Inside

-----------------------------------------------------------------------------
(* The invariant holds at first, and every step keeps it.                  *)

LEMMA InitOK == Init => IInv
<1>. SUFFICES ASSUME Init PROVE IInv OBVIOUS
<1>1. rlim \in [Procs -> [Resources -> Limit]] BY LimitsAssumption DEF Init
<1>2. Infinity \in 0 .. Infinity BY LimitsAssumption, SMT
<1>3. TypeOK BY <1>1, <1>2, IdleCarries DEF Init, TypeOK, CallType
<1>4. LockHeld BY LimitsAssumption, IdleCarries DEF Init, LockHeld
<1>5. Calls /\ Holders BY IdleCarries DEF Init, Calls, Holders
<1>6. FreeSettled BY DEF Init, FreeSettled
<1>7. SoftWithinHard
  <2>1. ASSUME NEW p \in Procs, NEW r \in Resources
        PROVE  settled[p][r].cur <= settled[p][r].max
    BY DEF Init
  <2>. QED BY <2>1 DEF SoftWithinHard
<1>8. FilesBounded BY DEF Init, FilesBounded
<1>9. TimerComes
  <2>1. ASSUME "CPU" \in Resources, NEW p \in Procs PROVE timer[p] <= rlim[p]["CPU"].cur
    <3>1. timer[p] = Infinity /\ rlim[p]["CPU"].cur = Infinity BY <2>1 DEF Init
    <3>. QED BY <3>1, LimitsAssumption, SMT
  <2>. QED BY <2>1 DEF TimerComes
<1>. QED BY <1>3, <1>4, <1>5, <1>6, <1>7, <1>8, <1>9 DEF IInv

LEMMA EnterKeeps == ASSUME IInv, NEW c \in Procs, Enter(c) PROVE IInv'
<1>1. PICK p \in Procs, r \in Resources, n \in Requests, set \in BOOLEAN :
        call' = [call EXCEPT ![c] = [Idle EXCEPT !.pc = "check", !.target = p, !.res = r,
                                       !.set = set, !.new = IF set THEN n ELSE NoLimit]]
  BY DEF Enter
<1>. DEFINE k == [Idle EXCEPT !.pc = "check", !.target = p, !.res = r,
                              !.set = set, !.new = IF set THEN n ELSE NoLimit]
<1>2. NoLimit \in Limit /\ n \in Limit BY LimitsAssumption, SMT DEF NoLimit, Limit
<1>3. k \in CallType /\ k.pc = "check" /\ k.target = p /\ k.res = r
  BY <1>2 DEF Idle, CallType
<1>4. call' = [call EXCEPT ![c] = k] BY <1>1
<1>5. call[c].pc = "idle" /\ UNCHANGED <<rlim, holder, alive, timer, settled>>
  BY DEF Enter, At
<1>. HIDE DEF k
<1>6. Carried(k) /\ k.pc \notin Critical BY <1>3 DEF Carried, Critical, Inside
<1>7. TimerComes' BY <1>3, <1>4, <1>5, TimerStays DEF Due
<1>8. call[c].pc \notin Critical BY <1>5 DEF Critical
<1>. QED BY <1>3, <1>4, <1>5, <1>6, <1>7, <1>8, QuietStep DEF IInv, TypeOK, CallType

LEMMA CheckKeeps == ASSUME IInv, NEW c \in Procs, Check(c) PROVE IInv'
<1>1. call[c].pc = "check" /\ UNCHANGED <<rlim, holder, alive, timer, settled>>
  BY DEF Check, At
<1>2. call \in [Procs -> CallType] /\ Carried(call[c])
  BY DEF IInv, TypeOK, CallType, Calls
<1>3. call[c].pc \notin Critical /\ \A p \in Procs : ~Due(call[c], p)
  BY <1>1 DEF Critical, Due
<1>4. CASE Refused(c)
  <2>1. call' = [call EXCEPT ![c] = Idle] BY <1>4 DEF Check, Return
  <2>2. TimerComes' BY <2>1, <1>1, <1>3, IdleCarries, TimerStays
  <2>. QED BY <2>1, <2>2, <1>1, <1>3, IdleCarries, QuietStep DEF IInv, TypeOK, CallType
<1>5. CASE ~Refused(c)
  <2>. DEFINE k == [call[c] EXCEPT !.pc = "lock"]
  <2>1. call' = [call EXCEPT ![c] = k] BY <1>2, <1>5 DEF Check, Go
  <2>2. k \in CallType /\ k.pc = "lock" /\ k.target = call[c].target /\ k.res = call[c].res
        /\ k.set = call[c].set /\ k.new = call[c].new
    BY <1>2 DEF CallType, Inside
  <2>3. call[c].set => /\ ~(call[c].new.cur > call[c].new.max)
                       /\ call[c].res = "NOFILE" => ~(call[c].new.max > NrOpen)
    BY <1>5 DEF Refused
  <2>4. /\ call[c].new.cur \in 0 .. Infinity /\ call[c].new.max \in 0 .. Infinity
        /\ NrOpen \in 0 .. Infinity - 1 /\ Infinity \in Nat
    BY <1>2, LimitsAssumption DEF CallType, Limit
  <2>5. call[c].set => /\ call[c].new.cur <= call[c].new.max
                       /\ call[c].res = "NOFILE" => call[c].new.max <= NrOpen
    BY <2>3, <2>4, SMT
  <2>. HIDE DEF k
  <2>6. Carried(k) BY <1>1, <1>2, <2>2, <2>5 DEF Carried
  <2>7. k.pc \notin Critical BY <2>2 DEF Critical
  <2>8. TimerComes' BY <2>1, <2>2, <1>1, <1>3, TimerStays
  <2>. QED BY <2>1, <2>2, <2>6, <2>7, <2>8, <1>1, <1>3, QuietStep DEF IInv, TypeOK, CallType
<1>. QED BY <1>4, <1>5

LEMMA CompareKeeps == ASSUME IInv, NEW c \in Procs, Compare(c) PROVE IInv'
<1>1. call[c].pc = "compare" /\ UNCHANGED <<rlim, holder, alive, timer, settled>>
  BY DEF Compare, At
<1>2. call \in [Procs -> CallType] /\ Carried(call[c])
  BY DEF IInv, TypeOK, CallType, Calls
<1>3. /\ call[c].pc \in Critical /\ call[c].set /\ call[c].target \in Procs
      /\ call[c].res \in Resources /\ call[c].new.cur <= call[c].new.max
      /\ call[c].res = "NOFILE" => call[c].new.max <= NrOpen
  BY <1>1, <1>2 DEF Carried, Critical, Inside
<1>4. rlim[call[c].target] = settled[call[c].target]
  BY <1>1, <1>3 DEF IInv, Holders, Held
<1>5. \A p \in Procs : ~Due(call[c], p) BY <1>1 DEF Due
<1>6. CASE Go(c, "refuse")
  <2>. DEFINE k == [call[c] EXCEPT !.pc = "refuse"]
  <2>1. call' = [call EXCEPT ![c] = k] BY <1>2, <1>6 DEF Go
  <2>2. k \in CallType /\ k.pc = "refuse" /\ k.target = call[c].target
        /\ k.res = call[c].res /\ k.set = call[c].set /\ k.new = call[c].new
    BY <1>2 DEF CallType, Inside, Critical
  <2>. HIDE DEF k
  <2>3. Carried(k) BY <1>3, <2>2 DEF Carried
  <2>4. Held(k, c, rlim[k.target], settled[k.target]) BY <1>4, <2>2 DEF Held
  <2>5. TimerComes' BY <2>1, <2>2, <1>1, <1>5, TimerStays
  <2>6. k.pc \in Critical BY <2>2 DEF Critical
  <2>. QED BY <2>1, <2>2, <2>3, <2>4, <2>5, <2>6, <1>1, <1>3, QuietStep
           DEF IInv, TypeOK, CallType
<1>7. CASE ~Go(c, "refuse")
  <2>. DEFINE n == IF call[c].res = "CPU" /\ call[c].new.cur = 0 THEN 1 ELSE call[c].new.cur
              k == [call[c] EXCEPT !.pc = "save_cur", !.new.cur = n]
  <2>1. call' = [call EXCEPT ![c].pc = "save_cur", ![c].new.cur = n]
        /\ (call[c].new.max > Its(c).max => c \in Capable)
    BY <1>7 DEF Compare
  <2>2. call' = [call EXCEPT ![c] = k] BY <2>1, <1>2
  <2>3. n \in 0 .. Infinity
    <3>1. call[c].new.cur \in 0 .. Infinity BY <1>2 DEF CallType, Limit
    <3>. QED BY <3>1, LimitsAssumption, SMT
  <2>. DEFINE m == [call[c].new EXCEPT !.cur = n]
  <2>4. m \in Limit /\ m.cur = n /\ m.max = call[c].new.max
    BY <1>2, <2>3 DEF CallType, Limit
  <2>5. k = [call[c] EXCEPT !.pc = "save_cur", !.new = m] BY <1>2 DEF CallType
  <2>. HIDE DEF k, m
  <2>6. k \in CallType /\ k.pc = "save_cur" /\ k.target = call[c].target
        /\ k.res = call[c].res /\ k.set = call[c].set /\ k.new = m
    BY <2>4, <2>5, <1>2 DEF CallType, Inside, Critical
  <2>7. Fits(m, call[c].res)
    <3>1. CASE call[c].res = "CPU" /\ call[c].new.cur = 0
      <4>1. n = 1 /\ call[c].new.max \in 0 .. Infinity BY <3>1, <1>2 DEF CallType, Limit
      <4>2. call[c].new.max = 0 \/ 1 <= call[c].new.max BY <4>1, LimitsAssumption, SMT
      <4>. QED BY <4>1, <4>2, <3>1, <2>4 DEF Fits
    <3>2. CASE ~(call[c].res = "CPU" /\ call[c].new.cur = 0)
      <4>1. n = call[c].new.cur BY <3>2
      <4>. QED BY <4>1, <2>4, <1>3 DEF Fits
    <3>. QED BY <3>1, <3>2
  <2>8. Carried(k) BY <1>3, <2>4, <2>6, <2>7 DEF Carried
  <2>9. Held(k, c, rlim[k.target], settled[k.target])
    BY <1>4, <2>1, <2>4, <2>6 DEF Held, Its
  <2>10. TimerComes' BY <2>2, <2>6, <1>1, <1>5, TimerStays
  <2>11. k.pc \in Critical BY <2>6 DEF Critical
  <2>. QED BY <2>2, <2>6, <2>8, <2>9, <2>10, <2>11, <1>1, <1>3, QuietStep
           DEF IInv, TypeOK, CallType
<1>. QED BY <1>6, <1>7

LEMMA SaveKeeps == ASSUME IInv, NEW c \in Procs, SaveCur(c) \/ SaveMax(c) PROVE IInv'
<1>1. call[c].pc \in {"save_cur", "save_max"}
      /\ UNCHANGED <<rlim, holder, alive, timer, settled>>
  BY DEF SaveCur, SaveMax, At
<1>2. call \in [Procs -> CallType] /\ Carried(call[c])
  BY DEF IInv, TypeOK, CallType, Calls
<1>3. call[c].pc \in Critical /\ call[c].target \in Procs /\ call[c].res \in Resources
  BY <1>1, <1>2 DEF Carried, Critical
<1>4. /\ rlim[call[c].target] = settled[call[c].target]
      /\ Held(call[c], c, rlim[call[c].target], settled[call[c].target])
  BY <1>1, <1>3 DEF IInv, Holders, Held
<1>5. \A p \in Procs : ~Due(call[c], p) BY <1>1 DEF Due
<1>6. Its(c) \in Limit /\ Its(c) = settled[call[c].target][call[c].res]
  BY <1>3, <1>4 DEF IInv, TypeOK, Its
<1>. DEFINE o == IF SaveCur(c) THEN [call[c].old EXCEPT !.cur = Its(c).cur]
                 ELSE [call[c].old EXCEPT !.max = Its(c).max]
            go == IF SaveCur(c) THEN "save_max" ELSE IF call[c].set THEN "write_cur" ELSE "unlock"
            k == [call[c] EXCEPT !.pc = go, !.old = o]
<1>7. call' = [call EXCEPT ![c] = k]
  <2>1. CASE SaveCur(c) BY <2>1, <1>2 DEF SaveCur, CallType
  <2>2. CASE ~SaveCur(c)
    <3>1. call' = [call EXCEPT ![c].pc = IF call[c].set THEN "write_cur" ELSE "unlock",
                               ![c].old.max = Its(c).max]
      BY <2>2 DEF SaveMax
    <3>2. call' = [call EXCEPT ![c] =
                     [call[c] EXCEPT !.pc = IF call[c].set THEN "write_cur" ELSE "unlock",
                                     !.old = [call[c].old EXCEPT !.max = Its(c).max]]]
      BY <3>1, <1>2 DEF CallType
    <3>. QED BY <2>2, <3>2
  <2>. QED BY <2>1, <2>2
<1>8. /\ SaveCur(c) => call[c].pc = "save_cur" /\ go = "save_max"
                       /\ o = [call[c].old EXCEPT !.cur = Its(c).cur]
      /\ ~SaveCur(c) => call[c].pc = "save_max" /\ o = [call[c].old EXCEPT !.max = Its(c).max]
                        /\ go = IF call[c].set THEN "write_cur" ELSE "unlock"
  BY DEF SaveCur, SaveMax, At
<1>9. call[c].old \in Limit BY <1>2 DEF CallType
<1>10. /\ o \in Limit
       /\ SaveCur(c) => o.cur = Its(c).cur
       /\ ~SaveCur(c) => o.cur = call[c].old.cur /\ o.max = Its(c).max
  BY <1>6, <1>8, <1>9 DEF Limit
<1>11. ~SaveCur(c) => o = Its(c)
  <2>1. ASSUME ~SaveCur(c) PROVE o.cur = Its(c).cur /\ o.max = Its(c).max
    BY <2>1, <1>4, <1>6, <1>8, <1>10 DEF Held
  <2>. QED BY <2>1, <1>6, <1>10 DEF Limit
<1>12. go \in {"save_max", "write_cur", "unlock"} BY <1>8
<1>. HIDE DEF o, go
<1>13. /\ k \in CallType /\ k.pc = go /\ k.target = call[c].target /\ k.res = call[c].res
       /\ k.set = call[c].set /\ k.new = call[c].new /\ k.old = o
  BY <1>2, <1>10, <1>12 DEF CallType, Inside, Critical
<1>. HIDE DEF k
<1>14. k.pc \in Critical /\ k.pc \in Inside BY <1>12, <1>13 DEF Critical, Inside
<1>15. Carried(k)
  BY <1>1, <1>2, <1>3, <1>8, <1>12, <1>13, <1>14 DEF Carried, Inside, Critical
<1>16. Held(k, c, rlim[k.target], settled[k.target])
  <2>1. k.pc \notin {"compare", "write_max", "refuse"} /\ (k.pc = "unlock" => ~k.set)
    BY <1>8, <1>12, <1>13
  <2>2. k.set => (k.new.max > settled[k.target][k.res].max => c \in Capable)
    BY <1>1, <1>4, <1>13 DEF Held
  <2>3. k.pc = "save_max" => k.old.cur = settled[k.target][k.res].cur
    BY <1>6, <1>8, <1>10, <1>13
  <2>4. k.pc \in {"write_cur", "unlock"} => k.old = settled[k.target][k.res]
    BY <1>6, <1>8, <1>11, <1>13
  <2>. QED BY <2>1, <2>2, <2>3, <2>4, <1>4, <1>13 DEF Held
<1>17. TimerComes' BY <1>1, <1>5, <1>7, <1>13, TimerStays
<1>. QED BY <1>1, <1>3, <1>7, <1>13, <1>14, <1>15, <1>16, <1>17, QuietStep
         DEF IInv, TypeOK, CallType

-----------------------------------------------------------------------------
(* The steps that take the lock, write, and let go.                        *)

LEMMA LockKeeps == ASSUME IInv, NEW c \in Procs, Lock(c) PROVE IInv'
<1>. DEFINE p == call[c].target
            k == [call[c] EXCEPT !.pc = IF call[c].set THEN "compare" ELSE "save_cur"]
<1>1. /\ call[c].pc = "lock" /\ UNCHANGED <<rlim, alive, timer, settled>>
      /\ holder[p] = Nobody /\ holder' = [holder EXCEPT ![p] = c]
  BY DEF Lock, At
<1>2. call \in [Procs -> CallType] /\ Carried(call[c])
  BY DEF IInv, TypeOK, CallType, Calls
<1>3. p \in Procs BY <1>1, <1>2 DEF Carried
<1>4. call' = [call EXCEPT ![c] = k] BY <1>2 DEF Lock, Go
<1>5. k \in CallType /\ k.pc = (IF call[c].set THEN "compare" ELSE "save_cur")
      /\ k.target = p /\ k.res = call[c].res /\ k.set = call[c].set /\ k.new = call[c].new
  BY <1>2 DEF CallType, Inside, Critical
<1>. HIDE DEF k
<1>6. call'[c] = k /\ \A d \in Procs : d # c => call'[d] = call[d] BY <1>2, <1>4
<1>7. k.pc \in Critical /\ call[c].pc \notin Critical
  BY <1>1, <1>5 DEF Critical
<1>8. rlim[p] = settled[p] BY <1>1, <1>3 DEF IInv, FreeSettled
<1>9. holder \in [Procs -> Procs \cup {Nobody}] BY DEF IInv, TypeOK
<1>10. TypeOK'
  <2>1. call' \in [Procs -> CallType] BY <1>2, <1>4, <1>5
  <2>2. holder' \in [Procs -> Procs \cup {Nobody}] BY <1>1, <1>9
  <2>. QED BY <1>1, <2>1, <2>2 DEF IInv, TypeOK, CallType
<1>11. LockHeld'
  <2>1. ASSUME NEW d \in Procs, NEW q \in Procs
        PROVE  holder'[q] = d <=> call'[d].target = q /\ call'[d].pc \in Critical
    <3>1. CASE q = p
      <4>1. holder'[q] = c BY <3>1, <1>1, <1>9
      <4>2. d # c => ~(call[d].target = p /\ call[d].pc \in Critical)
        BY <1>1, <1>3, LimitsAssumption DEF IInv, LockHeld
      <4>. QED BY <3>1, <4>1, <4>2, <1>5, <1>6, <1>7
    <3>2. CASE q # p
      <4>1. holder'[q] = holder[q] BY <3>2, <1>1, <1>9
      <4>. QED BY <3>2, <4>1, <1>5, <1>6, <1>7 DEF IInv, LockHeld
    <3>. QED BY <3>1, <3>2
  <2>. QED BY <2>1 DEF LockHeld
<1>12. Calls'
  <2>1. Carried(k) BY <1>1, <1>2, <1>3, <1>5 DEF Carried, Inside, Critical
  <2>. QED BY <2>1, <1>6 DEF IInv, Calls
<1>13. Holders'
  <2>1. Held(k, c, rlim[p], settled[p]) BY <1>5, <1>8 DEF Held
  <2>2. ASSUME NEW d \in Procs, d # c, call'[d].pc \in Critical
        PROVE  Held(call'[d], d, rlim'[call'[d].target], settled'[call'[d].target])
    BY <2>2, <1>1, <1>6 DEF IInv, Holders
  <2>. QED BY <2>1, <2>2, <1>1, <1>5, <1>6 DEF Holders
<1>14. FreeSettled'
  <2>1. ASSUME NEW q \in Procs, holder'[q] = Nobody PROVE holder[q] = Nobody
    BY <2>1, <1>1, <1>9, LimitsAssumption
  <2>. QED BY <2>1, <1>1 DEF IInv, FreeSettled
<1>15. SoftWithinHard' /\ FilesBounded'
  BY <1>1 DEF IInv, SoftWithinHard, FilesBounded
<1>16. TimerComes'
  <2>1. \A q \in Procs : ~Due(call[c], q) BY <1>1 DEF Due
  <2>. QED BY <2>1, <1>1, <1>4, <1>5, TimerStays
<1>. QED BY <1>10, <1>11, <1>12, <1>13, <1>14, <1>15, <1>16 DEF IInv

\* A holder that changes the limit it holds, and moves on within the lock.
LEMMA HolderWrites ==
    ASSUME IInv, NEW c \in Procs, NEW k \in CallType, NEW now \in [Resources -> Limit],
           call[c].pc \in Critical, k.pc \in Critical, k.target = call[c].target,
           call' = [call EXCEPT ![c] = k],
           rlim' = [rlim EXCEPT ![call[c].target] = now],
           UNCHANGED <<holder, alive, timer, settled>>,
           Carried(k), Held(k, c, now, settled[k.target])
    PROVE  /\ TypeOK' /\ LockHeld' /\ Calls' /\ Holders' /\ FreeSettled'
           /\ SoftWithinHard' /\ FilesBounded'
<1>. DEFINE p == call[c].target
<1>1. call \in [Procs -> CallType] /\ rlim \in [Procs -> [Resources -> Limit]]
  BY DEF IInv, TypeOK, CallType
<1>2. p \in Procs BY DEF IInv, Calls, Carried, Critical
<1>3. call'[c] = k /\ \A d \in Procs : d # c => call'[d] = call[d] BY <1>1
<1>4. rlim'[p] = now /\ \A q \in Procs : q # p => rlim'[q] = rlim[q] BY <1>1, <1>2
<1>5. TypeOK'
  <2>1. call' \in [Procs -> CallType] BY <1>1
  <2>2. rlim' \in [Procs -> [Resources -> Limit]] BY <1>1
  <2>. QED BY <2>1, <2>2 DEF IInv, TypeOK, CallType
<1>6. LockHeld' BY <1>3 DEF IInv, LockHeld
<1>7. Calls' BY <1>3 DEF IInv, Calls
<1>8. Holders'
  <2>1. ASSUME NEW d \in Procs, d # c, call'[d].pc \in Critical
        PROVE  Held(call'[d], d, rlim'[call'[d].target], settled'[call'[d].target])
    <3>1. call'[d] = call[d] BY <2>1, <1>3
    <3>2. call[d].target # p /\ call[d].target \in Procs BY <2>1, <3>1, Apart
    <3>. QED BY <2>1, <3>1, <3>2, <1>4 DEF IInv, Holders
  <2>2. Held(call'[c], c, rlim'[call'[c].target], settled'[call'[c].target])
    BY <1>3, <1>4
  <2>. QED BY <2>1, <2>2 DEF Holders
<1>9. FreeSettled'
  <2>1. holder[p] = c BY <1>2 DEF IInv, LockHeld
  <2>2. ASSUME NEW q \in Procs, holder'[q] = Nobody PROVE rlim'[q] = settled'[q]
    <3>1. q # p BY <2>1, <2>2, LimitsAssumption
    <3>. QED BY <2>2, <3>1, <1>4 DEF IInv, FreeSettled
  <2>. QED BY <2>2 DEF FreeSettled
<1>10. SoftWithinHard' /\ FilesBounded' BY DEF IInv, SoftWithinHard, FilesBounded
<1>. QED BY <1>5, <1>6, <1>7, <1>8, <1>9, <1>10

LEMMA WriteCurKeeps == ASSUME IInv, NEW c \in Procs, WriteCur(c) PROVE IInv'
<1>. DEFINE p == call[c].target
            r == call[c].res
            l == [rlim[p][r] EXCEPT !.cur = call[c].new.cur]
            now == [rlim[p] EXCEPT ![r] = l]
            k == [call[c] EXCEPT !.pc = "write_max"]
<1>1. call[c].pc = "write_cur" /\ UNCHANGED <<holder, alive, timer, settled>>
  BY DEF WriteCur, At
<1>2. /\ call \in [Procs -> CallType] /\ Carried(call[c])
      /\ rlim \in [Procs -> [Resources -> Limit]]
  BY DEF IInv, TypeOK, CallType, Calls
<1>3. call[c].pc \in Critical /\ p \in Procs /\ r \in Resources /\ call[c].set
  BY <1>1, <1>2 DEF Carried, Critical
<1>4. /\ rlim[p] = settled[p]
      /\ Held(call[c], c, rlim[p], settled[p])
  BY <1>1, <1>3 DEF IInv, Holders, Held
<1>5. rlim[p] \in [Resources -> Limit] /\ rlim[p][r] \in Limit /\ call[c].new \in Limit
  BY <1>2, <1>3 DEF CallType
<1>6. l \in Limit /\ l.cur = call[c].new.cur BY <1>5 DEF Limit
<1>7. now \in [Resources -> Limit] /\ now[r] = l BY <1>3, <1>5, <1>6
<1>8. rlim' = [rlim EXCEPT ![p] = now]
  <2>1. rlim' = [rlim EXCEPT ![p][r].cur = call[c].new.cur] BY DEF WriteCur
  <2>. QED BY <2>1
<1>9. call' = [call EXCEPT ![c] = k] BY <1>2 DEF WriteCur, Go
<1>10. k \in CallType /\ k.pc = "write_max" /\ k.target = p /\ k.res = r
       /\ k.set = call[c].set /\ k.new = call[c].new /\ k.old = call[c].old
  BY <1>2 DEF CallType, Inside, Critical
<1>11. now = [settled[p] EXCEPT ![r].cur = call[c].new.cur] BY <1>4
<1>. HIDE DEF k, l, now
<1>12. Carried(k) BY <1>1, <1>2, <1>3, <1>10 DEF Carried, Inside, Critical
<1>13. Held(k, c, now, settled[k.target])
  BY <1>1, <1>4, <1>10, <1>11 DEF Held
<1>14. k.pc \in Critical BY <1>10 DEF Critical
<1>15. TimerComes'
  <2>1. call'[c] = k /\ \A d \in Procs : d # c => call'[d] = call[d] BY <1>2, <1>9
  <2>2. ASSUME "CPU" \in Resources, NEW q \in Procs
        PROVE  \/ timer'[q] <= rlim'[q]["CPU"].cur
               \/ \E d \in Procs : Due(call'[d], q) /\ call'[d].new.cur = rlim'[q]["CPU"].cur
    <3>1. CASE q = p /\ r = "CPU"
      <4>1. rlim'[q]["CPU"].cur = call[c].new.cur BY <3>1, <1>2, <1>3, <1>6, <1>7, <1>8
      <4>2. Due(call'[c], q) /\ call'[c].new.cur = call[c].new.cur
        BY <3>1, <2>1, <1>3, <1>10 DEF Due
      <4>. QED BY <4>1, <4>2
    <3>2. CASE ~(q = p /\ r = "CPU")
      <4>1. rlim'[q]["CPU"] = rlim[q]["CPU"]
        BY <2>2, <3>2, <1>2, <1>3, <1>5, <1>8 DEF now
      <4>2. ASSUME NEW d \in Procs, Due(call[d], q) PROVE call'[d] = call[d]
        BY <4>2, <2>1, <1>1 DEF Due
      <4>. QED BY <2>2, <4>1, <4>2, <1>1 DEF IInv, TimerComes
    <3>. QED BY <3>1, <3>2
  <2>. QED BY <2>2 DEF TimerComes
<1>. QED BY <1>1, <1>3, <1>7, <1>8, <1>9, <1>10, <1>12, <1>13, <1>14, <1>15, HolderWrites
         DEF IInv

LEMMA WriteMaxKeeps == ASSUME IInv, NEW c \in Procs, WriteMax(c) PROVE IInv'
<1>. DEFINE p == call[c].target
            r == call[c].res
            l == [rlim[p][r] EXCEPT !.max = call[c].new.max]
            now == [rlim[p] EXCEPT ![r] = l]
            k == [call[c] EXCEPT !.pc = "unlock"]
<1>1. call[c].pc = "write_max" /\ UNCHANGED <<holder, alive, timer, settled>>
  BY DEF WriteMax, At
<1>2. /\ call \in [Procs -> CallType] /\ Carried(call[c])
      /\ rlim \in [Procs -> [Resources -> Limit]] /\ settled \in [Procs -> [Resources -> Limit]]
  BY DEF IInv, TypeOK, CallType, Calls
<1>3. call[c].pc \in Critical /\ p \in Procs /\ r \in Resources /\ call[c].set
  BY <1>1, <1>2 DEF Carried, Critical
<1>4. /\ rlim[p] = [settled[p] EXCEPT ![r].cur = call[c].new.cur]
      /\ Held(call[c], c, rlim[p], settled[p])
  BY <1>1, <1>3 DEF IInv, Holders, Held
<1>5. rlim[p] \in [Resources -> Limit] /\ rlim[p][r] \in Limit /\ call[c].new \in Limit
      /\ settled[p] \in [Resources -> Limit] /\ settled[p][r] \in Limit
  BY <1>2, <1>3 DEF CallType
<1>6. rlim[p][r].cur = call[c].new.cur
  <2>1. rlim[p][r] = [settled[p][r] EXCEPT !.cur = call[c].new.cur]
    BY <1>3, <1>4, <1>5
  <2>. QED BY <2>1, <1>5 DEF Limit
<1>7. l = call[c].new
  <2>1. l \in Limit /\ l.cur = call[c].new.cur /\ l.max = call[c].new.max
    BY <1>5, <1>6 DEF Limit
  <2>. QED BY <2>1, <1>5 DEF Limit
<1>8. now \in [Resources -> Limit] /\ now[r] = call[c].new BY <1>3, <1>5, <1>7
<1>9. now = [settled[p] EXCEPT ![r] = call[c].new] BY <1>3, <1>4, <1>5, <1>7
<1>10. rlim' = [rlim EXCEPT ![p] = now]
  <2>1. rlim' = [rlim EXCEPT ![p][r].max = call[c].new.max] BY DEF WriteMax
  <2>. QED BY <2>1
<1>11. call' = [call EXCEPT ![c] = k] BY <1>2 DEF WriteMax, Go
<1>12. k \in CallType /\ k.pc = "unlock" /\ k.target = p /\ k.res = r
       /\ k.set = call[c].set /\ k.new = call[c].new /\ k.old = call[c].old
  BY <1>2 DEF CallType, Inside, Critical
<1>13. \A q \in Procs : "CPU" \in Resources => rlim'[q]["CPU"].cur = rlim[q]["CPU"].cur
  BY <1>2, <1>3, <1>5, <1>6, <1>8, <1>10
<1>. HIDE DEF k, l, now
<1>14. Carried(k) BY <1>1, <1>2, <1>3, <1>12 DEF Carried, Inside, Critical
<1>15. Held(k, c, now, settled[k.target])
  BY <1>1, <1>3, <1>4, <1>9, <1>12 DEF Held
<1>16. k.pc \in Critical BY <1>12 DEF Critical
<1>17. TimerComes'
  <2>1. call'[c] = k /\ \A d \in Procs : d # c => call'[d] = call[d] BY <1>2, <1>11
  <2>2. \A d, q \in Procs : Due(call[d], q) =>
            Due(call'[d], q) /\ call'[d].new.cur = call[d].new.cur
    BY <2>1, <1>12 DEF Due
  <2>. QED BY <2>2, <1>1, <1>13 DEF IInv, TimerComes
<1>. QED BY <1>1, <1>3, <1>8, <1>10, <1>11, <1>12, <1>14, <1>15, <1>16, <1>17, HolderWrites
         DEF IInv

\* A holder lets go: what the others find is sound again.
LEMMA HolderLeaves ==
    ASSUME IInv, NEW c \in Procs, NEW k \in CallType,
           call[c].pc \in {"unlock", "refuse"}, k.pc \notin Critical, Carried(k),
           call' = [call EXCEPT ![c] = k], Release(c),
           UNCHANGED <<rlim, alive, timer>>
    PROVE  /\ TypeOK' /\ LockHeld' /\ Calls' /\ Holders' /\ FreeSettled'
           /\ SoftWithinHard' /\ FilesBounded'
<1>. DEFINE p == call[c].target
            r == call[c].res
            n == call[c].new
<1>1. /\ call \in [Procs -> CallType] /\ rlim \in [Procs -> [Resources -> Limit]]
      /\ settled \in [Procs -> [Resources -> Limit]]
      /\ holder \in [Procs -> Procs \cup {Nobody}]
  BY DEF IInv, TypeOK, CallType
<1>2. call[c].pc \in Critical /\ Carried(call[c]) BY DEF IInv, Calls, Critical
<1>3. p \in Procs /\ r \in Resources /\ holder[p] = c
  BY <1>2 DEF Carried, Critical, IInv, LockHeld
<1>4. call'[c] = k /\ \A d \in Procs : d # c => call'[d] = call[d] BY <1>1
<1>5. /\ holder'[p] = Nobody /\ settled'[p] = rlim[p]
      /\ \A q \in Procs : q # p => holder'[q] = holder[q] /\ settled'[q] = settled[q]
  BY <1>1, <1>3 DEF Release
<1>6. Held(call[c], c, rlim[p], settled[p]) BY <1>2 DEF IInv, Holders
<1>7. \/ rlim[p] = settled[p]
      \/ call[c].pc = "unlock" /\ call[c].set /\ rlim[p] = [settled[p] EXCEPT ![r] = n]
  BY <1>6 DEF Held
<1>8. TypeOK'
  <2>1. call' \in [Procs -> CallType] BY <1>1
  <2>2. holder' \in [Procs -> Procs \cup {Nobody}] BY <1>1 DEF Release
  <2>3. settled' \in [Procs -> [Resources -> Limit]] BY <1>1, <1>3 DEF Release
  <2>. QED BY <2>1, <2>2, <2>3 DEF IInv, TypeOK, CallType
<1>9. LockHeld'
  <2>1. ASSUME NEW d \in Procs, NEW q \in Procs
        PROVE  holder'[q] = d <=> call'[d].target = q /\ call'[d].pc \in Critical
    <3>1. CASE q = p
      <4>1. holder'[q] # d BY <3>1, <1>5, LimitsAssumption
      <4>2. d # c => ~(call[d].target = p /\ call[d].pc \in Critical) BY <1>2, Apart
      <4>. QED BY <3>1, <4>1, <4>2, <1>4
    <3>2. CASE q # p
      <4>1. holder[q] = c <=> call[c].target = q /\ call[c].pc \in Critical
        BY DEF IInv, LockHeld
      <4>. QED BY <3>2, <4>1, <1>4, <1>5 DEF IInv, LockHeld
    <3>. QED BY <3>1, <3>2
  <2>. QED BY <2>1 DEF LockHeld
<1>10. Calls' BY <1>4 DEF IInv, Calls
<1>11. Holders'
  <2>1. ASSUME NEW d \in Procs, call'[d].pc \in Critical
        PROVE  Held(call'[d], d, rlim'[call'[d].target], settled'[call'[d].target])
    <3>1. d # c /\ call'[d] = call[d] BY <2>1, <1>4
    <3>2. call[d].target # p /\ call[d].target \in Procs BY <2>1, <3>1, <1>2, Apart
    <3>. QED BY <2>1, <3>1, <3>2, <1>5 DEF IInv, Holders
  <2>. QED BY <2>1 DEF Holders
<1>12. FreeSettled' BY <1>5 DEF IInv, FreeSettled
<1>13. SoftWithinHard'
  <2>1. ASSUME NEW q \in Procs, NEW x \in Resources PROVE Fits(settled'[q][x], x)
    <3>1. \A y \in Procs : Fits(settled[y][x], x) BY DEF IInv, SoftWithinHard, Fits
    <3>2. CASE q # p \/ rlim[p] = settled[p]
      <4>1. settled'[q] = settled[q] BY <3>2, <1>5
      <4>. QED BY <3>1, <4>1
    <3>3. CASE q = p /\ rlim[p] # settled[p]
      <4>1. /\ settled'[q] = [settled[p] EXCEPT ![r] = n] /\ Fits(n, r)
        BY <3>3, <1>2, <1>5, <1>7 DEF Carried
      <4>2. settled'[q][x] = IF x = r THEN n ELSE settled[p][x]
        BY <4>1, <1>1, <1>3
      <4>. QED BY <4>1, <4>2, <3>1, <1>3
    <3>. QED BY <3>2, <3>3
  <2>. QED BY <2>1 DEF SoftWithinHard, Fits
<1>14. FilesBounded'
  <2>1. ASSUME NEW q \in Procs, "NOFILE" \in Resources
        PROVE  settled'[q]["NOFILE"].max <= NrOpen
    <3>1. \A y \in Procs : settled[y]["NOFILE"].max <= NrOpen
      BY <2>1 DEF IInv, FilesBounded
    <3>2. CASE q # p \/ rlim[p] = settled[p]
      <4>1. settled'[q] = settled[q] BY <3>2, <1>5
      <4>. QED BY <3>1, <4>1
    <3>3. CASE q = p /\ rlim[p] # settled[p]
      <4>1. /\ settled'[q] = [settled[p] EXCEPT ![r] = n]
            /\ r = "NOFILE" => n.max <= NrOpen
        BY <3>3, <1>2, <1>5, <1>7 DEF Carried, Inside, Critical
      <4>2. settled'[q]["NOFILE"] = IF "NOFILE" = r THEN n ELSE settled[p]["NOFILE"]
        BY <2>1, <4>1, <1>1, <1>3
      <4>. QED BY <4>1, <4>2, <3>1, <1>3
    <3>. QED BY <3>2, <3>3
  <2>. QED BY <2>1 DEF FilesBounded
<1>. QED BY <1>8, <1>9, <1>10, <1>11, <1>12, <1>13, <1>14

LEMMA UnlockKeeps == ASSUME IInv, NEW c \in Procs, Unlock(c) PROVE IInv'
<1>. DEFINE p == call[c].target
            sets == call[c].set /\ call[c].res = "CPU" /\ call[c].new.cur # Infinity
            k == IF sets THEN [call[c] EXCEPT !.pc = "timer"] ELSE Idle
<1>1. call[c].pc = "unlock" /\ Release(c) /\ UNCHANGED <<rlim, alive, timer>>
  BY DEF Unlock, At
<1>2. call \in [Procs -> CallType] /\ Carried(call[c])
  BY DEF IInv, TypeOK, CallType, Calls
<1>3. call[c].pc \in Critical /\ p \in Procs /\ call[c].res \in Resources
  BY <1>1, <1>2 DEF Carried, Critical
<1>4. call' = [call EXCEPT ![c] = k] BY <1>2 DEF Unlock, Go, Return
<1>5. /\ sets => k \in CallType /\ k.pc = "timer" /\ k.target = p /\ k.res = call[c].res
                 /\ k.set /\ k.new = call[c].new
      /\ ~sets => k = Idle
  BY <1>2 DEF CallType, Inside
<1>. HIDE DEF k
<1>6. k \in CallType /\ k.pc \notin Critical BY <1>5, IdleCarries DEF Critical
<1>7. Carried(k)
  <2>1. CASE sets BY <2>1, <1>1, <1>3, <1>5 DEF Carried
  <2>2. CASE ~sets BY <2>2, <1>5, IdleCarries
  <2>. QED BY <2>1, <2>2
<1>8. TimerComes'
  <2>1. ASSUME NEW q \in Procs, Due(call[c], q)
        PROVE  (Due(k, q) /\ k.new.cur = call[c].new.cur) \/ timer[q] <= rlim[q]["CPU"].cur
    <3>1. CASE sets BY <2>1, <3>1, <1>5 DEF Due
    <3>2. CASE ~sets
      <4>1. q = p /\ call[c].set /\ call[c].res = "CPU" /\ call[c].new.cur = Infinity
        BY <2>1, <3>2 DEF Due
      <4>2. rlim[p] = [settled[p] EXCEPT !["CPU"] = call[c].new]
        BY <4>1, <1>1, <1>3 DEF IInv, Holders, Held
      <4>3. settled[p] \in [Resources -> Limit] BY <1>3 DEF IInv, TypeOK
      <4>4. rlim[p]["CPU"].cur = Infinity BY <4>1, <4>2, <4>3, <1>3
      <4>5. timer[q] \in 0 .. Infinity BY DEF IInv, TypeOK
      <4>. QED BY <4>1, <4>4, <4>5, LimitsAssumption, SMT
    <3>. QED BY <3>1, <3>2
  <2>. QED BY <2>1, <1>1, <1>4, <1>6, TimerStays
<1>. QED BY <1>1, <1>4, <1>6, <1>7, <1>8, HolderLeaves DEF IInv

LEMMA RefuseKeeps == ASSUME IInv, NEW c \in Procs, Refuse(c) PROVE IInv'
<1>1. /\ call[c].pc = "refuse" /\ Release(c) /\ UNCHANGED <<rlim, alive, timer>>
      /\ call' = [call EXCEPT ![c] = Idle]
  BY DEF Refuse, At, Return
<1>2. \A p \in Procs : ~Due(call[c], p) BY <1>1 DEF Due
<1>3. TimerComes' BY <1>1, <1>2, IdleCarries, TimerStays
<1>. QED BY <1>1, <1>3, IdleCarries, HolderLeaves DEF IInv

LEMMA UpdateTimerKeeps == ASSUME IInv, NEW c \in Procs, UpdateTimer(c) PROVE IInv'
<1>. DEFINE p == call[c].target
            n == call[c].new.cur
            t == IF n < timer[p] THEN n ELSE timer[p]
<1>1. /\ call[c].pc = "timer" /\ UNCHANGED <<rlim, holder, alive, settled>>
      /\ call' = [call EXCEPT ![c] = Idle] /\ timer' = [timer EXCEPT ![p] = t]
  BY DEF UpdateTimer, At, Return
<1>2. call \in [Procs -> CallType] /\ Carried(call[c]) /\ timer \in [Procs -> 0 .. Infinity]
  BY DEF IInv, TypeOK, CallType, Calls
<1>3. p \in Procs /\ call[c].pc \notin Critical
  BY <1>1, <1>2 DEF Carried, Critical
<1>4. n \in 0 .. Infinity /\ timer[p] \in 0 .. Infinity /\ Infinity \in Nat
  BY <1>2, <1>3, LimitsAssumption DEF CallType, Limit
<1>5. t \in 0 .. Infinity /\ t <= n /\ t <= timer[p] BY <1>4, SMT
<1>. HIDE DEF t
<1>6. timer' \in [Procs -> 0 .. Infinity] BY <1>1, <1>2, <1>5
<1>7. TimerComes'
  <2>1. call'[c] = Idle /\ \A d \in Procs : d # c => call'[d] = call[d] BY <1>1, <1>2
  <2>2. ASSUME "CPU" \in Resources, NEW q \in Procs
        PROVE  \/ timer'[q] <= rlim'[q]["CPU"].cur
               \/ \E d \in Procs : Due(call'[d], q) /\ call'[d].new.cur = rlim'[q]["CPU"].cur
    <3>1. rlim[q]["CPU"].cur \in 0 .. Infinity /\ timer[q] \in 0 .. Infinity
      BY <2>2, <1>2 DEF IInv, TypeOK, Limit
    <3>2. timer'[q] = (IF q = p THEN t ELSE timer[q]) /\ timer'[q] \in 0 .. Infinity
      BY <1>1, <1>2, <1>6
    <3>3. CASE timer[q] <= rlim[q]["CPU"].cur
      <4>1. timer'[q] <= timer[q] BY <3>1, <3>2, <1>4, <1>5, SMT
      <4>2. timer'[q] <= rlim[q]["CPU"].cur BY <3>1, <3>2, <3>3, <4>1, SMT
      <4>. QED BY <4>2, <1>1
    <3>4. CASE ~(timer[q] <= rlim[q]["CPU"].cur)
      <4>1. PICK d \in Procs : Due(call[d], q) /\ call[d].new.cur = rlim[q]["CPU"].cur
        BY <2>2, <3>4 DEF IInv, TimerComes
      <4>2. CASE d = c
        <5>1. q = p /\ n = rlim[q]["CPU"].cur BY <4>1, <4>2 DEF Due
        <5>. QED BY <5>1, <3>2, <1>1, <1>5
      <4>3. CASE d # c
        <5>1. call'[d] = call[d] BY <4>3, <2>1
        <5>. QED BY <4>1, <5>1, <1>1
      <4>. QED BY <4>2, <4>3
    <3>. QED BY <3>3, <3>4
  <2>. QED BY <2>2 DEF TimerComes
<1>. QED BY <1>1, <1>3, <1>6, <1>7, IdleCarries, QuietStep DEF IInv, TypeOK, CallType

LEMMA ExitKeeps == ASSUME IInv, NEW p \in Procs, Exit(p) PROVE IInv'
<1>1. UNCHANGED <<rlim, holder, call, timer, settled>> /\ alive' \subseteq Procs
  BY DEF Exit, IInv, TypeOK
<1>. QED BY <1>1 DEF IInv, TypeOK, LockHeld, Calls, Holders, FreeSettled, SoftWithinHard,
                     FilesBounded, TimerComes

LEMMA StepOK == IInv /\ [Next]_vars => IInv'
<1>. SUFFICES ASSUME IInv, [Next]_vars PROVE IInv' OBVIOUS
<1>1. CASE UNCHANGED vars
  BY <1>1 DEF vars, IInv, TypeOK, LockHeld, Calls, Holders, FreeSettled, SoftWithinHard,
              FilesBounded, TimerComes
<1>2. ASSUME NEW c \in Procs, Enter(c) \/ Step(c) \/ Exit(c) PROVE IInv'
  BY <1>2, EnterKeeps, CheckKeeps, LockKeeps, CompareKeeps, SaveKeeps, WriteCurKeeps,
     WriteMaxKeeps, UnlockKeeps, RefuseKeeps, UpdateTimerKeeps, ExitKeeps DEF Step
<1>. QED BY <1>1, <1>2 DEF Next

-----------------------------------------------------------------------------
(* The theorems.                                                           *)

\* A step of one part is a step of its own, or none, to each other: a new limit
\* of do_prlimit is one of SetLimit and SetLimits.
LEMMA EachPart == CallsSpec =>
    /\ Init /\ [][Next]_vars
    /\ Memory!Init /\ [][Memory!Next]_(Memory!vars)
    /\ Prio!Init /\ [][Prio!Next]_(Prio!vars)
    /\ Rusage!Init /\ [][Rusage!Next]_(Rusage!vars)
    /\ Uts!Init /\ [][Uts!Next]_(Uts!vars)
<1>1. CallsInit => Init /\ Memory!Init /\ Prio!Init /\ Rusage!Init /\ Uts!Init
  BY DEF CallsInit
<1>2. ASSUME [CallsNext]_callvars
      PROVE  /\ [Next]_vars /\ [Memory!Next]_(Memory!vars) /\ [Prio!Next]_(Prio!vars)
             /\ [Rusage!Next]_(Rusage!vars) /\ [Uts!Next]_(Uts!vars)
  <2>1. /\ UNCHANGED vars => UNCHANGED DataLimit /\ UNCHANGED NiceLimits
        /\ UNCHANGED vars /\ UNCHANGED memoryvars => UNCHANGED Memory!vars
        /\ UNCHANGED vars /\ UNCHANGED priovars => UNCHANGED Prio!vars
        /\ UNCHANGED usagevars => UNCHANGED Rusage!vars
        /\ UNCHANGED namevars => UNCHANGED Uts!vars
    <3>1. UNCHANGED vars => UNCHANGED DataLimit /\ UNCHANGED NiceLimits
      BY DEF vars, DataLimit, NiceLimits
    <3>2. UNCHANGED vars /\ UNCHANGED memoryvars => UNCHANGED Memory!vars
      BY <3>1 DEF memoryvars, Memory!vars, Memory!limits
    <3>3. UNCHANGED vars /\ UNCHANGED priovars => UNCHANGED Prio!vars
      BY <3>1 DEF priovars, Prio!vars, Prio!limits, Prio!ids
    <3>. QED BY <3>1, <3>2, <3>3 DEF usagevars, Rusage!vars, namevars, Uts!vars
  <2>2. CASE UNCHANGED callvars BY <2>1, <2>2 DEF callvars
  <2>3. CASE AsLimits(Next) BY <2>1, <2>3 DEF AsLimits, Memory!Next, Prio!Next
  <2>4. CASE AsMemory(Memory!Calls) BY <2>1, <2>4 DEF AsMemory, Memory!Next
  <2>5. CASE AsPrio(Prio!Calls) BY <2>1, <2>5 DEF AsPrio, Prio!Next
  <2>6. CASE AsUsage(Rusage!Next) BY <2>1, <2>6 DEF AsUsage
  <2>7. CASE AsName(Uts!Next) BY <2>1, <2>7 DEF AsName
  <2>. QED BY <1>2, <2>2, <2>3, <2>4, <2>5, <2>6, <2>7 DEF CallsNext
<1>. QED BY <1>1, <1>2, PTL DEF CallsSpec

LEMMA Invariant == CallsSpec => []IInv
BY EachPart, InitOK, StepOK, PTL

\* Limits, calls and timers keep their types: no limit beyond the largest.
THEOREM TypeCorrect == CallsSpec => []TypeOK
<1>1. IInv => TypeOK BY DEF IInv
<1>. QED BY <1>1, Invariant, PTL

\* On every path through do_prlimit, errors included, a task lock is held by
\* exactly the call that took it and has not let go of it.
THEOREM LocksHeld == CallsSpec => []LockHeld
<1>1. IInv => LockHeld BY DEF IInv
<1>. QED BY <1>1, Invariant, PTL

\* The old limit that prlimit64 returns is the one its new limit replaced, both
\* words of it.
THEOREM OldIsReplaced == CallsSpec => []Replaces
<1>1. IInv => Replaces
  <2>1. ASSUME IInv, NEW c \in Procs, At(c, "unlock")
        PROVE  call[c].old = settled[call[c].target][call[c].res]
    <3>1. call[c].pc = "unlock" /\ call[c].pc \in Critical BY <2>1 DEF At, Critical
    <3>. QED BY <2>1, <3>1 DEF IInv, Holders, Held
  <2>. QED BY <2>1 DEF Replaces
<1>. QED BY <1>1, Invariant, PTL

\* Whoever takes the lock finds a soft limit within the hard one, but for the
\* CPU limit of nothing.
THEOREM SoftStaysWithin == CallsSpec => []SoftWithinHard
<1>1. IInv => SoftWithinHard BY DEF IInv
<1>. QED BY <1>1, Invariant, PTL

\* No limit of open files exceeds what the kernel has.
THEOREM FilesStayBounded == CallsSpec => []FilesBounded
<1>1. IInv => FilesBounded BY DEF IInv
<1>. QED BY <1>1, Invariant, PTL

\* The timer is set outside the lock and in any order, and is still never later
\* than the limit once the setters are through.
THEOREM TimerInTime == CallsSpec => []TimerNotLate
<1>1. IInv => TimerNotLate
  BY DEF IInv, TimerComes, TimerNotLate, Due
<1>. QED BY <1>1, Invariant, PTL

\* All that the task lock is for.
THEOREM LimitsKept == CallsSpec => []LimitsInv
BY TypeCorrect, LocksHeld, OldIsReplaced, SoftStaysWithin, FilesStayBounded, TimerInTime, PTL
   DEF LimitsInv

\* A hard limit rises only by a call of a process with CAP_SYS_RESOURCE.
THEOREM HardLimitsFall == CallsSpec => HardFalls
<1>1. IInv /\ [Next]_vars =>
        [\A p \in Procs, r \in Resources :
            settled'[p][r].max > settled[p][r].max =>
                \E c \in Capable : At(c, "unlock") /\ call[c].target = p]_vars
  <2>. SUFFICES ASSUME IInv, [Next]_vars, NEW p \in Procs, NEW r \in Resources,
                       settled'[p][r].max > settled[p][r].max
                PROVE  \E c \in Capable : At(c, "unlock") /\ call[c].target = p
    OBVIOUS
  <2>0. settled[p][r].max \in 0 .. Infinity /\ Infinity \in Nat
    BY LimitsAssumption DEF IInv, TypeOK, Limit
  <2>1. settled'[p] # settled[p]
    <3>1. ~(settled[p][r].max > settled[p][r].max) BY <2>0, SMT
    <3>. QED BY <3>1
  <2>2. PICK c \in Procs : Unlock(c) \/ Refuse(c)
    BY <2>1 DEF Next, Step, Enter, Check, Lock, Compare, SaveCur, SaveMax, WriteCur, WriteMax,
                UpdateTimer, Exit, vars
  <2>3. settled' = [settled EXCEPT ![call[c].target] = rlim[call[c].target]]
    BY <2>2 DEF Unlock, Refuse, Release
  <2>4. settled \in [Procs -> [Resources -> Limit]] BY DEF IInv, TypeOK
  <2>5. call[c].target = p /\ settled'[p] = rlim[p]
    BY <2>1, <2>3, <2>4
  <2>6. call[c].pc \in {"unlock", "refuse"} /\ call[c].pc \in Critical
    BY <2>2 DEF Unlock, Refuse, At, Critical
  <2>7. Held(call[c], c, rlim[p], settled[p]) BY <2>5, <2>6 DEF IInv, Holders
  <2>8. call[c].pc = "unlock" /\ call[c].set
        /\ rlim[p] = [settled[p] EXCEPT ![call[c].res] = call[c].new]
    BY <2>1, <2>5, <2>6, <2>7 DEF Held
  <2>9. r = call[c].res /\ settled'[p][r] = call[c].new
    <3>1. settled[p] \in [Resources -> Limit] BY <2>4
    <3>2. r # call[c].res => settled'[p][r] = settled[p][r] BY <2>5, <2>8, <3>1
    <3>3. ~(settled[p][r].max > settled[p][r].max) BY <2>0, SMT
    <3>. QED BY <2>5, <2>8, <3>1, <3>2, <3>3
  <2>10. c \in Capable BY <2>7, <2>8, <2>9 DEF Held
  <2>. QED BY <2>5, <2>8, <2>10 DEF At
<1>. QED BY <1>1, Invariant, EachPart, PTL DEF HardFalls

-----------------------------------------------------------------------------
(* The memory map.                                                         *)

\* One hold of x, or of a member of S, counted for f.
Is(x, f) == IF x = f THEN 1 ELSE 0
Within(f, S) == IF f \in S THEN 1 ELSE 0

MapPcs == {"idle", "copy", "check", "scan", "exchange", "lock", "store"}
SomeFile == Files \cup {NoFile}
Vector == [Memory!Pairs -> Nat]
MapCall == [pc : MapPcs, map : Memory!Map, sets : BOOLEAN, vec : Vector \cup {Memory!NoVector},
            next : Nat, len : Nat, new : SomeFile, old : SomeFile]
Counts == [Files -> Int]

MapTyped ==
    /\ map \in Memory!Map /\ auxv \in Vector /\ exe \in Files
    /\ mapped \in SUBSET Files /\ fds \in SUBSET Files
    /\ refs \in Counts /\ sem \in Threads \cup {Nobody}
    /\ mcall \in [Threads -> MapCall]
    /\ DataLimit \in Nat /\ peak \in Nat /\ DataLimit <= peak

\* What holds of a call at every place: its map was found in order, and within a
\* limit that was no higher than any there has been since; its vector ends,
\* and the files it holds are those it has still to give back.
MapCarried(k) ==
    /\ Memory!Allowed(k.map, peak)
    /\ k.len <= AuxWords /\ 1 <= k.next /\ k.next <= k.len + 1
    /\ k.len > 0 => k.vec \in Vector /\ k.vec[AuxWords] = 0
    /\ k.new \in Files <=> k.pc \in {"check", "scan", "exchange"}
    /\ k.old \in Files <=> k.pc = "scan"

\* The calls m that hold f as the new file, and as the old one.
NewOf(f, m) == Cardinality({t \in Threads : m[t].new = f})
OldOf(f, m) == Cardinality({t \in Threads : m[t].old = f})
HeldBy(f, fd, ma, ex, m) == Within(f, fd) + Within(f, ma) + Is(ex, f) + NewOf(f, m) + OldOf(f, m)

MapOf == /\ MapTyped /\ Memory!Allowed(map, peak) /\ auxv[AuxWords] = 0
         /\ \A t \in Threads : MapCarried(mcall[t])
         /\ \A f \in Files : refs[f] = HeldBy(f, fds, mapped, exe, mcall)

LEMMA MapFacts ==
    /\ NoFile \notin Files /\ Nobody \notin Threads /\ IsFiniteSet(Threads)
    /\ MinAddr \in Nat /\ TaskSize \in Nat /\ Infinity \in Nat /\ AuxWords \in Nat \ {0}
    /\ AuxWords \in Memory!Pairs /\ Options \subseteq Memory!Fields
    /\ FirstMap \in Memory!Map /\ Memory!Ordered(FirstMap)
    /\ \A r \in MapRequests : r.map \in Memory!Map /\ r.exe \in SomeFile
                              /\ r.auxv \in Vectors \cup {Memory!NoVector}
    /\ Vectors \subseteq Vector
    /\ \A S : Memory!Cardinality(S) = Cardinality(S)
  <1>1. \A S : Memory!IsFiniteSet(S) <=> IsFiniteSet(S)
    BY DEF Memory!IsFiniteSet, IsFiniteSet
  <1>2. \A S : Memory!Cardinality(S) = Cardinality(S)
    BY DEF Memory!Cardinality, Cardinality
  <1>3. Memory!MapAssumption
    BY CallsAssumption
  <1>4. AuxWords \in Nat \ {0} /\ AuxWords \in Memory!Pairs
    BY <1>3 DEF Memory!MapAssumption, Memory!Pairs
  <1> QED
    BY <1>1, <1>2, <1>3, <1>4 DEF Memory!MapAssumption, Vector, SomeFile

\* get_file and fput.
LEMMA TakenIs ==
    ASSUME NEW r \in Counts, NEW f \in SomeFile
    PROVE  /\ Memory!Taken(r, f) \in Counts
           /\ \A g \in Files : Memory!Taken(r, f)[g] = r[g] + Is(f, g)
  <1>1. CASE f = NoFile
    BY <1>1, MapFacts DEF Memory!Taken, Is, Counts
  <1>2. CASE f \in Files
    <2>1. Memory!Taken(r, f) = [r EXCEPT ![f] = r[f] + 1]
      BY <1>2, MapFacts DEF Memory!Taken
    <2> QED
      BY <1>2, <2>1 DEF Is, Counts
  <1> QED
    BY <1>1, <1>2 DEF SomeFile

LEMMA PutIs ==
    ASSUME NEW r \in Counts, NEW f \in SomeFile
    PROVE  /\ Memory!Put(r, f) \in Counts
           /\ \A g \in Files : Memory!Put(r, f)[g] = r[g] - Is(f, g)
  <1>1. CASE f = NoFile
    BY <1>1, MapFacts DEF Memory!Put, Is, Counts
  <1>2. CASE f \in Files
    <2>1. Memory!Put(r, f) = [r EXCEPT ![f] = r[f] - 1]
      BY <1>2, MapFacts DEF Memory!Put
    <2> QED
      BY <1>2, <2>1 DEF Is, Counts
  <1> QED
    BY <1>1, <1>2 DEF SomeFile

\* A set of threads or tasks, of which one is asked anew.
LEMMA OneAsked ==
    ASSUME NEW U, IsFiniteSet(U), NEW S \in SUBSET U, NEW T \in SUBSET U, NEW t,
           S \ {t} = T \ {t}
    PROVE  /\ Cardinality(S) \in Nat /\ Cardinality(T) \in Nat
           /\ Cardinality(T) = Cardinality(S) - Within(t, S) + Within(t, T)
  <1>1. /\ IsFiniteSet(S) /\ IsFiniteSet(T)
        /\ Cardinality(S) \in Nat /\ Cardinality(T) \in Nat
    BY FS_Subset, FS_CardinalityType
  <1>2. /\ Cardinality(S \ {t}) = IF t \in S THEN Cardinality(S) - 1 ELSE Cardinality(S)
        /\ Cardinality(T \ {t}) = IF t \in T THEN Cardinality(T) - 1 ELSE Cardinality(T)
    BY <1>1, FS_RemoveElement
  <1> QED
    BY <1>1, <1>2 DEF Within

LEMMA HoldersChange ==
    ASSUME NEW m \in [Threads -> MapCall], NEW t \in Threads, NEW k \in MapCall, NEW f \in Files
    PROVE  /\ NewOf(f, m) \in Nat /\ OldOf(f, m) \in Nat
           /\ NewOf(f, [m EXCEPT ![t] = k]) = NewOf(f, m) - Is(m[t].new, f) + Is(k.new, f)
           /\ OldOf(f, [m EXCEPT ![t] = k]) = OldOf(f, m) - Is(m[t].old, f) + Is(k.old, f)
  <1> DEFINE n == [m EXCEPT ![t] = k]
             S == {u \in Threads : m[u].new = f}
             T == {u \in Threads : n[u].new = f}
             A == {u \in Threads : m[u].old = f}
             B == {u \in Threads : n[u].old = f}
  <1>1. n[t] = k /\ \A u \in Threads \ {t} : n[u] = m[u]
    OBVIOUS
  <1> HIDE DEF n
  <1>2. S \ {t} = T \ {t} /\ A \ {t} = B \ {t}
    BY <1>1
  <1>3. /\ (t \in S <=> m[t].new = f) /\ (t \in T <=> k.new = f)
        /\ (t \in A <=> m[t].old = f) /\ (t \in B <=> k.old = f)
    BY <1>1
  <1>4. S \in SUBSET Threads /\ T \in SUBSET Threads /\ A \in SUBSET Threads /\ B \in SUBSET Threads
    OBVIOUS
  <1>5. NewOf(f, m) = Cardinality(S) /\ NewOf(f, n) = Cardinality(T)
        /\ OldOf(f, m) = Cardinality(A) /\ OldOf(f, n) = Cardinality(B)
    BY DEF NewOf, OldOf
  <1> HIDE DEF S, T, A, B
  <1>6. /\ Cardinality(S) \in Nat /\ Cardinality(A) \in Nat
        /\ Cardinality(T) = Cardinality(S) - Within(t, S) + Within(t, T)
        /\ Cardinality(B) = Cardinality(A) - Within(t, A) + Within(t, B)
    <2>1. IsFiniteSet(Threads)
      BY MapFacts
    <2>2. Cardinality(S) \in Nat /\ Cardinality(T) = Cardinality(S) - Within(t, S) + Within(t, T)
      BY ONLY <1>2, <1>4, <2>1, OneAsked
    <2>3. Cardinality(A) \in Nat /\ Cardinality(B) = Cardinality(A) - Within(t, A) + Within(t, B)
      BY ONLY <1>2, <1>4, <2>1, OneAsked
    <2> QED
      BY <2>2, <2>3
  <1>7. /\ Within(t, S) = Is(m[t].new, f) /\ Within(t, T) = Is(k.new, f)
        /\ Within(t, A) = Is(m[t].old, f) /\ Within(t, B) = Is(k.old, f)
    BY <1>3 DEF Within, Is
  <1> QED
    BY <1>5, <1>6, <1>7 DEF n

LEMMA MapTypes ==
    ASSUME MapOf
    PROVE  /\ MapTyped /\ Memory!Allowed(map, peak) /\ auxv[AuxWords] = 0
           /\ \A t \in Threads : mcall[t] \in MapCall /\ MapCarried(mcall[t])
           /\ \A f \in Files : refs[f] = HeldBy(f, fds, mapped, exe, mcall)
  BY DEF MapOf, MapTyped

\* A step of the call of t: what it holds, and the executable, are counted.
LEMMA HolderStep ==
    ASSUME MapOf, NEW t \in Threads, NEW k \in MapCall, MapCarried(k),
           mcall' = [mcall EXCEPT ![t] = k], UNCHANGED <<fds, mapped, Memory!limits>>,
           map' \in Memory!Map, Memory!Allowed(map', peak), auxv' \in Vector, auxv'[AuxWords] = 0,
           exe' \in Files, sem' \in Threads \cup {Nobody}, refs' \in Counts,
           \A f \in Files : refs'[f] = refs[f] + Is(k.new, f) - Is(mcall[t].new, f)
                              + Is(k.old, f) - Is(mcall[t].old, f) + Is(exe', f) - Is(exe, f)
    PROVE  MapOf'
  <1>0. DataLimit' = DataLimit /\ peak' = peak
    BY DEF Memory!limits
  <1>1. MapTyped'
    BY <1>0, MapTypes DEF MapTyped
  <1>2. ASSUME NEW u \in Threads PROVE MapCarried(mcall[u])'
    <2>1. MapCarried(mcall'[u])
      BY MapTypes DEF MapTyped
    <2> QED
      BY <1>0, <2>1 DEF MapCarried
  <1>3. ASSUME NEW f \in Files PROVE refs'[f] = HeldBy(f, fds, mapped, exe', mcall')
    <2>1. /\ NewOf(f, mcall) \in Nat /\ OldOf(f, mcall) \in Nat
          /\ NewOf(f, mcall') = NewOf(f, mcall) - Is(mcall[t].new, f) + Is(k.new, f)
          /\ OldOf(f, mcall') = OldOf(f, mcall) - Is(mcall[t].old, f) + Is(k.old, f)
      BY MapTypes, HoldersChange DEF MapTyped
    <2>2. \A x : Is(x, f) \in Nat
      BY DEF Is
    <2>3. \A S : Within(f, S) \in Nat
      BY DEF Within
    <2>4. refs[f] = Within(f, fds) + Within(f, mapped) + Is(exe, f) + NewOf(f, mcall) + OldOf(f, mcall)
      BY MapTypes DEF HeldBy
    <2> QED
      BY <2>1, <2>2, <2>3, <2>4 DEF HeldBy
  <1> QED
    BY <1>0, <1>1, <1>2, <1>3 DEF MapOf

\* A call that is not in prctl_set_mm_exe_file holds no file.
LEMMA IdleFree ==
    ASSUME MapOf, NEW t \in Threads, mcall[t].pc \in {"idle", "copy", "lock", "store"}
    PROVE  mcall[t].new = NoFile /\ mcall[t].old = NoFile
  BY MapTypes DEF MapCarried, MapCall, SomeFile

\* What is within the limit of the time is allowed for good.
LEMMA FoundAllowed ==
    ASSUME MapOf, NEW m \in Memory!Map, Memory!Ordered(m), Memory!WithinLimit(m, DataLimit)
    PROVE  Memory!Allowed(m, peak)
  <1>1. DataLimit \in Nat /\ peak \in Nat /\ DataLimit <= peak /\ Infinity \in Nat
    BY MapTypes, MapFacts DEF MapTyped
  <1>2. Memory!DataSize(m) \in Int
    <2>1. \A f \in Memory!Fields : m[f] \in Int
      BY MapFacts DEF Memory!Map
    <2> QED
      BY <2>1 DEF Memory!DataSize, Memory!Fields
  <1> QED
    BY <1>1, <1>2 DEF Memory!Allowed, Memory!WithinLimit

\* do_prlimit sets another limit: what was allowed before still is.
LEMMA LimitSet == ASSUME MapOf, Memory!SetLimit PROVE MapOf'
  <1>1. /\ DataLimit' \in Nat /\ peak' \in Nat /\ DataLimit' <= peak' /\ peak <= peak'
        /\ peak \in Nat /\ Infinity \in Nat
        /\ UNCHANGED <<map, auxv, exe, mapped, fds, refs, sem, mcall>>
    BY MapTypes, MapFacts DEF Memory!SetLimit, MapTyped
  <1>2. ASSUME NEW m \in Memory!Map, Memory!Allowed(m, peak) PROVE Memory!Allowed(m, peak')
    <2>1. Memory!DataSize(m) \in Int
      <3>1. \A f \in Memory!Fields : m[f] \in Int
        BY MapFacts DEF Memory!Map
      <3> QED
        BY <3>1 DEF Memory!DataSize, Memory!Fields
    <2> QED
      BY <1>1, <1>2, <2>1 DEF Memory!Allowed, Memory!WithinLimit
  <1>3. MapTyped'
    BY <1>1, MapTypes DEF MapTyped
  <1>4. ASSUME NEW t \in Threads PROVE MapCarried(mcall[t])'
    <2>1. mcall[t].map \in Memory!Map /\ MapCarried(mcall[t])
      BY MapTypes DEF MapCall
    <2> QED
      BY <1>1, <1>2, <2>1 DEF MapCarried
  <1>5. Memory!Allowed(map, peak)'
    BY <1>1, <1>2, MapTypes DEF MapTyped
  <1> QED
    BY <1>1, <1>3, <1>4, <1>5, MapTypes DEF MapOf, HeldBy, NewOf, OldOf

LEMMA IdleHolds ==
    /\ Memory!Idle \in MapCall /\ MapCarried(Memory!Idle) /\ Memory!Idle.pc = "idle"
    /\ Memory!Idle.new = NoFile /\ Memory!Idle.old = NoFile
    /\ Memory!Idle.next = 1 /\ Memory!Idle.map = FirstMap /\ Memory!Idle.len = 0
    /\ Memory!Idle.vec = Memory!NoVector
  <1>1. /\ Memory!Idle.pc = "idle" /\ Memory!Idle.next = 1 /\ Memory!Idle.map = FirstMap
        /\ Memory!Idle.len = 0 /\ Memory!Idle.vec = Memory!NoVector
        /\ Memory!Idle.new = NoFile /\ Memory!Idle.old = NoFile
    BY DEF Memory!Idle
  <1>2. Memory!Idle \in MapCall
    BY MapFacts DEF Memory!Idle, MapCall, MapPcs, SomeFile
  <1>3. MapCarried(Memory!Idle)
    BY <1>1, MapFacts DEF MapCarried, Memory!Allowed
  <1> QED
    BY <1>1, <1>2, <1>3

LEMMA EndedEnds ==
    ASSUME NEW v \in Vector, NEW len
    PROVE  Memory!Ended(v, len) \in Vector /\ Memory!Ended(v, len)[AuxWords] = 0
  BY MapFacts DEF Memory!Ended, Memory!NULL, Vector

LEMMA MapStart == Memory!Init => MapOf
  <1> SUFFICES ASSUME Memory!Init PROVE MapOf
    OBVIOUS
  <1>1. /\ map = FirstMap /\ auxv = [i \in Memory!Pairs |-> 0]
        /\ exe \in Files /\ mapped = {exe} /\ fds = {}
        /\ refs = [f \in Files |-> IF f = exe THEN 2 ELSE 0]
        /\ sem = Nobody /\ mcall = [t \in Threads |-> Memory!Idle]
        /\ DataLimit \in Nat /\ peak = DataLimit
    BY DEF Memory!Init, Memory!NULL
  <1>2. /\ Memory!Idle \in MapCall /\ MapCarried(Memory!Idle)
        /\ Memory!Idle.new = NoFile /\ Memory!Idle.old = NoFile
    BY IdleHolds
  <1>3. MapTyped
    <2>1. map \in Memory!Map /\ auxv \in Vector
      BY <1>1, MapFacts DEF Vector
    <2>2. mapped \in SUBSET Files /\ fds \in SUBSET Files /\ refs \in Counts
      BY <1>1 DEF Counts
    <2>3. mcall \in [Threads -> MapCall]
      BY ONLY <1>1, <1>2
    <2> QED
      BY <1>1, <2>1, <2>2, <2>3 DEF MapTyped
  <1>4. ASSUME NEW f \in Files PROVE refs[f] = HeldBy(f, fds, mapped, exe, mcall)
    <2>1. NewOf(f, mcall) = 0 /\ OldOf(f, mcall) = 0
      <3>1. {t \in Threads : mcall[t].new = f} = {} /\ {t \in Threads : mcall[t].old = f} = {}
        BY <1>1, <1>2, MapFacts
      <3> QED
        BY <3>1, FS_EmptySet DEF NewOf, OldOf
    <2> QED
      BY <1>1, <2>1 DEF HeldBy, Is, Within
  <1>5. auxv[AuxWords] = 0 /\ Memory!Allowed(map, peak)
    BY <1>1, MapFacts DEF Memory!Allowed
  <1>6. \A t \in Threads : MapCarried(mcall[t])
    BY <1>1, <1>2
  <1> QED
    BY <1>3, <1>4, <1>5, <1>6 DEF MapOf

\* A step that leaves the fields, the vector and the lock, and the files it holds.
LEMMA QuietCall ==
    ASSUME MapOf, NEW t \in Threads, NEW k \in MapCall, MapCarried(k),
           mcall' = [mcall EXCEPT ![t] = k], UNCHANGED <<map, fds, mapped, exe, refs, Memory!limits>>,
           auxv' \in Vector, auxv'[AuxWords] = 0, sem' \in Threads \cup {Nobody},
           k.new = mcall[t].new, k.old = mcall[t].old
    PROVE  MapOf'
  <1>1. \A f \in Files : /\ refs[f] \in Int /\ Is(k.new, f) \in Nat /\ Is(k.old, f) \in Nat
                         /\ Is(exe, f) \in Nat
    BY MapTypes DEF Is, MapTyped, Counts
  <1>2. ASSUME NEW f \in Files
        PROVE  refs'[f] = refs[f] + Is(k.new, f) - Is(mcall[t].new, f)
                            + Is(k.old, f) - Is(mcall[t].old, f) + Is(exe', f) - Is(exe, f)
    BY <1>1
  <1> QED
    BY <1>2, MapTypes, HolderStep DEF MapTyped

LEMMA AuxvSet == ASSUME MapOf, NEW t \in Threads, Memory!SetAuxv(t) PROVE MapOf'
  <1>1. PICK v \in Vectors, len \in 0 .. AuxWords :
          mcall' = [mcall EXCEPT ![t] = [Memory!Idle EXCEPT
                      !.pc = "copy", !.vec = Memory!Ended(v, len), !.len = len]]
    BY DEF Memory!SetAuxv
  <1>2. mcall[t].pc = "idle" /\ UNCHANGED <<map, auxv, exe, mapped, fds, refs, sem, Memory!limits>>
    BY DEF Memory!SetAuxv, Memory!At
  <1>3. PICK k : k = [Memory!Idle EXCEPT !.pc = "copy", !.vec = Memory!Ended(v, len), !.len = len]
    OBVIOUS
  <1>4. Memory!Ended(v, len) \in Vector /\ Memory!Ended(v, len)[AuxWords] = 0
    BY MapFacts, EndedEnds
  <1>5. /\ k \in MapCall /\ k.pc = "copy" /\ k.vec = Memory!Ended(v, len) /\ k.len = len
        /\ k.next = 1 /\ k.map = FirstMap /\ k.new = NoFile /\ k.old = NoFile
    <2>1. Memory!Idle \in MapCall /\ len \in Nat
      BY MapFacts, IdleHolds
    <2>2. /\ Memory!Idle.next = 1 /\ Memory!Idle.map = FirstMap
          /\ Memory!Idle.new = NoFile /\ Memory!Idle.old = NoFile
      BY IdleHolds
    <2> QED
      BY ONLY <1>3, <1>4, <2>1, <2>2 DEF MapCall, MapPcs
  <1>6. MapCarried(k)
    BY <1>4, <1>5, MapFacts DEF MapCarried, Memory!Allowed
  <1>7. mcall[t].new = NoFile /\ mcall[t].old = NoFile
    BY <1>2, IdleFree
  <1> QED
    BY <1>1, <1>2, <1>3, <1>5, <1>6, <1>7, MapTypes, QuietCall DEF MapTyped

LEMMA PairCopied == ASSUME MapOf, NEW t \in Threads, Memory!CopyPair(t) PROVE MapOf'
  <1>1. /\ mcall[t].pc = "copy" /\ mcall[t].next <= mcall[t].len
        /\ auxv' = [auxv EXCEPT ![mcall[t].next] = mcall[t].vec[mcall[t].next]]
        /\ mcall' = [mcall EXCEPT ![t].next = @ + 1]
        /\ UNCHANGED <<map, exe, mapped, fds, refs, sem, Memory!limits>>
    BY DEF Memory!CopyPair, Memory!At
  <1>2. /\ mcall[t] \in MapCall /\ mcall[t].next \in Nat /\ mcall[t].len \in Nat
        /\ AuxWords \in Nat /\ auxv \in Vector /\ auxv[AuxWords] = 0
        /\ mcall[t].len <= AuxWords /\ 1 <= mcall[t].next
    BY MapTypes, MapFacts DEF MapCall, MapTyped, MapCarried
  <1>3. mcall[t].vec \in Vector /\ mcall[t].vec[AuxWords] = 0
    BY <1>1, <1>2, MapTypes DEF MapCarried
  <1>4. mcall[t].next \in Memory!Pairs
    BY <1>1, <1>2 DEF Memory!Pairs
  <1>5. auxv' \in Vector /\ auxv'[AuxWords] = 0
    <2>1. mcall[t].vec[mcall[t].next] \in Nat
      BY <1>3, <1>4 DEF Vector
    <2>2. auxv' \in Vector
      BY <1>1, <1>2, <1>4, <2>1 DEF Vector
    <2>3. auxv'[AuxWords] = 0
      BY <1>1, <1>2, <1>3, MapFacts DEF Vector
    <2> QED
      BY <2>2, <2>3
  <1>6. PICK n \in Nat : n = mcall[t].next + 1
    BY <1>2
  <1>7. PICK k : k = [mcall[t] EXCEPT !.next = n]
    OBVIOUS
  <1>8. mcall' = [mcall EXCEPT ![t] = k]
    BY <1>1, <1>6, <1>7, MapTypes DEF MapTyped
  <1>9. /\ k \in MapCall /\ k.pc = mcall[t].pc /\ k.next = n /\ k.len = mcall[t].len
        /\ k.vec = mcall[t].vec /\ k.map = mcall[t].map /\ k.new = mcall[t].new
        /\ k.old = mcall[t].old
    BY ONLY <1>2, <1>7 DEF MapCall
  <1>10. MapCarried(k)
    BY <1>1, <1>2, <1>6, <1>9, MapTypes DEF MapCarried
  <1> QED
    BY <1>1, <1>5, <1>8, <1>9, <1>10, MapTypes, QuietCall DEF MapTyped

LEMMA CopyEnded == ASSUME MapOf, NEW t \in Threads, Memory!Copied(t) PROVE MapOf'
  <1>1. /\ mcall[t].pc = "copy" /\ sem' = (IF sem = t THEN Nobody ELSE sem)
        /\ mcall' = [mcall EXCEPT ![t] = Memory!Idle]
        /\ UNCHANGED <<map, auxv, exe, mapped, fds, refs, Memory!limits>>
    BY DEF Memory!Copied, Memory!At, Memory!Return
  <1>2. /\ Memory!Idle \in MapCall /\ MapCarried(Memory!Idle)
        /\ Memory!Idle.new = NoFile /\ Memory!Idle.old = NoFile
    BY IdleHolds
  <1>3. mcall[t].new = NoFile /\ mcall[t].old = NoFile
    BY <1>1, IdleFree
  <1>4. sem' \in Threads \cup {Nobody}
    BY <1>1, MapTypes DEF MapTyped
  <1> QED
    BY <1>1, <1>2, <1>3, <1>4, MapTypes, QuietCall DEF MapTyped

\* down_write, and the fields.
LEMMA MapWritten == ASSUME MapOf, NEW t \in Threads, Memory!WriteMap(t) PROVE MapOf'
  <1>1. /\ mcall[t].pc = "lock" /\ sem' = t /\ map' = mcall[t].map
        /\ mcall' = [mcall EXCEPT ![t].pc = "copy"]
        /\ UNCHANGED <<auxv, exe, mapped, fds, refs, Memory!limits>>
    BY DEF Memory!WriteMap, Memory!At
  <1>2. PICK k : k = [mcall[t] EXCEPT !.pc = "copy"]
    OBVIOUS
  <1>3. mcall[t] \in MapCall /\ MapCarried(mcall[t]) /\ mcall[t].map \in Memory!Map
    BY MapTypes DEF MapCall
  <1>4. /\ k \in MapCall /\ k.pc = "copy" /\ k.next = mcall[t].next /\ k.len = mcall[t].len
        /\ k.vec = mcall[t].vec /\ k.map = mcall[t].map /\ k.new = mcall[t].new
        /\ k.old = mcall[t].old
    BY ONLY <1>2, <1>3 DEF MapCall, MapPcs
  <1>5. mcall' = [mcall EXCEPT ![t] = k]
    BY <1>1, <1>2, MapTypes DEF MapTyped
  <1>6. MapCarried(k) /\ Memory!Allowed(map', peak)
    BY <1>1, <1>3, <1>4 DEF MapCarried
  <1>7. \A f \in Files : /\ refs[f] \in Int /\ Is(k.new, f) \in Nat /\ Is(k.old, f) \in Nat
                         /\ Is(exe, f) \in Nat
    BY MapTypes DEF Is, MapTyped, Counts
  <1>8. ASSUME NEW f \in Files
        PROVE  refs'[f] = refs[f] + Is(k.new, f) - Is(mcall[t].new, f)
                            + Is(k.old, f) - Is(mcall[t].old, f) + Is(exe', f) - Is(exe, f)
    BY <1>1, <1>4, <1>7
  <1> QED
    BY <1>1, <1>3, <1>4, <1>5, <1>6, <1>8, MapTypes, HolderStep DEF MapTyped

\* What a file that is none counts for.
LEMMA NoneCounts == \A f \in Files : Is(NoFile, f) = 0
  BY MapFacts DEF Is

\* A single field: found in order with the others, under mmap_sem,
LEMMA FieldSet == ASSUME MapOf, NEW t \in Threads, Memory!SetField(t) PROVE MapOf'
  <1>1. PICK o \in Options, a \in MinAddr .. TaskSize - 1 :
          /\ Memory!Ordered([map EXCEPT ![o] = a])
          /\ Memory!WithinLimit([map EXCEPT ![o] = a], DataLimit)
          /\ mcall' = [mcall EXCEPT ![t] =
                [Memory!Idle EXCEPT !.pc = "store", !.map = [map EXCEPT ![o] = a]]]
    BY DEF Memory!SetField
  <1>2. /\ mcall[t].pc = "idle" /\ sem' = t
        /\ UNCHANGED <<map, auxv, exe, mapped, fds, refs, Memory!limits>>
    BY DEF Memory!SetField, Memory!At
  <1>3. PICK m : m = [map EXCEPT ![o] = a]
    OBVIOUS
  <1>4. m \in Memory!Map
    <2>1. a \in 0 .. TaskSize /\ map \in Memory!Map
      BY MapFacts, MapTypes DEF MapTyped
    <2> QED
      BY <1>3, <2>1 DEF Memory!Map
  <1>5. Memory!Allowed(m, peak)
    BY <1>1, <1>3, <1>4, FoundAllowed
  <1>6. PICK k : k = [Memory!Idle EXCEPT !.pc = "store", !.map = m]
    OBVIOUS
  <1>7. /\ k \in MapCall /\ k.pc = "store" /\ k.map = m /\ k.next = 1 /\ k.len = 0
        /\ k.new = NoFile /\ k.old = NoFile
    <2>1. /\ Memory!Idle \in MapCall /\ Memory!Idle.next = 1 /\ Memory!Idle.len = 0
          /\ Memory!Idle.new = NoFile /\ Memory!Idle.old = NoFile
      BY IdleHolds
    <2> QED
      BY ONLY <1>4, <1>6, <2>1 DEF MapCall, MapPcs
  <1>8. MapCarried(k)
    BY <1>5, <1>7, MapFacts DEF MapCarried
  <1>9. mcall[t].new = NoFile /\ mcall[t].old = NoFile
    BY <1>2, IdleFree
  <1>10. mcall' = [mcall EXCEPT ![t] = k]
    BY ONLY <1>1, <1>3, <1>6
  <1> QED
    BY <1>2, <1>7, <1>8, <1>9, <1>10, MapTypes, QuietCall DEF MapTyped

\* and stored before it is let go of.
LEMMA FieldStored == ASSUME MapOf, NEW t \in Threads, Memory!StoreFields(t) PROVE MapOf'
  <1>1. /\ mcall[t].pc = "store" /\ sem' = Nobody /\ map' = mcall[t].map
        /\ mcall' = [mcall EXCEPT ![t] = Memory!Idle]
        /\ UNCHANGED <<auxv, exe, mapped, fds, refs, Memory!limits>>
    BY DEF Memory!StoreFields, Memory!At, Memory!Return
  <1>2. /\ Memory!Idle \in MapCall /\ MapCarried(Memory!Idle)
        /\ Memory!Idle.new = NoFile /\ Memory!Idle.old = NoFile
    BY IdleHolds
  <1>3. mcall[t].new = NoFile /\ mcall[t].old = NoFile
    BY <1>1, IdleFree
  <1>4. map' \in Memory!Map /\ Memory!Allowed(map', peak)
    BY <1>1, MapTypes DEF MapCall, MapCarried
  <1>5. \A f \in Files : refs[f] \in Int /\ Is(NoFile, f) = 0 /\ Is(exe, f) \in Nat
    BY MapTypes, NoneCounts DEF Is, MapTyped, Counts
  <1>6. ASSUME NEW f \in Files
        PROVE  refs'[f] = refs[f] + Is(Memory!Idle.new, f) - Is(mcall[t].new, f)
                 + Is(Memory!Idle.old, f) - Is(mcall[t].old, f) + Is(exe', f) - Is(exe, f)
    BY <1>1, <1>2, <1>3, <1>5
  <1> QED
    BY <1>1, <1>2, <1>4, <1>6, MapTypes, HolderStep DEF MapTyped

\* A call that begins with a file in its hands, or none.
LEMMA CallBegun ==
    ASSUME MapOf, NEW t \in Threads, NEW k \in MapCall, MapCarried(k),
           mcall[t].pc = "idle", k.old = NoFile,
           mcall' = [mcall EXCEPT ![t] = k], refs' = Memory!Taken(refs, k.new),
           UNCHANGED <<map, auxv, exe, mapped, fds, sem, Memory!limits>>
    PROVE  MapOf'
  <1>1. mcall[t].new = NoFile /\ mcall[t].old = NoFile
    BY IdleFree
  <1>2. k.new \in SomeFile /\ refs \in Counts
    BY MapTypes DEF MapCall, MapTyped
  <1>3. refs' \in Counts /\ \A f \in Files : refs'[f] = refs[f] + Is(k.new, f)
    BY <1>2, TakenIs
  <1>4. \A f \in Files : refs[f] \in Int /\ Is(k.new, f) \in Nat /\ Is(exe, f) \in Nat
    BY <1>2 DEF Is, Counts
  <1>5. ASSUME NEW f \in Files
        PROVE  refs'[f] = refs[f] + Is(k.new, f) - Is(mcall[t].new, f)
                            + Is(k.old, f) - Is(mcall[t].old, f) + Is(exe', f) - Is(exe, f)
    BY <1>1, <1>3, <1>4, NoneCounts
  <1> QED
    BY <1>3, <1>5, MapTypes, HolderStep DEF MapTyped

\* PR_SET_MM_EXE_FILE.
LEMMA ExeAsked == ASSUME MapOf, NEW t \in Threads, Memory!SetExe(t) PROVE MapOf'
  <1>1. PICK f \in fds :
          /\ mcall' = [mcall EXCEPT ![t] = [Memory!Idle EXCEPT !.pc = "check", !.new = f]]
          /\ refs' = Memory!Taken(refs, f)
    BY DEF Memory!SetExe
  <1>2. mcall[t].pc = "idle" /\ UNCHANGED <<map, auxv, exe, mapped, fds, sem, Memory!limits>>
    BY DEF Memory!SetExe, Memory!At
  <1>3. PICK k : k = [Memory!Idle EXCEPT !.pc = "check", !.new = f]
    OBVIOUS
  <1>4. f \in Files /\ f \in SomeFile
    BY MapTypes DEF MapTyped, SomeFile
  <1>5. /\ k \in MapCall /\ k.pc = "check" /\ k.new = f /\ k.old = NoFile /\ k.next = 1
        /\ k.len = 0 /\ k.map = FirstMap
    <2>1. /\ Memory!Idle \in MapCall /\ Memory!Idle.old = NoFile /\ Memory!Idle.next = 1
          /\ Memory!Idle.len = 0 /\ Memory!Idle.map = FirstMap
      BY IdleHolds
    <2> QED
      BY ONLY <1>3, <1>4, <2>1 DEF MapCall, MapPcs
  <1>6. MapCarried(k)
    BY <1>4, <1>5, MapFacts DEF MapCarried, Memory!Allowed
  <1> QED
    BY <1>1, <1>2, <1>3, <1>5, <1>6, CallBegun

\* PR_SET_MM_MAP, of a map that validate_prctl_map has let through.
LEMMA MapAsked == ASSUME MapOf, NEW t \in Threads, Memory!SetMap(t) PROVE MapOf'
  <1>1. PICK r \in MapRequests :
          /\ Memory!Ordered(r.map) /\ Memory!WithinLimit(r.map, DataLimit)
          /\ mcall' = [mcall EXCEPT ![t] =
                [Memory!Idle EXCEPT !.pc = IF r.exe = NoFile THEN "lock" ELSE "check",
                    !.map = r.map, !.sets = TRUE, !.new = r.exe,
                    !.vec = IF r.auxv = Memory!NoVector THEN Memory!NoVector
                            ELSE Memory!Ended(r.auxv, AuxWords),
                    !.len = IF r.auxv = Memory!NoVector THEN 0 ELSE AuxWords]]
          /\ refs' = Memory!Taken(refs, r.exe)
    BY DEF Memory!SetMap
  <1>2. mcall[t].pc = "idle" /\ UNCHANGED <<map, auxv, exe, mapped, fds, sem, Memory!limits>>
    BY DEF Memory!SetMap, Memory!At
  <1>3. PICK pc : pc = IF r.exe = NoFile THEN "lock" ELSE "check"
    OBVIOUS
  <1>4. PICK vec : vec = IF r.auxv = Memory!NoVector THEN Memory!NoVector
                         ELSE Memory!Ended(r.auxv, AuxWords)
    OBVIOUS
  <1>5. PICK len : len = IF r.auxv = Memory!NoVector THEN 0 ELSE AuxWords
    OBVIOUS
  <1>6. PICK k : k = [Memory!Idle EXCEPT !.pc = pc, !.map = r.map, !.sets = TRUE,
                                         !.new = r.exe, !.vec = vec, !.len = len]
    OBVIOUS
  <1>7. r.map \in Memory!Map /\ r.exe \in SomeFile /\ r.auxv \in Vectors \cup {Memory!NoVector}
    BY MapFacts
  <1>8. /\ len \in Nat /\ len <= AuxWords /\ pc \in {"lock", "check"}
        /\ vec \in Vector \cup {Memory!NoVector}
        /\ len > 0 => vec \in Vector /\ vec[AuxWords] = 0
    <2>1. len \in Nat /\ len <= AuxWords /\ pc \in {"lock", "check"}
      BY <1>3, <1>5, MapFacts
    <2>2. CASE r.auxv = Memory!NoVector
      BY <1>4, <1>5, <2>1, <2>2
    <2>3. CASE r.auxv # Memory!NoVector
      <3>1. r.auxv \in Vector
        BY <1>7, <2>3, MapFacts
      <3> QED
        BY <1>4, <2>1, <2>3, <3>1, EndedEnds
    <2> QED
      BY <2>2, <2>3
  <1>9. /\ k \in MapCall /\ k.pc = pc /\ k.new = r.exe /\ k.old = NoFile /\ k.next = 1
        /\ k.len = len /\ k.vec = vec /\ k.map = r.map
    <2>1. /\ Memory!Idle \in MapCall /\ Memory!Idle.old = NoFile /\ Memory!Idle.next = 1
      BY IdleHolds
    <2> QED
      BY ONLY <1>6, <1>7, <1>8, <2>1 DEF MapCall, MapPcs
  <1>10. MapCarried(k)
    <2>1. k.new \in Files <=> k.pc \in {"check", "scan", "exchange"}
      BY <1>3, <1>7, <1>9, MapFacts DEF SomeFile
    <2>2. ~(k.old \in Files) /\ ~(k.pc = "scan")
      BY <1>8, <1>9, MapFacts
    <2>3. Memory!Allowed(k.map, peak)
      BY <1>1, <1>7, <1>9, FoundAllowed
    <2> QED
      BY <1>8, <1>9, <2>1, <2>2, <2>3 DEF MapCarried
  <1>11. mcall' = [mcall EXCEPT ![t] = k]
    BY ONLY <1>1, <1>3, <1>4, <1>5, <1>6
  <1> QED
    BY <1>1, <1>2, <1>9, <1>10, <1>11, CallBegun

\* A call in prctl_set_mm_exe_file, and what it holds.
LEMMA ExeHeld ==
    ASSUME MapOf, NEW t \in Threads
    PROVE  /\ mcall[t] \in MapCall /\ MapCarried(mcall[t]) /\ mcall[t].new \in SomeFile
           /\ mcall[t].old \in SomeFile /\ refs \in Counts /\ exe \in SomeFile /\ exe \in Files
           /\ mcall[t].pc \in {"check", "exchange"} => mcall[t].new \in Files /\ mcall[t].old = NoFile
           /\ mcall[t].pc = "scan" => mcall[t].new \in Files /\ mcall[t].old \in Files
  <1>1. mcall[t] \in MapCall /\ MapCarried(mcall[t]) /\ exe \in Files /\ refs \in Counts
    BY MapTypes DEF MapTyped
  <1>2. mcall[t].new \in SomeFile /\ mcall[t].old \in SomeFile
    BY <1>1 DEF MapCall
  <1> QED
    BY <1>1, <1>2, MapFacts DEF MapCarried, SomeFile

\* It gives up, and gives back all it holds.
LEMMA GivenUp ==
    ASSUME MapOf, NEW t \in Threads, mcall' = [mcall EXCEPT ![t] = Memory!Idle],
           UNCHANGED <<map, auxv, exe, mapped, fds, sem, Memory!limits>>, refs' \in Counts,
           \A f \in Files : refs'[f] = refs[f] - Is(mcall[t].old, f) - Is(mcall[t].new, f)
    PROVE  MapOf'
  <1>1. /\ Memory!Idle \in MapCall /\ MapCarried(Memory!Idle)
        /\ Memory!Idle.new = NoFile /\ Memory!Idle.old = NoFile
    BY IdleHolds
  <1>2. \A f \in Files : /\ refs[f] \in Int /\ Is(mcall[t].new, f) \in Nat
                         /\ Is(mcall[t].old, f) \in Nat /\ Is(exe, f) \in Nat
    BY MapTypes DEF Is, MapTyped, Counts
  <1>3. ASSUME NEW f \in Files
        PROVE  refs'[f] = refs[f] + Is(Memory!Idle.new, f) - Is(mcall[t].new, f)
                 + Is(Memory!Idle.old, f) - Is(mcall[t].old, f) + Is(exe', f) - Is(exe, f)
    BY <1>1, <1>2, NoneCounts
  <1> QED
    BY <1>1, <1>3, MapTypes, HolderStep DEF MapTyped

LEMMA ExeRefused == ASSUME MapOf, NEW t \in Threads, Memory!NotExecutable(t) PROVE MapOf'
  <1>1. /\ mcall[t].pc = "check" /\ mcall' = [mcall EXCEPT ![t] = Memory!Idle]
        /\ refs' = Memory!Put(refs, mcall[t].new)
        /\ UNCHANGED <<map, auxv, exe, mapped, fds, sem, Memory!limits>>
    BY DEF Memory!NotExecutable, Memory!At, Memory!Return
  <1>2. mcall[t].old = NoFile /\ refs \in Counts
    BY <1>1, ExeHeld
  <1>3. refs' \in Counts /\ \A f \in Files : refs'[f] = refs[f] - Is(mcall[t].new, f)
    BY <1>1, ExeHeld, PutIs
  <1>4. \A f \in Files : refs'[f] = refs[f] - Is(mcall[t].old, f) - Is(mcall[t].new, f)
    BY <1>2, <1>3, NoneCounts DEF Counts
  <1> QED
    BY <1>1, <1>3, <1>4, GivenUp

LEMMA OldGot == ASSUME MapOf, NEW t \in Threads, Memory!GetOld(t) PROVE MapOf'
  <1>1. /\ mcall[t].pc = "check" /\ refs' = Memory!Taken(refs, exe)
        /\ mcall' = [mcall EXCEPT ![t].pc = IF exe = NoFile THEN "exchange" ELSE "scan",
                                  ![t].old = exe]
        /\ UNCHANGED <<map, auxv, exe, mapped, fds, sem, Memory!limits>>
    BY DEF Memory!GetOld, Memory!At
  <1>2. /\ mcall[t] \in MapCall /\ MapCarried(mcall[t]) /\ exe \in Files /\ exe \in SomeFile
        /\ mcall[t].new \in Files /\ mcall[t].old = NoFile /\ exe # NoFile
    BY <1>1, ExeHeld, MapFacts
  <1>3. PICK k : k = [mcall[t] EXCEPT !.pc = "scan", !.old = exe]
    OBVIOUS
  <1>4. mcall' = [mcall EXCEPT ![t] = k]
    BY <1>1, <1>2, <1>3, MapTypes DEF MapTyped
  <1>5. /\ k \in MapCall /\ k.pc = "scan" /\ k.new = mcall[t].new /\ k.old = exe
        /\ k.next = mcall[t].next /\ k.len = mcall[t].len /\ k.vec = mcall[t].vec
        /\ k.map = mcall[t].map
    BY ONLY <1>2, <1>3 DEF MapCall, MapPcs
  <1>6. MapCarried(k)
    BY <1>2, <1>5 DEF MapCarried
  <1>7. refs' \in Counts /\ \A f \in Files : refs'[f] = refs[f] + Is(exe, f)
    BY <1>1, ExeHeld, TakenIs
  <1>8. \A f \in Files : refs[f] \in Int /\ Is(exe, f) \in Nat /\ Is(mcall[t].new, f) \in Nat
    BY ExeHeld DEF Is, Counts
  <1>9. ASSUME NEW f \in Files
        PROVE  refs'[f] = refs[f] + Is(k.new, f) - Is(mcall[t].new, f)
                            + Is(k.old, f) - Is(mcall[t].old, f) + Is(exe', f) - Is(exe, f)
    BY <1>1, <1>2, <1>5, <1>7, <1>8, NoneCounts
  <1> QED
    BY <1>1, <1>4, <1>5, <1>6, <1>7, <1>9, MapTypes, HolderStep DEF MapTyped

\* The loop over the vmas.
LEMMA Scanned == ASSUME MapOf, NEW t \in Threads, Memory!Scan(t) PROVE MapOf'
  <1>1. mcall[t].pc = "scan" /\ UNCHANGED <<map, auxv, exe, mapped, fds, sem, Memory!limits>>
    BY DEF Memory!Scan, Memory!At
  <1>2. /\ mcall[t] \in MapCall /\ MapCarried(mcall[t]) /\ refs \in Counts
        /\ mcall[t].new \in Files /\ mcall[t].old \in Files
        /\ mcall[t].new \in SomeFile /\ mcall[t].old \in SomeFile
    BY <1>1, ExeHeld
  <1>3. \A f \in Files : /\ refs[f] \in Int /\ Is(exe, f) \in Nat /\ Is(mcall[t].new, f) \in Nat
                         /\ Is(mcall[t].old, f) \in Nat
    BY <1>2 DEF Is, Counts
  <1>4. PICK r : r = Memory!Put(refs, mcall[t].old)
    OBVIOUS
  <1>5. r \in Counts /\ \A f \in Files : r[f] = refs[f] - Is(mcall[t].old, f)
    BY <1>2, <1>4, PutIs
  <1>6. CASE mcall[t].old \in mapped
    <2>1. mcall' = [mcall EXCEPT ![t] = Memory!Idle] /\ refs' = Memory!Put(r, mcall[t].new)
      BY <1>4, <1>6 DEF Memory!Scan, Memory!Return
    <2>2. refs' \in Counts /\ \A f \in Files : refs'[f] = r[f] - Is(mcall[t].new, f)
      BY <1>2, <1>5, <2>1, PutIs
    <2>3. \A f \in Files : refs'[f] = refs[f] - Is(mcall[t].old, f) - Is(mcall[t].new, f)
      BY <1>5, <2>2
    <2> QED
      BY <1>1, <2>1, <2>2, <2>3, GivenUp
  <1>7. CASE mcall[t].old \notin mapped
    <2>1. /\ mcall' = [mcall EXCEPT ![t].pc = "exchange", ![t].old = NoFile] /\ refs' = r
      BY <1>4, <1>7 DEF Memory!Scan
    <2>2. PICK k : k = [mcall[t] EXCEPT !.pc = "exchange", !.old = NoFile]
      OBVIOUS
    <2>3. mcall' = [mcall EXCEPT ![t] = k]
      BY <2>1, <2>2, MapTypes DEF MapTyped
    <2>4. /\ k \in MapCall /\ k.pc = "exchange" /\ k.new = mcall[t].new /\ k.old = NoFile
          /\ k.next = mcall[t].next /\ k.len = mcall[t].len /\ k.vec = mcall[t].vec
          /\ k.map = mcall[t].map
      BY ONLY <1>2, <2>2 DEF MapCall, MapPcs, SomeFile
    <2>5. MapCarried(k)
      BY <1>2, <2>4, MapFacts DEF MapCarried
    <2>6. ASSUME NEW f \in Files
          PROVE  refs'[f] = refs[f] + Is(k.new, f) - Is(mcall[t].new, f)
                              + Is(k.old, f) - Is(mcall[t].old, f) + Is(exe', f) - Is(exe, f)
      BY <1>1, <1>3, <1>5, <2>1, <2>4, NoneCounts
    <2> QED
      BY <1>1, <1>5, <2>1, <2>3, <2>4, <2>5, <2>6, MapTypes, HolderStep DEF MapTyped
  <1> QED
    BY <1>6, <1>7

\* get_file and xchg, fput of what was there, fdput: the hold of the call goes to
\* the map, the hold of the map is given back.
LEMMA Exchanged == ASSUME MapOf, NEW t \in Threads, Memory!Exchange(t) PROVE MapOf'
  <1>1. /\ mcall[t].pc = "exchange" /\ exe' = mcall[t].new
        /\ refs' = Memory!Put(Memory!Put(Memory!Taken(refs, mcall[t].new), exe), mcall[t].new)
        /\ mcall' = [mcall EXCEPT ![t] = IF mcall[t].sets
                       THEN [mcall[t] EXCEPT !.pc = "lock", !.new = NoFile] ELSE Memory!Idle]
        /\ UNCHANGED <<map, auxv, mapped, fds, sem, Memory!limits>>
    <2>1. mcall \in [Threads -> MapCall]
      BY MapTypes DEF MapTyped
    <2> QED
      BY <2>1 DEF Memory!Exchange, Memory!At, Memory!Return
  <1>2. /\ mcall[t] \in MapCall /\ MapCarried(mcall[t]) /\ refs \in Counts
        /\ mcall[t].new \in Files /\ mcall[t].old = NoFile
        /\ mcall[t].new \in SomeFile /\ exe \in SomeFile /\ exe \in Files
    BY <1>1, ExeHeld
  <1>3. PICK r : r = Memory!Taken(refs, mcall[t].new)
    OBVIOUS
  <1>4. PICK s : s = Memory!Put(r, exe)
    OBVIOUS
  <1>5. r \in Counts /\ \A f \in Files : r[f] = refs[f] + Is(mcall[t].new, f)
    BY <1>2, <1>3, TakenIs
  <1>6. s \in Counts /\ \A f \in Files : s[f] = r[f] - Is(exe, f)
    BY <1>2, <1>4, <1>5, PutIs
  <1>7. refs' \in Counts /\ \A f \in Files : refs'[f] = s[f] - Is(mcall[t].new, f)
    BY <1>1, <1>2, <1>3, <1>4, <1>6, PutIs
  <1>8. PICK k : k = IF mcall[t].sets THEN [mcall[t] EXCEPT !.pc = "lock", !.new = NoFile]
                     ELSE Memory!Idle
    OBVIOUS
  <1>9. k \in MapCall /\ MapCarried(k) /\ k.new = NoFile /\ k.old = NoFile
    <2>1. CASE ~mcall[t].sets
      <3>1. k = Memory!Idle
        BY <1>8, <2>1
      <3> QED
        BY <3>1, IdleHolds
    <2>2. CASE mcall[t].sets
      <3>1. k = [mcall[t] EXCEPT !.pc = "lock", !.new = NoFile]
        BY <1>8, <2>2
      <3>2. /\ k \in MapCall /\ k.pc = "lock" /\ k.new = NoFile /\ k.old = mcall[t].old
            /\ k.next = mcall[t].next /\ k.len = mcall[t].len /\ k.vec = mcall[t].vec
            /\ k.map = mcall[t].map
        BY ONLY <1>2, <3>1 DEF MapCall, MapPcs, SomeFile
      <3>3. MapCarried(k)
        BY <1>2, <3>2, MapFacts DEF MapCarried
      <3> QED
        BY <1>2, <3>2, <3>3
    <2> QED
      BY <2>1, <2>2
  <1>10. \A f \in Files : refs[f] \in Int /\ Is(exe, f) \in Nat /\ Is(mcall[t].new, f) \in Nat
    BY <1>2 DEF Is, Counts
  <1>11. ASSUME NEW f \in Files
         PROVE  refs'[f] = refs[f] + Is(k.new, f) - Is(mcall[t].new, f)
                             + Is(k.old, f) - Is(mcall[t].old, f) + Is(exe', f) - Is(exe, f)
    BY <1>1, <1>2, <1>5, <1>6, <1>7, <1>9, <1>10, NoneCounts
  <1> QED
    BY <1>1, <1>2, <1>7, <1>8, <1>9, <1>11, MapTypes, HolderStep DEF MapTyped

\* The steps of the rest of the kernel: a descriptor or a mapping comes or goes.
LEMMA OutsideStep ==
    ASSUME MapOf, UNCHANGED <<map, auxv, exe, sem, mcall, Memory!limits>>, refs' \in Counts,
           fds' \in SUBSET Files, mapped' \in SUBSET Files,
           \A f \in Files : refs'[f] = refs[f] + Within(f, fds') - Within(f, fds)
                              + Within(f, mapped') - Within(f, mapped)
    PROVE  MapOf'
  <1>0. DataLimit' = DataLimit /\ peak' = peak
    BY DEF Memory!limits
  <1>1. MapTyped'
    BY <1>0, MapTypes DEF MapTyped
  <1>2. ASSUME NEW f \in Files PROVE refs'[f] = HeldBy(f, fds', mapped', exe, mcall)
    <2>1. NewOf(f, mcall) \in Nat /\ OldOf(f, mcall) \in Nat
      <3>1. /\ {t \in Threads : mcall[t].new = f} \in SUBSET Threads
            /\ {t \in Threads : mcall[t].old = f} \in SUBSET Threads
        OBVIOUS
      <3> QED
        BY <3>1, MapFacts, FS_Subset, FS_CardinalityType DEF NewOf, OldOf
    <2>2. Is(exe, f) \in Nat /\ \A S : Within(f, S) \in Nat
      BY DEF Is, Within
    <2>3. refs[f] = Within(f, fds) + Within(f, mapped) + Is(exe, f) + NewOf(f, mcall) + OldOf(f, mcall)
      BY MapTypes DEF HeldBy
    <2> QED
      BY <2>1, <2>2, <2>3 DEF HeldBy
  <1> QED
    BY <1>0, <1>1, <1>2, MapTypes DEF MapOf, MapCarried

LEMMA OutsideKept ==
    ASSUME MapOf, NEW f \in Files,
           Memory!Open(f) \/ Memory!Close(f) \/ Memory!Mmap(f) \/ Memory!Munmap(f)
    PROVE  MapOf'
  <1>1. /\ refs \in Counts /\ f \in SomeFile /\ fds \in SUBSET Files /\ mapped \in SUBSET Files
    BY MapTypes DEF MapTyped, SomeFile
  <1>2. /\ Memory!Taken(refs, f) \in Counts /\ Memory!Put(refs, f) \in Counts
        /\ \A g \in Files : /\ Memory!Taken(refs, f)[g] = refs[g] + Is(f, g)
                            /\ Memory!Put(refs, f)[g] = refs[g] - Is(f, g)
                            /\ refs[g] \in Int
    BY <1>1, TakenIs, PutIs DEF Counts
  <1>3. CASE Memory!Open(f)
    <2>1. f \notin fds /\ fds' = fds \cup {f} /\ refs' = Memory!Taken(refs, f)
          /\ UNCHANGED <<map, auxv, exe, mapped, sem, mcall, Memory!limits>>
      BY <1>3 DEF Memory!Open
    <2>2. ASSUME NEW g \in Files
          PROVE  refs'[g] = refs[g] + Within(g, fds') - Within(g, fds)
                              + Within(g, mapped') - Within(g, mapped)
      BY <1>2, <2>1 DEF Within, Is
    <2> QED
      BY <1>1, <1>2, <2>1, <2>2, OutsideStep
  <1>4. CASE Memory!Close(f)
    <2>1. f \in fds /\ fds' = fds \ {f} /\ refs' = Memory!Put(refs, f)
          /\ UNCHANGED <<map, auxv, exe, mapped, sem, mcall, Memory!limits>>
      BY <1>4 DEF Memory!Close
    <2>2. ASSUME NEW g \in Files
          PROVE  refs'[g] = refs[g] + Within(g, fds') - Within(g, fds)
                              + Within(g, mapped') - Within(g, mapped)
      BY <1>2, <2>1 DEF Within, Is
    <2> QED
      BY <1>1, <1>2, <2>1, <2>2, OutsideStep
  <1>5. CASE Memory!Mmap(f)
    <2>1. f \notin mapped /\ mapped' = mapped \cup {f} /\ refs' = Memory!Taken(refs, f)
          /\ UNCHANGED <<map, auxv, exe, fds, sem, mcall, Memory!limits>>
      BY <1>5 DEF Memory!Mmap
    <2>2. ASSUME NEW g \in Files
          PROVE  refs'[g] = refs[g] + Within(g, fds') - Within(g, fds)
                              + Within(g, mapped') - Within(g, mapped)
      BY <1>2, <2>1 DEF Within, Is
    <2> QED
      BY <1>1, <1>2, <2>1, <2>2, OutsideStep
  <1>6. CASE Memory!Munmap(f)
    <2>1. f \in mapped /\ mapped' = mapped \ {f} /\ refs' = Memory!Put(refs, f)
          /\ UNCHANGED <<map, auxv, exe, fds, sem, mcall, Memory!limits>>
      BY <1>6 DEF Memory!Munmap
    <2>2. ASSUME NEW g \in Files
          PROVE  refs'[g] = refs[g] + Within(g, fds') - Within(g, fds)
                              + Within(g, mapped') - Within(g, mapped)
      BY <1>2, <2>1 DEF Within, Is
    <2> QED
      BY <1>1, <1>2, <2>1, <2>2, OutsideStep
  <1> QED
    BY <1>3, <1>4, <1>5, <1>6

LEMMA MapKept == MapOf /\ [Memory!Next]_(Memory!vars) => MapOf'
  <1> SUFFICES ASSUME MapOf, [Memory!Next]_(Memory!vars) PROVE MapOf'
    OBVIOUS
  <1>1. CASE UNCHANGED Memory!vars
    BY <1>1 DEF Memory!vars, Memory!limits, MapOf, MapTyped, MapCarried, HeldBy, NewOf, OldOf
  <1>2. CASE Memory!Next
    BY <1>2, AuxvSet, PairCopied, CopyEnded, ExeAsked, ExeRefused, OldGot, Scanned, Exchanged,
       MapAsked, MapWritten, FieldSet, FieldStored, OutsideKept, LimitSet
    DEF Memory!Next, Memory!Calls, Memory!Step
  <1> QED
    BY <1>1, <1>2

LEMMA MapImplies == MapOf => MapInv
  <1> SUFFICES ASSUME MapOf PROVE MapInv
    OBVIOUS
  <1>1. ASSUME NEW f \in Files PROVE refs[f] = Memory!Holds(f) /\ refs[f] \in Nat
    <2>1. NewOf(f, mcall) \in Nat /\ OldOf(f, mcall) \in Nat
      <3>1. /\ {t \in Threads : mcall[t].new = f} \in SUBSET Threads
            /\ {t \in Threads : mcall[t].old = f} \in SUBSET Threads
        OBVIOUS
      <3> QED
        BY <3>1, MapFacts, FS_Subset, FS_CardinalityType DEF NewOf, OldOf
    <2>2. Is(exe, f) \in Nat /\ Within(f, fds) \in Nat /\ Within(f, mapped) \in Nat
      BY DEF Is, Within
    <2>3. /\ Memory!Cardinality({t \in Threads : mcall[t].new = f}) = NewOf(f, mcall)
          /\ Memory!Cardinality({t \in Threads : mcall[t].old = f}) = OldOf(f, mcall)
      BY MapFacts DEF NewOf, OldOf
    <2>4. Memory!Holds(f) = HeldBy(f, fds, mapped, exe, mcall)
      <3>1. /\ (IF f = exe THEN 1 ELSE 0) = Is(exe, f)
            /\ (IF f \in fds THEN 1 ELSE 0) = Within(f, fds)
            /\ (IF f \in mapped THEN 1 ELSE 0) = Within(f, mapped)
        BY DEF Is, Within
      <3> QED
        BY <2>3, <3>1 DEF Memory!Holds, HeldBy
    <2> QED
      BY <2>1, <2>2, <2>4, MapTypes DEF HeldBy
  <1>2. Memory!TypeOK
    <2>1. refs \in [Files -> Nat]
      BY <1>1, MapTypes DEF MapTyped, Counts
    <2>2. ASSUME NEW t \in Threads
          PROVE  /\ mcall[t].pc \in MapPcs
                 /\ mcall[t].next \in 1 .. AuxWords + 1 /\ mcall[t].len \in 0 .. AuxWords
                 /\ mcall[t].new \in SomeFile /\ mcall[t].old \in SomeFile
      <3>1. /\ mcall[t].pc \in MapPcs /\ mcall[t].next \in Nat /\ mcall[t].len \in Nat
            /\ mcall[t].new \in SomeFile /\ mcall[t].old \in SomeFile
        BY MapTypes DEF MapCall
      <3>2. mcall[t].len <= AuxWords /\ 1 <= mcall[t].next /\ mcall[t].next <= mcall[t].len + 1
        BY MapTypes DEF MapCarried
      <3> QED
        BY <3>1, <3>2, MapFacts
    <2> QED
      BY <2>1, <2>2, MapTypes DEF Memory!TypeOK, MapTyped, Vector, MapPcs, SomeFile
  <1> QED
    BY <1>1, <1>2, MapTypes DEF MapInv, Memory!MapInv, Memory!MapInOrder, Memory!FilesHeld,
                                Memory!VectorEnds, Memory!NULL

\* Whoever sets the map, the file and the vector, and whoever lowers RLIMIT_DATA, at
\* whatever time: the map is in order and within a limit that there was, every
\* reference to a file is given back once, and the vector ends; for any number of
\* threads and files (prctl_set_mm, prctl_set_mm_exe_file, prctl_set_mm_map).
THEOREM MapWhole == CallsSpec => []MapInv
  BY EachPart, MapStart, MapKept, MapImplies, PTL

-----------------------------------------------------------------------------
(* setpriority and getpriority.                                            *)

Nices == MIN_NICE .. MAX_NICE
PrioPcs == {"idle", "each", "set"}
PrioCall == [pc : PrioPcs, sets : BOOLEAN, of : Targets \cup {Prio!Nothing}, left : SUBSET Tasks,
             val : Nices, ret : Int, p : Tasks \cup {Nobody}]
PrioLog == [set : SUBSET Tasks, denied : SUBSET Tasks, kept : SUBSET Tasks]

PrioTyped ==
    /\ present \in SUBSET Tasks /\ nice \in [Tasks -> Nices]
    /\ uid \in [Tasks -> Users] /\ euid \in [Tasks -> Users] /\ suid \in [Tasks -> Users]
    /\ users \in [Users -> Int] /\ pcall \in [Callers -> PrioCall]
    /\ log \in [Callers -> PrioLog] /\ lifted \in SUBSET Tasks
    /\ NiceLimits \in [Tasks -> Nat] /\ most_nice \in [Tasks -> Nat]
    /\ \A p \in Tasks : NiceLimits[p] <= most_nice[p]

\* The value n is one that p may have come to without help.
MayBe(p, n) ==
    Prio!nice_to_rlimit(n) <= Prio!Most(Prio!nice_to_rlimit(FirstNice[p]), most_nice[p])

\* A value that was let through stays one that p may have, whatever is set meanwhile.
LetThrough(c, k) ==
    k.pc = "set" => /\ k.sets /\ k.p \in Tasks
                    /\ c \in NiceCapable \/ k.p \in lifted \/ MayBe(k.p, k.val)

Answers(k, l) ==
    IF k.sets
    THEN /\ l.set = {} /\ l.denied = {} => k.ret = -3
         /\ l.set # {} /\ l.denied = {} => k.ret = 0
         /\ l.denied # {} => k.ret \in {-1, -13}
    ELSE /\ l.denied = {}
         /\ l.set = {} => k.ret = -3
         /\ l.set # {} => k.ret >= 1

Stands(k, l, n) == \A p \in l.kept : IF k.sets THEN n[p] = k.val ELSE Prio!nice_to_rlimit(n[p]) <= k.ret

PrioCarried(c, k, l) == LetThrough(c, k) /\ Answers(k, l) /\ Stands(k, l, nice)

\* The call k, whose caller's own user is own, has found u.
FoundIn(u, k, own) == /\ k.pc # "idle" /\ k.of.which = "user"
                      /\ k.of.who # own /\ k.of.who = u

\* The tasks and the calls that hold a user.
TasksHolding(u) == {p \in present : uid[p] = u}
CallsHolding(u) == {c \in Callers : FoundIn(u, pcall[c], uid[c])}

PrioOf == /\ PrioTyped
          /\ \A p \in Tasks \ lifted : MayBe(p, nice[p])
          /\ \A c \in Callers : PrioCarried(c, pcall[c], log[c])
          /\ \A u \in Users : users[u] = Cardinality(TasksHolding(u)) + Cardinality(CallsHolding(u))

LEMMA PrioFacts ==
    /\ IsFiniteSet(Tasks) /\ IsFiniteSet(Callers) /\ Callers \in SUBSET Tasks
    /\ Nobody \notin Tasks /\ MIN_NICE \in Int /\ MAX_NICE \in Int /\ 0 \in Nices
    /\ Nices \subseteq Int /\ Given \subseteq Int
    /\ FirstNice \in [Tasks -> Nices] /\ FirstSuid \in [Tasks -> Users]
    /\ FirstUid \in [Tasks -> Users] /\ FirstEuid \in [Tasks -> Users]
    /\ \A g \in Targets : g.which = "user" => g.who \in Users
    /\ Prio!Nothing.which = "process"
    /\ \A S : Prio!Cardinality(S) = Cardinality(S)
  <1>1. \A S : Prio!IsFiniteSet(S) <=> IsFiniteSet(S)
    BY DEF Prio!IsFiniteSet, IsFiniteSet
  <1>2. \A S : Prio!Cardinality(S) = Cardinality(S)
    BY DEF Prio!Cardinality, Cardinality
  <1>3. Prio!PriorityAssumption
    BY CallsAssumption
  <1>4. IsFiniteSet(Tasks) /\ Callers \in SUBSET Tasks /\ IsFiniteSet(Callers)
    BY <1>1, <1>3, FS_Subset DEF Prio!PriorityAssumption
  <1>5. \A g \in Targets : g.which = "user" => g.who \in Users
    BY <1>3 DEF Prio!PriorityAssumption
  <1>6. Prio!Nothing.which = "process"
    BY DEF Prio!Nothing
  <1> QED
    BY <1>2, <1>3, <1>4, <1>5, <1>6 DEF Prio!PriorityAssumption, Nices

\* A limit that is raised or lowered, and any value that is no better, leaves what
\* a task may have.
LEMMA MayBeStays ==
    ASSUME NEW p \in Tasks, NEW n \in Int, NEW w \in Int, NEW most \in Int,
           n <= w, most_nice[p] <= most, most_nice[p] \in Int, MayBe(p, n)
    PROVE  /\ MayBe(p, w)
           /\ Prio!nice_to_rlimit(n) <= Prio!Most(Prio!nice_to_rlimit(FirstNice[p]), most)
  <1>1. FirstNice[p] \in Int /\ MAX_NICE \in Int
    BY PrioFacts
  <1> QED
    BY <1>1 DEF MayBe, Prio!Most, Prio!nice_to_rlimit

\* "normalize".
LEMMA NormalIs == \A v \in Given : Prio!Normal(v) \in Nices
  <1> SUFFICES ASSUME NEW v \in Given PROVE Prio!Normal(v) \in Nices
    OBVIOUS
  <1>1. v \in Int /\ MIN_NICE \in Int /\ MAX_NICE \in Int /\ MIN_NICE <= MAX_NICE
    BY PrioFacts DEF Nices
  <1> QED
    BY <1>1 DEF Prio!Normal, Prio!Most, Prio!Least, Nices

LEMMA PrioTypes ==
    ASSUME PrioOf
    PROVE  /\ PrioTyped
           /\ \A p \in Tasks \ lifted : MayBe(p, nice[p])
           /\ \A c \in Callers : /\ pcall[c] \in PrioCall /\ log[c] \in PrioLog
                                 /\ LetThrough(c, pcall[c]) /\ Answers(pcall[c], log[c])
                                 /\ Stands(pcall[c], log[c], nice)
           /\ \A u \in Users : users[u] = Cardinality(TasksHolding(u)) + Cardinality(CallsHolding(u))
  BY DEF PrioOf, PrioTyped, PrioCarried

LEMMA PrioIdle ==
    /\ Prio!Idle \in PrioCall /\ Prio!NoLog \in PrioLog
    /\ Prio!Idle.pc = "idle" /\ Prio!Idle.ret = -3 /\ Prio!Idle.p = Nobody
    /\ Prio!NoLog.set = {} /\ Prio!NoLog.denied = {} /\ Prio!NoLog.kept = {}
    /\ \A c, n : LetThrough(c, Prio!Idle) /\ Answers(Prio!Idle, Prio!NoLog)
                 /\ Stands(Prio!Idle, Prio!NoLog, n)
    /\ \A u, own : ~FoundIn(u, Prio!Idle, own)
  <1>1. Prio!Idle \in PrioCall
    BY PrioFacts DEF Prio!Idle, PrioCall, PrioPcs, Prio!ESRCH
  <1>2. Prio!NoLog \in PrioLog
    BY DEF Prio!NoLog, PrioLog
  <1>3. Prio!Idle.pc = "idle" /\ Prio!Idle.ret = -3 /\ Prio!Idle.p = Nobody
    BY DEF Prio!Idle, Prio!ESRCH
  <1>4. Prio!NoLog.set = {} /\ Prio!NoLog.denied = {} /\ Prio!NoLog.kept = {}
    BY DEF Prio!NoLog
  <1>5. ASSUME NEW c PROVE LetThrough(c, Prio!Idle)
    BY <1>3 DEF LetThrough
  <1>6. Answers(Prio!Idle, Prio!NoLog)
    BY <1>3, <1>4 DEF Answers
  <1>7. ASSUME NEW n PROVE Stands(Prio!Idle, Prio!NoLog, n)
    BY <1>4 DEF Stands
  <1>8. ASSUME NEW u, NEW own PROVE ~FoundIn(u, Prio!Idle, own)
    BY <1>3 DEF FoundIn
  <1> QED
    BY <1>1, <1>2, <1>3, <1>4, <1>5, <1>6, <1>7, <1>8

LEMMA PrioStart == Prio!Init => PrioOf
  <1> SUFFICES ASSUME Prio!Init PROVE PrioOf
    OBVIOUS
  <1>1. /\ present = Tasks /\ nice = FirstNice /\ uid = FirstUid /\ euid = FirstEuid
        /\ suid = FirstSuid /\ NiceLimits \in [Tasks -> Nat] /\ most_nice = NiceLimits
        /\ users = [u \in Users |-> Cardinality({p \in Tasks : FirstUid[p] = u})]
        /\ pcall = [c \in Callers |-> Prio!Idle] /\ log = [c \in Callers |-> Prio!NoLog]
        /\ lifted = {}
    BY PrioFacts DEF Prio!Init
  <1>2. \A u : Cardinality({p \in Tasks : FirstUid[p] = u}) \in Nat
    <2>1. ASSUME NEW u PROVE {p \in Tasks : FirstUid[p] = u} \in SUBSET Tasks
      OBVIOUS
    <2> QED
      BY <2>1, PrioFacts, FS_Subset, FS_CardinalityType
  <1>3. PrioTyped
    <2>1. pcall \in [Callers -> PrioCall] /\ log \in [Callers -> PrioLog]
      BY <1>1, PrioIdle
    <2>2. \A u \in Users : Cardinality({p \in Tasks : FirstUid[p] = u}) \in Int
      BY <1>2
    <2>3. users \in [Users -> Int]
      BY ONLY <1>1, <2>2
    <2>4. \A p \in Tasks : NiceLimits[p] <= most_nice[p]
      BY <1>1
    <2> QED
      BY <1>1, <2>1, <2>3, <2>4, PrioFacts DEF PrioTyped
  <1>4. ASSUME NEW u \in Users
        PROVE  users[u] = Cardinality(TasksHolding(u)) + Cardinality(CallsHolding(u))
    <2>1. TasksHolding(u) = {p \in Tasks : FirstUid[p] = u}
      BY <1>1 DEF TasksHolding
    <2>2. CallsHolding(u) = {}
      BY <1>1, PrioIdle DEF CallsHolding
    <2>3. users[u] = Cardinality({p \in Tasks : FirstUid[p] = u})
      BY <1>1
    <2>4. Cardinality(CallsHolding(u)) = 0
      BY <2>2, FS_EmptySet
    <2>5. users[u] \in Nat /\ users[u] = Cardinality(TasksHolding(u))
      BY <1>2, <2>1, <2>3
    <2> QED
      BY <2>4, <2>5
  <1>5. ASSUME NEW p \in Tasks PROVE MayBe(p, nice[p])
    <2>1. FirstNice[p] \in Int /\ MAX_NICE \in Int
      BY PrioFacts
    <2>2. most_nice[p] \in Int
      BY <1>3 DEF PrioTyped
    <2>3. nice[p] = FirstNice[p]
      BY <1>1
    <2> QED
      BY <2>1, <2>2, <2>3 DEF MayBe, Prio!Most, Prio!nice_to_rlimit
  <1>6. \A c \in Callers : PrioCarried(c, pcall[c], log[c])
    BY <1>1, PrioIdle DEF PrioCarried
  <1> QED
    BY <1>3, <1>4, <1>5, <1>6 DEF PrioOf

\* A hold of u by the call k of a caller whose own user is own.
FoundOnce(u, k, own) == IF FoundIn(u, k, own) THEN 1 ELSE 0

\* A step of the call of c that leaves the tasks as they are.
LEMMA CallerStep ==
    ASSUME PrioOf, NEW c \in Callers, NEW k \in PrioCall, NEW l \in PrioLog,
           pcall' = [pcall EXCEPT ![c] = k], log' = [log EXCEPT ![c] = l],
           UNCHANGED <<present, nice, uid, euid, suid, lifted, NiceLimits, most_nice>>,
           users' \in [Users -> Int],
           LetThrough(c, k), Answers(k, l), Stands(k, l, nice),
           \A u \in Users : users'[u] = users[u] + FoundOnce(u, k, uid[c])
                                                 - FoundOnce(u, pcall[c], uid[c])
    PROVE  PrioOf'
  <1>1. pcall'[c] = k /\ log'[c] = l
        /\ \A d \in Callers \ {c} : pcall'[d] = pcall[d] /\ log'[d] = log[d]
    BY PrioTypes DEF PrioTyped
  <1>2. PrioTyped'
    <2>1. pcall' \in [Callers -> PrioCall] /\ log' \in [Callers -> PrioLog]
      BY PrioTypes DEF PrioTyped
    <2> QED
      BY <2>1, PrioTypes DEF PrioTyped
  <1>3. ASSUME NEW d \in Callers PROVE PrioCarried(d, pcall[d], log[d])'
    <2>1. LetThrough(d, pcall'[d]) /\ Answers(pcall'[d], log'[d]) /\ Stands(pcall'[d], log'[d], nice)
      BY <1>1, PrioTypes
    <2>2. nice' = nice /\ lifted' = lifted
      OBVIOUS
    <2> QED
      BY <2>1, <2>2 DEF PrioCarried, LetThrough, Answers, Stands, MayBe
  <1>4. ASSUME NEW u \in Users
        PROVE  users'[u] = Cardinality(TasksHolding(u)') + Cardinality(CallsHolding(u)')
    <2>1. PICK S : S = CallsHolding(u)
      OBVIOUS
    <2>2. PICK T : T = CallsHolding(u)'
      OBVIOUS
    <2>3. /\ S \in SUBSET Callers /\ T \in SUBSET Callers /\ S \ {c} = T \ {c}
          /\ (c \in S <=> FoundIn(u, pcall[c], uid[c])) /\ (c \in T <=> FoundIn(u, k, uid[c]))
      <3>1. \A d \in Callers : d \in S <=> FoundIn(u, pcall[d], uid[d])
        BY <2>1 DEF CallsHolding
      <3>2. T = {d \in Callers : FoundIn(u, pcall'[d], uid[d])}
        BY <2>2 DEF CallsHolding, FoundIn
      <3>3. \A d \in Callers : d \in T <=> FoundIn(u, pcall'[d], uid[d])
        BY <3>2
      <3>4. S \in SUBSET Callers
        BY <2>1 DEF CallsHolding
      <3>5. T \in SUBSET Callers
        BY <3>2
      <3>6. \A d \in Callers \ {c} : d \in S <=> d \in T
        BY <1>1, <3>1, <3>3
      <3> QED
        BY <1>1, <3>1, <3>3, <3>4, <3>5, <3>6
    <2>4. IsFiniteSet(Callers)
      BY PrioFacts
    <2>5. /\ Cardinality(S) \in Nat /\ Cardinality(T) \in Nat
          /\ Cardinality(T) = Cardinality(S) - Within(c, S) + Within(c, T)
      BY ONLY <2>3, <2>4, OneAsked
    <2>6. /\ Within(c, S) = FoundOnce(u, pcall[c], uid[c])
          /\ Within(c, T) = FoundOnce(u, k, uid[c])
      BY <2>3 DEF Within, FoundOnce
    <2>7. PICK n : n = Cardinality(TasksHolding(u))
      OBVIOUS
    <2>8. n \in Nat /\ Cardinality(TasksHolding(u)') = n
      <3>1. TasksHolding(u)' = TasksHolding(u) /\ TasksHolding(u) \in SUBSET Tasks
        BY PrioTypes DEF TasksHolding, PrioTyped
      <3> QED
        BY <2>7, <3>1, PrioFacts, FS_Subset, FS_CardinalityType
    <2>9. users[u] = n + Cardinality(S)
      BY <2>1, <2>7, PrioTypes
    <2>10. FoundOnce(u, pcall[c], uid[c]) \in Nat /\ FoundOnce(u, k, uid[c]) \in Nat
      BY DEF FoundOnce
    <2> QED
      BY <2>2, <2>5, <2>6, <2>8, <2>9, <2>10
  <1>5. \A p \in Tasks \ lifted' : MayBe(p, nice[p])'
    BY PrioTypes DEF MayBe
  <1> QED
    BY <1>2, <1>3, <1>4, <1>5 DEF PrioOf

\* A step that leaves what the call has found.
LEMMA LoopStep ==
    ASSUME PrioOf, NEW c \in Callers, NEW k \in PrioCall, NEW l \in PrioLog,
           pcall' = [pcall EXCEPT ![c] = k], log' = [log EXCEPT ![c] = l],
           UNCHANGED <<present, nice, uid, euid, suid, lifted, users, NiceLimits, most_nice>>,
           LetThrough(c, k), Answers(k, l), Stands(k, l, nice),
           k.of = pcall[c].of, k.pc # "idle", pcall[c].pc # "idle"
    PROVE  PrioOf'
  <1>1. ASSUME NEW u \in Users
        PROVE  users'[u] = users[u] + FoundOnce(u, k, uid[c]) - FoundOnce(u, pcall[c], uid[c])
    <2>1. FoundOnce(u, k, uid[c]) = FoundOnce(u, pcall[c], uid[c]) /\ FoundOnce(u, k, uid[c]) \in Nat
      BY DEF FoundOnce, FoundIn
    <2>2. users[u] \in Int
      BY PrioTypes DEF PrioTyped
    <2> QED
      BY <2>1, <2>2
  <1>2. users' \in [Users -> Int]
    BY PrioTypes DEF PrioTyped
  <1> QED
    BY <1>1, <1>2, CallerStep

LEMMA Skipped == ASSUME PrioOf, NEW c \in Callers, Prio!Skip(c) PROVE PrioOf'
  <1>1. PICK p \in pcall[c].left :
          /\ pcall[c].pc = "each" /\ pcall' = [pcall EXCEPT ![c].left = @ \ {p}]
          /\ UNCHANGED <<present, nice, uid, euid, suid, users, log, lifted, NiceLimits, most_nice>>
    BY DEF Prio!Skip, Prio!At, Prio!ids, Prio!limits
  <1>2. PICK S : S = pcall[c].left \ {p}
    OBVIOUS
  <1>3. PICK k : k = [pcall[c] EXCEPT !.left = S]
    OBVIOUS
  <1>4. pcall[c] \in PrioCall /\ log[c] \in PrioLog /\ S \in SUBSET Tasks
    BY <1>2, PrioTypes DEF PrioCall
  <1>5. /\ pcall' = [pcall EXCEPT ![c] = k] /\ log' = [log EXCEPT ![c] = log[c]]
    BY <1>1, <1>2, <1>3, PrioTypes DEF PrioTyped
  <1>6. /\ k \in PrioCall /\ k.pc = pcall[c].pc /\ k.sets = pcall[c].sets /\ k.of = pcall[c].of
        /\ k.val = pcall[c].val /\ k.ret = pcall[c].ret /\ k.p = pcall[c].p
    BY ONLY <1>3, <1>4 DEF PrioCall
  <1>7. LetThrough(c, k)
    BY <1>1, <1>6 DEF LetThrough
  <1>8. Answers(k, log[c])
    BY <1>6, PrioTypes DEF Answers
  <1>9. Stands(k, log[c], nice)
    BY <1>6, PrioTypes DEF Stands
  <1> QED
    BY <1>1, <1>4, <1>5, <1>6, <1>7, <1>8, <1>9, LoopStep

\* set_one_prio refuses a task.
LEMMA Denied ==
    ASSUME PrioOf, NEW c \in Callers, NEW p \in pcall[c].left, NEW err \in {-1, -13},
           pcall[c].pc = "each", pcall[c].sets, Prio!Deny(c, p, err)
    PROVE  PrioOf'
  <1>1. /\ pcall' = [pcall EXCEPT ![c].left = @ \ {p}, ![c].ret = err]
        /\ log' = [log EXCEPT ![c].denied = @ \cup {p}]
        /\ UNCHANGED <<present, nice, uid, euid, suid, users, lifted, NiceLimits, most_nice>>
    BY DEF Prio!Deny, Prio!ids, Prio!limits
  <1>2. PICK S : S = pcall[c].left \ {p}
    OBVIOUS
  <1>3. PICK D : D = log[c].denied \cup {p}
    OBVIOUS
  <1>4. PICK k : k = [pcall[c] EXCEPT !.left = S, !.ret = err]
    OBVIOUS
  <1>5. PICK l : l = [log[c] EXCEPT !.denied = D]
    OBVIOUS
  <1>6. /\ pcall[c] \in PrioCall /\ log[c] \in PrioLog /\ S \in SUBSET Tasks
        /\ D \in SUBSET Tasks /\ D # {} /\ err \in Int
    <2>1. pcall[c].left \in SUBSET Tasks /\ log[c].denied \in SUBSET Tasks
      BY PrioTypes DEF PrioCall, PrioLog
    <2> QED
      BY <1>2, <1>3, <2>1, PrioTypes
  <1>7. pcall' = [pcall EXCEPT ![c] = k]
    BY <1>1, <1>2, <1>4, PrioTypes DEF PrioTyped
  <1>8. log' = [log EXCEPT ![c] = l]
    BY <1>1, <1>3, <1>5, PrioTypes DEF PrioTyped
  <1>9. /\ k \in PrioCall /\ k.pc = pcall[c].pc /\ k.sets = pcall[c].sets /\ k.of = pcall[c].of
        /\ k.val = pcall[c].val /\ k.ret = err
    BY ONLY <1>4, <1>6 DEF PrioCall
  <1>10. l \in PrioLog /\ l.denied = D /\ l.kept = log[c].kept
    BY ONLY <1>5, <1>6 DEF PrioLog
  <1>11. LetThrough(c, k)
    BY <1>9 DEF LetThrough
  <1>12. Answers(k, l)
    BY <1>6, <1>9, <1>10 DEF Answers
  <1>13. Stands(k, l, nice)
    BY <1>9, <1>10, PrioTypes DEF Stands
  <1> QED
    BY <1>1, <1>7, <1>8, <1>9, <1>10, <1>11, <1>12, <1>13, LoopStep

\* set_one_prio up to set_user_nice: a value is let through if the task may have it.
LEMMA Checked == ASSUME PrioOf, NEW c \in Callers, Prio!Check(c) PROVE PrioOf'
  <1>1. PICK p \in pcall[c].left :
          /\ pcall[c].pc = "each" /\ pcall[c].sets
          /\ \/ Prio!Deny(c, p, -1)
             \/ Prio!Deny(c, p, -13)
             \/ /\ Prio!MayNice(c, p) /\ pcall' = [pcall EXCEPT ![c].pc = "set", ![c].p = p]
                /\ UNCHANGED <<present, nice, uid, euid, suid, users, log, lifted, NiceLimits, most_nice>>
    BY DEF Prio!Check, Prio!At, Prio!EPERM, Prio!EACCES, Prio!ids, Prio!limits
  <1>2. CASE Prio!Deny(c, p, -1) \/ Prio!Deny(c, p, -13)
    BY <1>1, <1>2, Denied
  <1>3. CASE /\ Prio!MayNice(c, p) /\ pcall' = [pcall EXCEPT ![c].pc = "set", ![c].p = p]
             /\ UNCHANGED <<present, nice, uid, euid, suid, users, log, lifted, NiceLimits, most_nice>>
    <2>1. PICK k : k = [pcall[c] EXCEPT !.pc = "set", !.p = p]
      OBVIOUS
    <2>2. pcall[c] \in PrioCall /\ log[c] \in PrioLog /\ p \in Tasks
      BY PrioTypes DEF PrioCall
    <2>3. /\ pcall' = [pcall EXCEPT ![c] = k] /\ log' = [log EXCEPT ![c] = log[c]]
      BY <1>3, <2>1, PrioTypes DEF PrioTyped
    <2>4. /\ k \in PrioCall /\ k.pc = "set" /\ k.sets = pcall[c].sets /\ k.of = pcall[c].of
          /\ k.val = pcall[c].val /\ k.ret = pcall[c].ret /\ k.p = p
      BY ONLY <2>1, <2>2 DEF PrioCall, PrioPcs
    <2>5. c \in NiceCapable \/ p \in lifted \/ MayBe(p, pcall[c].val)
      <3>1. /\ pcall[c].val \in Int /\ nice[p] \in Int /\ MAX_NICE \in Int /\ FirstNice[p] \in Int
            /\ NiceLimits[p] \in Nat /\ most_nice[p] \in Nat /\ NiceLimits[p] <= most_nice[p]
        BY <2>2, PrioTypes, PrioFacts DEF PrioCall, PrioTyped
      <3>2. CASE pcall[c].val < nice[p]
        <4>1. c \in NiceCapable \/ Prio!nice_to_rlimit(pcall[c].val) <= NiceLimits[p]
          BY <1>3, <3>2 DEF Prio!MayNice
        <4> QED
          BY <3>1, <4>1 DEF MayBe, Prio!Most, Prio!nice_to_rlimit
      <3>3. CASE ~(pcall[c].val < nice[p])
        <4>1. p \in lifted \/ MayBe(p, nice[p])
          BY <2>2, PrioTypes
        <4>2. nice[p] <= pcall[c].val
          BY <3>1, <3>3
        <4>3. CASE MayBe(p, nice[p])
          BY ONLY <2>2, <3>1, <4>2, <4>3, MayBeStays
        <4> QED
          BY <4>1, <4>3
      <3> QED
        BY <3>2, <3>3
    <2>6. LetThrough(c, k)
      BY <1>1, <2>2, <2>4, <2>5 DEF LetThrough
    <2>7. Answers(k, log[c])
      BY <2>4, PrioTypes DEF Answers
    <2>8. Stands(k, log[c], nice)
      BY <2>4, PrioTypes DEF Stands
    <2> QED
      BY <1>1, <1>3, <2>2, <2>3, <2>4, <2>6, <2>7, <2>8, LoopStep
  <1> QED
    BY <1>1, <1>2, <1>3

\* getpriority looks at a task.
LEMMA Looked == ASSUME PrioOf, NEW c \in Callers, Prio!Look(c) PROVE PrioOf'
  <1>1. PICK p \in pcall[c].left :
          /\ pcall[c].pc = "each" /\ ~pcall[c].sets
          /\ pcall' = [pcall EXCEPT ![c].left = @ \ {p},
                                    ![c].ret = Prio!Best(@, Prio!nice_to_rlimit(nice[p]))]
          /\ log' = [log EXCEPT ![c].set = @ \cup {p}, ![c].kept = @ \cup {p}]
          /\ UNCHANGED <<present, nice, uid, euid, suid, users, lifted, NiceLimits, most_nice>>
    BY DEF Prio!Look, Prio!At, Prio!ids, Prio!limits
  <1>2. PICK S : S = pcall[c].left \ {p}
    OBVIOUS
  <1>3. PICK D : D = log[c].set \cup {p}
    OBVIOUS
  <1>4. PICK K : K = log[c].kept \cup {p}
    OBVIOUS
  <1>5. PICK r : r = Prio!Best(pcall[c].ret, Prio!nice_to_rlimit(nice[p]))
    OBVIOUS
  <1>6. PICK k : k = [pcall[c] EXCEPT !.left = S, !.ret = r]
    OBVIOUS
  <1>7. PICK l : l = [log[c] EXCEPT !.set = D, !.kept = K]
    OBVIOUS
  <1>8. /\ pcall[c] \in PrioCall /\ log[c] \in PrioLog /\ S \in SUBSET Tasks /\ p \in Tasks
        /\ D \in SUBSET Tasks /\ D # {} /\ K \in SUBSET Tasks
    <2>1. /\ pcall[c].left \in SUBSET Tasks /\ log[c].set \in SUBSET Tasks
          /\ log[c].kept \in SUBSET Tasks
      BY PrioTypes DEF PrioCall, PrioLog
    <2> QED
      BY <1>2, <1>3, <1>4, <2>1, PrioTypes
  <1>9. /\ r \in Int /\ r >= 1 /\ r >= pcall[c].ret /\ Prio!nice_to_rlimit(nice[p]) <= r
        /\ pcall[c].ret \in Int
    <2>1. nice[p] \in Nices /\ MIN_NICE \in Int /\ MAX_NICE \in Int /\ pcall[c].ret \in Int
      BY <1>8, PrioTypes, PrioFacts DEF PrioTyped, PrioCall
    <2> QED
      BY <1>5, <2>1 DEF Prio!Best, Prio!Most, Prio!nice_to_rlimit, Nices
  <1>10. pcall' = [pcall EXCEPT ![c] = k]
    BY <1>1, <1>2, <1>5, <1>6, PrioTypes DEF PrioTyped
  <1>11. log' = [log EXCEPT ![c] = l]
    BY <1>1, <1>3, <1>4, <1>7, PrioTypes DEF PrioTyped
  <1>12. /\ k \in PrioCall /\ k.pc = pcall[c].pc /\ k.sets = pcall[c].sets /\ k.of = pcall[c].of
         /\ k.val = pcall[c].val /\ k.ret = r
    BY ONLY <1>6, <1>8, <1>9 DEF PrioCall
  <1>13. l \in PrioLog /\ l.set = D /\ l.denied = log[c].denied /\ l.kept = K
    BY ONLY <1>7, <1>8 DEF PrioLog
  <1>14. LetThrough(c, k)
    BY <1>1, <1>12 DEF LetThrough
  <1>15. Answers(k, l)
    <2>1. log[c].denied = {}
      BY <1>1, PrioTypes DEF Answers
    <2> QED
      BY <1>1, <1>8, <1>9, <1>12, <1>13, <2>1 DEF Answers
  <1>16. Stands(k, l, nice)
    <2>1. ASSUME NEW q \in K PROVE Prio!nice_to_rlimit(nice[q]) <= r
      <3>1. CASE q = p
        BY <1>9, <3>1
      <3>2. CASE q \in log[c].kept
        <4>1. Prio!nice_to_rlimit(nice[q]) <= pcall[c].ret
          BY <1>1, <3>2, PrioTypes DEF Stands
        <4>2. nice[q] \in Int /\ MAX_NICE \in Int
          BY <1>8, PrioTypes, PrioFacts DEF PrioTyped
        <4> QED
          BY <1>9, <4>1, <4>2 DEF Prio!nice_to_rlimit
      <3> QED
        BY <1>4, <3>1, <3>2
    <2> QED
      BY <1>1, <1>12, <1>13, <2>1 DEF Stands
  <1> QED
    BY <1>1, <1>10, <1>11, <1>12, <1>13, <1>14, <1>15, <1>16, LoopStep

\* set_user_nice: of the calls that have dealt with the task, those that find its
\* value changed no longer answer for it.
LEMMA NiceSet == ASSUME PrioOf, NEW c \in Callers, Prio!Set(c) PROVE PrioOf'
  <1>1. PICK p : p = pcall[c].p
    OBVIOUS
  <1>2. PICK v : v = pcall[c].val
    OBVIOUS
  <1>3. /\ pcall[c].pc = "set" /\ nice' = [nice EXCEPT ![p] = v]
        /\ pcall' = [pcall EXCEPT ![c].pc = "each", ![c].p = Nobody,
                                  ![c].left = @ \ {p}, ![c].ret = Prio!Answer(@)]
        /\ log' = [d \in Callers |->
              IF d = c THEN [log[c] EXCEPT !.set = @ \cup {p}, !.kept = @ \cup {p}]
                       ELSE IF nice[p] = v THEN log[d] ELSE Prio!Changed(log[d], p)]
        /\ lifted' = IF c \in NiceCapable THEN lifted \cup {p} ELSE lifted
        /\ UNCHANGED <<present, uid, euid, suid, users, NiceLimits, most_nice>>
    BY <1>1, <1>2 DEF Prio!Set, Prio!At, Prio!ids, Prio!limits
  <1>4. PICK S : S = pcall[c].left \ {p}
    OBVIOUS
  <1>5. PICK D : D = log[c].set \cup {p}
    OBVIOUS
  <1>6. PICK K : K = log[c].kept \cup {p}
    OBVIOUS
  <1>7. PICK r : r = Prio!Answer(pcall[c].ret)
    OBVIOUS
  <1>8. PICK k : k = [pcall[c] EXCEPT !.pc = "each", !.p = Nobody, !.left = S, !.ret = r]
    OBVIOUS
  <1>9. PICK l : l = [log[c] EXCEPT !.set = D, !.kept = K]
    OBVIOUS
  <1>10. /\ pcall[c] \in PrioCall /\ log[c] \in PrioLog /\ LetThrough(c, pcall[c])
         /\ Answers(pcall[c], log[c]) /\ Stands(pcall[c], log[c], nice)
    BY PrioTypes
  <1>11. /\ p \in Tasks /\ pcall[c].sets
         /\ c \in NiceCapable \/ p \in lifted \/ MayBe(p, v)
    BY <1>1, <1>2, <1>3, <1>10 DEF LetThrough
  <1>12. /\ S \in SUBSET Tasks /\ D \in SUBSET Tasks /\ D # {} /\ K \in SUBSET Tasks
         /\ v \in Nices /\ r \in Int
    <2>1. /\ pcall[c].left \in SUBSET Tasks /\ log[c].set \in SUBSET Tasks
          /\ log[c].kept \in SUBSET Tasks /\ pcall[c].val \in Nices /\ pcall[c].ret \in Int
      BY <1>10 DEF PrioCall, PrioLog
    <2> QED
      BY <1>2, <1>4, <1>5, <1>6, <1>7, <1>11, <2>1 DEF Prio!Answer
  <1>13. /\ k \in PrioCall /\ k.pc = "each" /\ k.sets = pcall[c].sets /\ k.of = pcall[c].of
         /\ k.val = pcall[c].val /\ k.ret = r
    BY ONLY <1>8, <1>10, <1>12 DEF PrioCall, PrioPcs
  <1>14. l \in PrioLog /\ l.set = D /\ l.denied = log[c].denied /\ l.kept = K
    BY ONLY <1>9, <1>10, <1>12 DEF PrioLog
  <1>15. pcall' = [pcall EXCEPT ![c] = k]
    BY <1>3, <1>4, <1>7, <1>8, PrioTypes DEF PrioTyped
  <1>16. log'[c] = l
    BY <1>3, <1>5, <1>6, <1>9
  <1>17. ASSUME NEW d \in Callers \ {c}
         PROVE  /\ log'[d] \in PrioLog /\ log'[d].set = log[d].set
                /\ log'[d].denied = log[d].denied /\ log'[d].kept \subseteq log[d].kept
                /\ p \in log'[d].kept => nice[p] = v
    <2>1. log[d] \in PrioLog
      BY PrioTypes
    <2>2. CASE nice[p] = v
      BY <1>3, <2>1, <2>2
    <2>3. CASE nice[p] # v
      <3>1. PICK L : L = log[d].kept \ {p}
        OBVIOUS
      <3>2. log'[d] = [log[d] EXCEPT !.kept = L]
        BY <1>3, <2>3, <3>1 DEF Prio!Changed
      <3>3. log[d].kept \in SUBSET Tasks /\ L \in SUBSET Tasks
        BY <2>1, <3>1 DEF PrioLog
      <3>4. /\ log'[d] \in PrioLog /\ log'[d].set = log[d].set
            /\ log'[d].denied = log[d].denied /\ log'[d].kept = L
        BY ONLY <2>1, <3>2, <3>3 DEF PrioLog
      <3> QED
        BY <3>1, <3>4
    <2> QED
      BY <2>2, <2>3
  <1>18. pcall'[c] = k /\ \A d \in Callers \ {c} : pcall'[d] = pcall[d]
    BY <1>15, PrioTypes DEF PrioTyped
  <1>19. nice'[p] = v /\ \A q \in Tasks \ {p} : nice'[q] = nice[q]
    BY <1>3, <1>11, PrioTypes DEF PrioTyped
  <1>20. PrioTyped'
    <2>1. pcall' \in [Callers -> PrioCall]
      BY <1>13, <1>15, PrioTypes DEF PrioTyped
    <2>2. log' \in [Callers -> PrioLog]
      <3>1. log' = [d \in Callers |-> log'[d]]
        BY <1>3
      <3>2. \A d \in Callers : log'[d] \in PrioLog
        BY <1>14, <1>16, <1>17
      <3> QED
        BY ONLY <3>1, <3>2
    <2>3. nice' \in [Tasks -> Nices]
      BY <1>3, <1>12, PrioTypes DEF PrioTyped
    <2>4. lifted' \in SUBSET Tasks
      BY <1>3, <1>11, PrioTypes DEF PrioTyped
    <2> QED
      BY <1>3, <2>1, <2>2, <2>3, <2>4, PrioTypes DEF PrioTyped
  <1>21. ASSUME NEW q \in Tasks \ lifted' PROVE MayBe(q, nice'[q])
    <2>1. q \notin lifted
      BY <1>3
    <2>2. CASE q = p
      <3>1. c \notin NiceCapable
        BY <1>3, <2>2
      <3> QED
        BY <1>11, <1>19, <2>1, <2>2, <3>1
    <2> QED
      BY <1>19, <2>1, <2>2, PrioTypes
  <1>22. ASSUME NEW d \in Callers PROVE PrioCarried(d, pcall[d], log[d])'
    <2>1. CASE d = c
      <3>1. Answers(k, l)
        BY <1>7, <1>10, <1>11, <1>12, <1>13, <1>14, PrioFacts DEF Answers, Prio!Answer, Prio!ESRCH
      <3>2. ASSUME NEW q \in K PROVE nice'[q] = v
        <4>1. q = p \/ q \in log[c].kept
          BY <1>6
        <4>2. CASE q # p
          BY <1>2, <1>10, <1>11, <1>12, <1>19, <4>1, <4>2 DEF Stands
        <4> QED
          BY <1>19, <4>2
      <3>3. k.sets /\ k.val = v /\ l.kept = K
        BY <1>2, <1>11, <1>13, <1>14
      <3>4. Stands(k, l, nice')
        BY <3>2, <3>3 DEF Stands
      <3>5. pcall'[d] = k /\ log'[d] = l /\ k.pc # "set"
        BY <1>13, <1>16, <1>18, <2>1
      <3> QED
        BY <3>1, <3>4, <3>5 DEF PrioCarried, LetThrough, Answers, Stands
    <2>2. CASE d # c
      <3>1. /\ pcall'[d] = pcall[d] /\ log'[d] \in PrioLog /\ log'[d].set = log[d].set
            /\ log'[d].denied = log[d].denied /\ log'[d].kept \subseteq log[d].kept
            /\ p \in log'[d].kept => nice[p] = v
        BY <1>17, <1>18, <2>2
      <3>2. /\ LetThrough(d, pcall[d]) /\ Answers(pcall[d], log[d])
            /\ Stands(pcall[d], log[d], nice)
        BY PrioTypes
      <3>3. lifted \subseteq lifted'
        BY <1>3
      <3>4. LetThrough(d, pcall[d])'
        BY <1>3, <3>1, <3>2, <3>3 DEF LetThrough, MayBe
      <3>5. Answers(pcall[d], log[d])'
        BY <3>1, <3>2 DEF Answers
      <3>6. ASSUME NEW q \in log'[d].kept PROVE nice'[q] = nice[q] /\ q \in log[d].kept
        BY <1>12, <1>19, <3>1 DEF PrioLog
      <3>7. Stands(pcall[d], log[d], nice)'
        BY <3>1, <3>2, <3>6 DEF Stands
      <3> QED
        BY <3>4, <3>5, <3>7 DEF PrioCarried
    <2> QED
      BY <2>1, <2>2
  <1>23. ASSUME NEW u \in Users
         PROVE  users'[u] = Cardinality(TasksHolding(u)') + Cardinality(CallsHolding(u)')
    <2>1. TasksHolding(u)' = TasksHolding(u)
      BY <1>3 DEF TasksHolding
    <2>2. ASSUME NEW d \in Callers
          PROVE  FoundIn(u, pcall'[d], uid'[d]) <=> FoundIn(u, pcall[d], uid[d])
      <3>1. pcall'[d].of = pcall[d].of /\ (pcall'[d].pc = "idle" <=> pcall[d].pc = "idle")
        BY <1>3, <1>13, <1>18
      <3> QED
        BY <1>3, <3>1 DEF FoundIn
    <2>3. CallsHolding(u)' = CallsHolding(u)
      BY <2>2 DEF CallsHolding
    <2> QED
      BY <1>3, <2>1, <2>3, PrioTypes
  <1> QED
    BY <1>3, <1>20, <1>21, <1>22, <1>23 DEF PrioOf, MayBe

\* The user a call finds or lets go of, counted.
LEMMA FoundIs ==
    ASSUME PrioOf, NEW c \in Callers, NEW k \in PrioCall, k.pc # "idle", NEW u \in Users
    PROVE  /\ FoundOnce(u, k, uid[c]) = IF Prio!Found(c, k.of) /\ k.of.who = u THEN 1 ELSE 0
           /\ Prio!Found(c, k.of) => k.of.who \in Users
  <1>1. Prio!Found(c, k.of) <=> k.of.which = "user" /\ k.of.who # uid[c]
    BY DEF Prio!Found
  <1>2. k.of.which = "user" => k.of.who \in Users
    <2>1. k.of \in Targets \cup {Prio!Nothing}
      BY DEF PrioCall
    <2>2. k.of = Prio!Nothing => k.of.which # "user"
      BY PrioFacts
    <2> QED
      BY <2>1, <2>2, PrioFacts
  <1> QED
    BY <1>1, <1>2 DEF FoundOnce, FoundIn

LEMMA PrioBegun ==
    ASSUME PrioOf, NEW c \in Callers, NEW sets \in BOOLEAN, NEW g \in Targets, NEW v \in Nices,
           Prio!Begin(c, sets, g, v)
    PROVE  PrioOf'
  <1>1. /\ pcall[c].pc = "idle"
        /\ users' = IF Prio!Found(c, g) THEN [users EXCEPT ![g.who] = @ + 1] ELSE users
        /\ pcall' = [pcall EXCEPT ![c] = [Prio!Idle EXCEPT !.pc = "each", !.sets = sets,
                        !.of = g, !.left = Prio!Listed(g), !.val = v]]
        /\ log' = [log EXCEPT ![c] = Prio!NoLog]
        /\ UNCHANGED <<present, nice, uid, euid, suid, lifted, NiceLimits, most_nice>>
    BY DEF Prio!Begin, Prio!At, Prio!ids, Prio!limits
  <1>2. PICK S : S = Prio!Listed(g)
    OBVIOUS
  <1>3. S \in SUBSET Tasks
    <2>1. g.which \in {"process", "group", "user"}
      BY CallsAssumption DEF Prio!PriorityAssumption
    <2>2. present \in SUBSET Tasks
      BY PrioTypes DEF PrioTyped
    <2> QED
      BY <1>2, <2>1, <2>2 DEF Prio!Listed
  <1>4. PICK k : k = [Prio!Idle EXCEPT !.pc = "each", !.sets = sets, !.of = g, !.left = S, !.val = v]
    OBVIOUS
  <1>5. pcall' = [pcall EXCEPT ![c] = k]
    BY <1>1, <1>2, <1>4
  <1>6. /\ k \in PrioCall /\ k.pc = "each" /\ k.of = g /\ k.ret = -3
    <2>1. Prio!Idle \in PrioCall /\ Prio!Idle.ret = -3
      BY PrioIdle
    <2> QED
      BY ONLY <1>3, <1>4, <2>1 DEF PrioCall, PrioPcs
  <1>7. LetThrough(c, k)
    BY <1>6 DEF LetThrough
  <1>8. Answers(k, Prio!NoLog)
    BY <1>6, PrioIdle DEF Answers
  <1>9. Stands(k, Prio!NoLog, nice)
    BY PrioIdle DEF Stands
  <1>10. users \in [Users -> Int]
    BY PrioTypes DEF PrioTyped
  <1>11. Prio!Found(c, g) => g.who \in Users
    BY <1>6, PrioFacts DEF Prio!Found
  <1>12. users' \in [Users -> Int]
    BY <1>1, <1>10, <1>11
  <1>13. ASSUME NEW u \in Users
         PROVE  users'[u] = users[u] + FoundOnce(u, k, uid[c]) - FoundOnce(u, pcall[c], uid[c])
    <2>1. FoundOnce(u, pcall[c], uid[c]) = 0
      BY <1>1 DEF FoundOnce, FoundIn
    <2>2. FoundOnce(u, k, uid[c]) = IF Prio!Found(c, g) /\ g.who = u THEN 1 ELSE 0
      BY <1>6, FoundIs
    <2>3. users'[u] = IF Prio!Found(c, g) /\ g.who = u THEN users[u] + 1 ELSE users[u]
      BY <1>1, <1>10, <1>11
    <2>4. users[u] \in Int
      BY <1>10
    <2> QED
      BY <2>1, <2>2, <2>3, <2>4
  <1> QED
    BY <1>1, <1>5, <1>6, <1>7, <1>8, <1>9, <1>12, <1>13, PrioIdle, CallerStep

LEMMA PrioAsked ==
    ASSUME PrioOf, NEW c \in Callers, Prio!setpriority(c) \/ Prio!getpriority(c)
    PROVE  PrioOf'
  <1>1. CASE Prio!setpriority(c)
    <2>1. PICK g \in Targets, v \in Given : Prio!Begin(c, TRUE, g, Prio!Normal(v))
      BY <1>1 DEF Prio!setpriority
    <2>2. Prio!Normal(v) \in Nices
      BY NormalIs
    <2> QED
      BY <2>1, <2>2, PrioBegun
  <1>2. CASE Prio!getpriority(c)
    <2>1. PICK g \in Targets : Prio!Begin(c, FALSE, g, 0)
      BY <1>2 DEF Prio!getpriority
    <2>2. 0 \in Nices
      BY PrioFacts
    <2> QED
      BY <2>1, <2>2, PrioBegun
  <1> QED
    BY <1>1, <1>2

LEMMA PrioEnded == ASSUME PrioOf, NEW c \in Callers, Prio!End(c) PROVE PrioOf'
  <1>1. PICK k : k = pcall[c]
    OBVIOUS
  <1>2. /\ k.pc = "each" /\ pcall' = [pcall EXCEPT ![c] = Prio!Idle]
        /\ users' = IF Prio!Found(c, k.of) THEN [users EXCEPT ![k.of.who] = @ - 1] ELSE users
        /\ log' = [log EXCEPT ![c] = Prio!NoLog]
        /\ UNCHANGED <<present, nice, uid, euid, suid, lifted, NiceLimits, most_nice>>
    BY <1>1 DEF Prio!End, Prio!At, Prio!ids, Prio!limits
  <1>3. k \in PrioCall /\ users \in [Users -> Int]
    BY <1>1, PrioTypes DEF PrioTyped
  <1>4. Prio!Found(c, k.of) => k.of.who \in Users
    <2>1. ASSUME NEW u \in Users PROVE Prio!Found(c, k.of) => k.of.who \in Users
      BY <1>2, <1>3, FoundIs
    <2>2. uid[c] \in Users
      BY PrioFacts, PrioTypes DEF PrioTyped
    <2> QED
      BY <2>1, <2>2
  <1>5. users' \in [Users -> Int]
    BY <1>2, <1>3, <1>4
  <1>6. ASSUME NEW u \in Users
        PROVE  users'[u] = users[u] + FoundOnce(u, Prio!Idle, uid[c]) - FoundOnce(u, pcall[c], uid[c])
    <2>1. FoundOnce(u, Prio!Idle, uid[c]) = 0
      BY PrioIdle DEF FoundOnce
    <2>2. FoundOnce(u, pcall[c], uid[c]) = IF Prio!Found(c, k.of) /\ k.of.who = u THEN 1 ELSE 0
      BY <1>1, <1>2, <1>3, FoundIs
    <2>3. users'[u] = IF Prio!Found(c, k.of) /\ k.of.who = u THEN users[u] - 1 ELSE users[u]
      BY <1>2, <1>3, <1>4
    <2>4. users[u] \in Int
      BY <1>3
    <2> QED
      BY <2>1, <2>2, <2>3, <2>4
  <1> QED
    BY <1>2, <1>5, <1>6, PrioIdle, CallerStep

\* A task that changes or leaves, with the calls as they are.
LEMMA TaskStep ==
    ASSUME PrioOf, NEW p \in Tasks, UNCHANGED <<nice, pcall, log, lifted, NiceLimits, most_nice>>,
           present' \in SUBSET Tasks, uid' \in [Tasks -> Users], euid' \in [Tasks -> Users],
           suid' \in [Tasks -> Users],
           users' \in [Users -> Int],
           \A q \in Tasks \ {p} : uid'[q] = uid[q] /\ (q \in present' <=> q \in present),
           \A c \in Callers : pcall[c].pc # "idle" => uid'[c] = uid[c],
           \A u \in Users : users'[u] = users[u] + Within(p, TasksHolding(u)') - Within(p, TasksHolding(u))
    PROVE  PrioOf'
  <1>1. PrioTyped'
    BY PrioTypes DEF PrioTyped
  <1>2. ASSUME NEW c \in Callers PROVE PrioCarried(c, pcall[c], log[c])'
    BY PrioTypes DEF PrioCarried, LetThrough, Answers, Stands, MayBe
  <1>3. ASSUME NEW u \in Users
        PROVE  users'[u] = Cardinality(TasksHolding(u)') + Cardinality(CallsHolding(u)')
    <2>1. CallsHolding(u)' = CallsHolding(u)
      BY DEF CallsHolding, FoundIn
    <2>2. PICK S : S = TasksHolding(u)
      OBVIOUS
    <2>3. PICK T : T = TasksHolding(u)'
      OBVIOUS
    <2>4. S \in SUBSET Tasks /\ T \in SUBSET Tasks /\ S \ {p} = T \ {p}
      <3>1. S = {q \in present : uid[q] = u} /\ present \in SUBSET Tasks
        BY <2>2, PrioTypes DEF TasksHolding, PrioTyped
      <3>2. T = {q \in present' : uid'[q] = u}
        BY <2>3 DEF TasksHolding
      <3>3. \A q \in Tasks \ {p} : q \in S <=> q \in T
        BY <3>1, <3>2
      <3>4. S \in SUBSET Tasks /\ T \in SUBSET Tasks
        BY <3>1, <3>2
      <3> QED
        BY <3>3, <3>4
    <2>5. IsFiniteSet(Tasks)
      BY PrioFacts
    <2>6. /\ Cardinality(S) \in Nat /\ Cardinality(T) \in Nat
          /\ Cardinality(T) = Cardinality(S) - Within(p, S) + Within(p, T)
      BY ONLY <2>4, <2>5, OneAsked
    <2>7. PICK n : n = Cardinality(CallsHolding(u))
      OBVIOUS
    <2>8. n \in Nat
      <3>1. CallsHolding(u) \in SUBSET Callers
        BY DEF CallsHolding
      <3> QED
        BY <2>7, <3>1, PrioFacts, FS_Subset, FS_CardinalityType
    <2>9. Within(p, S) \in Nat /\ Within(p, T) \in Nat
      BY DEF Within
    <2>10. users[u] = Cardinality(S) + n
      BY <2>2, <2>7, PrioTypes
    <2>11. users'[u] = users[u] + Within(p, T) - Within(p, S)
      BY <2>2, <2>3
    <2> QED
      BY <2>1, <2>3, <2>6, <2>7, <2>8, <2>9, <2>10, <2>11
  <1>4. \A q \in Tasks \ lifted' : MayBe(q, nice[q])'
    BY PrioTypes DEF MayBe
  <1> QED
    BY <1>1, <1>2, <1>3, <1>4 DEF PrioOf

\* setreuid: the task goes from one user to another, or stays with it.
LEMMA UserChanged == ASSUME PrioOf, NEW p \in Tasks, Prio!Setreuid(p) PROVE PrioOf'
  <1> DEFINE r(ruid) == IF ruid = Keep THEN uid[p] ELSE ruid
             e(id) == IF id = Keep THEN euid[p] ELSE id
             s(ruid, id) == IF ruid # Keep \/ (id # Keep /\ id # uid[p]) THEN e(id) ELSE suid[p]
  <1>0. PICK ruid \in Users \cup {Keep}, id \in Users \cup {Keep} :
          /\ uid' = [uid EXCEPT ![p] = r(ruid)] /\ euid' = [euid EXCEPT ![p] = e(id)]
          /\ suid' = [suid EXCEPT ![p] = s(ruid, id)]
          /\ users' = Prio!Moved(users, uid[p], r(ruid))
          /\ p \in present /\ (p \in Callers => pcall[p].pc = "idle")
          /\ UNCHANGED <<present, nice, pcall, log, lifted, NiceLimits, most_nice>>
    BY DEF Prio!Setreuid, Prio!At, Prio!limits
  <1>1. PICK R, E, S :
          /\ R = r(ruid) /\ E = e(id) /\ S = s(ruid, id)
          /\ uid' = [uid EXCEPT ![p] = R] /\ euid' = [euid EXCEPT ![p] = E]
          /\ suid' = [suid EXCEPT ![p] = S]
          /\ users' = Prio!Moved(users, uid[p], R)
          /\ p \in present /\ (p \in Callers => pcall[p].pc = "idle")
          /\ UNCHANGED <<present, nice, pcall, log, lifted, NiceLimits, most_nice>>
    BY <1>0
  <1>3. /\ uid \in [Tasks -> Users] /\ euid \in [Tasks -> Users] /\ suid \in [Tasks -> Users]
        /\ users \in [Users -> Int] /\ present \in SUBSET Tasks
    BY PrioTypes DEF PrioTyped
  <1>4. R \in Users /\ E \in Users /\ S \in Users
    BY <1>1, <1>3
  <1>5. uid' \in [Tasks -> Users] /\ euid' \in [Tasks -> Users] /\ suid' \in [Tasks -> Users]
    BY <1>1, <1>3, <1>4
  <1>6. /\ users' \in [Users -> Int]
        /\ \A u \in Users : users'[u] = users[u] + (IF u = R THEN 1 ELSE 0)
                                                 - (IF u = uid[p] THEN 1 ELSE 0)
    <2>1. CASE R = uid[p]
      BY <1>1, <1>3, <2>1 DEF Prio!Moved
    <2>2. CASE R # uid[p]
      <3>1. users' = [users EXCEPT ![uid[p]] = @ - 1, ![R] = @ + 1]
        BY <1>1, <2>2 DEF Prio!Moved
      <3> QED
        BY <1>3, <1>4, <2>2, <3>1
    <2> QED
      BY <2>1, <2>2
  <1>7. ASSUME NEW u \in Users
        PROVE  users'[u] = users[u] + Within(p, TasksHolding(u)') - Within(p, TasksHolding(u))
    <2>1. p \in TasksHolding(u) <=> uid[p] = u
      BY <1>1 DEF TasksHolding
    <2>2. p \in TasksHolding(u)' <=> R = u
      <3>1. uid'[p] = R
        BY <1>1, <1>3
      <3> QED
        BY <1>1, <3>1 DEF TasksHolding
    <2> QED
      BY <1>6, <2>1, <2>2 DEF Within
  <1>8. \A q \in Tasks \ {p} : uid'[q] = uid[q]
    BY <1>1, <1>3
  <1>9. \A c \in Callers : pcall[c].pc # "idle" => uid'[c] = uid[c]
    BY <1>1, <1>8, PrioFacts
  <1> QED
    BY <1>1, <1>3, <1>5, <1>6, <1>7, <1>8, <1>9, TaskStep

\* do_prlimit sets other limits: what a task could have come to before it still may.
LEMMA LimitsSet == ASSUME PrioOf, Prio!SetLimits PROVE PrioOf'
  <1>1. /\ NiceLimits' \in [Tasks -> Nat]
        /\ most_nice' = [p \in Tasks |-> Prio!Most(most_nice[p], NiceLimits'[p])]
        /\ UNCHANGED <<present, nice, uid, euid, suid, users, pcall, log, lifted>>
    BY DEF Prio!SetLimits, Prio!ids
  <1>2. ASSUME NEW p \in Tasks
        PROVE  /\ most_nice[p] \in Nat /\ most_nice'[p] \in Nat
               /\ most_nice[p] <= most_nice'[p] /\ NiceLimits'[p] <= most_nice'[p]
    BY <1>1, PrioTypes DEF PrioTyped, Prio!Most
  <1>3. PrioTyped'
    <2>1. most_nice' \in [Tasks -> Nat]
      BY <1>1, <1>2
    <2> QED
      BY <1>1, <1>2, <2>1, PrioTypes DEF PrioTyped
  <1>4. ASSUME NEW p \in Tasks, NEW n \in Nices, MayBe(p, n) PROVE MayBe(p, n)'
    <2>1. n \in Int
      BY PrioFacts
    <2>2. Prio!nice_to_rlimit(n) <= Prio!Most(Prio!nice_to_rlimit(FirstNice[p]), most_nice'[p])
      BY <1>2, <1>4, <2>1, MayBeStays
    <2> QED
      BY <2>2 DEF MayBe
  <1>5. \A p \in Tasks \ lifted' : MayBe(p, nice[p])'
    <2>1. ASSUME NEW p \in Tasks \ lifted PROVE MayBe(p, nice[p])'
      <3>1. nice[p] \in Nices /\ MayBe(p, nice[p])
        BY PrioTypes DEF PrioTyped
      <3>2. MayBe(p, nice[p])' <=>
              Prio!nice_to_rlimit(nice[p])
                <= Prio!Most(Prio!nice_to_rlimit(FirstNice[p]), most_nice'[p])
        BY <1>1 DEF MayBe
      <3> QED
        BY <1>4, <3>1, <3>2 DEF MayBe
    <2>2. lifted' = lifted
      BY <1>1
    <2> QED
      BY <2>1, <2>2
  <1>6. ASSUME NEW c \in Callers PROVE PrioCarried(c, pcall[c], log[c])'
    <2>1. /\ pcall[c] \in PrioCall /\ LetThrough(c, pcall[c]) /\ Answers(pcall[c], log[c])
          /\ Stands(pcall[c], log[c], nice)
      BY PrioTypes
    <2>2. LetThrough(c, pcall[c])'
      <3>1. pcall[c].val \in Nices
        BY <2>1 DEF PrioCall
      <3> QED
        BY <1>1, <1>4, <2>1, <3>1 DEF LetThrough, MayBe
    <2> QED
      BY <1>1, <2>1, <2>2 DEF PrioCarried, Answers, Stands
  <1>7. \A u : TasksHolding(u)' = TasksHolding(u) /\ CallsHolding(u)' = CallsHolding(u)
    BY <1>1 DEF TasksHolding, CallsHolding
  <1> QED
    BY <1>1, <1>3, <1>5, <1>6, <1>7, PrioTypes DEF PrioOf

LEMMA TaskGone == ASSUME PrioOf, NEW p \in Tasks, Prio!Exit(p) PROVE PrioOf'
  <1>1. /\ p \in present /\ present' = present \ {p}
        /\ users' = [users EXCEPT ![uid[p]] = @ - 1]
        /\ UNCHANGED <<nice, uid, euid, suid, pcall, log, lifted, NiceLimits, most_nice>>
    BY DEF Prio!Exit, Prio!ids, Prio!limits
  <1>2. /\ uid \in [Tasks -> Users] /\ euid \in [Tasks -> Users] /\ users \in [Users -> Int]
        /\ present \in SUBSET Tasks
    BY PrioTypes DEF PrioTyped
  <1>3. users' \in [Users -> Int] /\ present' \in SUBSET Tasks
    BY <1>1, <1>2
  <1>4. ASSUME NEW u \in Users
        PROVE  users'[u] = users[u] + Within(p, TasksHolding(u)') - Within(p, TasksHolding(u))
    <2>1. p \in TasksHolding(u) <=> uid[p] = u
      BY <1>1 DEF TasksHolding
    <2>2. p \notin TasksHolding(u)'
      BY <1>1 DEF TasksHolding
    <2> QED
      BY <1>1, <1>2, <2>1, <2>2 DEF Within
  <1>5. /\ uid' \in [Tasks -> Users] /\ euid' \in [Tasks -> Users] /\ suid' \in [Tasks -> Users]
        /\ \A q \in Tasks \ {p} : uid'[q] = uid[q] /\ (q \in present' <=> q \in present)
        /\ \A c \in Callers : uid'[c] = uid[c]
    BY <1>1, PrioTypes DEF PrioTyped
  <1> QED
    BY <1>1, <1>3, <1>4, <1>5, TaskStep

LEMMA PrioKept == PrioOf /\ [Prio!Next]_(Prio!vars) => PrioOf'
  <1> SUFFICES ASSUME PrioOf, [Prio!Next]_(Prio!vars) PROVE PrioOf'
    OBVIOUS
  <1>1. CASE UNCHANGED Prio!vars
    <2>1. UNCHANGED <<present, nice, uid, euid, suid, users, pcall, log, lifted, NiceLimits, most_nice>>
      BY <1>1 DEF Prio!vars, Prio!ids, Prio!limits
    <2>2. PrioTyped'
      BY <2>1, PrioTypes DEF PrioTyped
    <2>3. \A c \in Callers : PrioCarried(c, pcall[c], log[c])'
      BY <2>1, PrioTypes DEF PrioCarried, LetThrough, Answers, Stands, MayBe
    <2>4. \A u : TasksHolding(u)' = TasksHolding(u) /\ CallsHolding(u)' = CallsHolding(u)
      BY <2>1 DEF TasksHolding, CallsHolding
    <2> QED
      BY <2>1, <2>2, <2>3, <2>4, PrioTypes DEF PrioOf, MayBe
  <1>2. CASE Prio!Next
    BY <1>2, PrioAsked, Skipped, Checked, NiceSet, Looked, PrioEnded, UserChanged, TaskGone, LimitsSet
    DEF Prio!Next, Prio!Calls
  <1> QED
    BY <1>1, <1>2

LEMMA PrioImplies == PrioOf => PriorityInv
  <1> SUFFICES ASSUME PrioOf PROVE PriorityInv
    OBVIOUS
  <1>1. ASSUME NEW u \in Users
        PROVE  /\ users[u] \in Nat
               /\ users[u] = Prio!Cardinality({p \in present : uid[p] = u})
                    + Prio!Cardinality({c \in Callers : /\ ~Prio!At(c, "idle")
                                                        /\ Prio!Found(c, pcall[c].of)
                                                        /\ pcall[c].of.who = u})
    <2>1. PICK S : S = {c \in Callers : /\ ~Prio!At(c, "idle") /\ Prio!Found(c, pcall[c].of)
                                        /\ pcall[c].of.who = u}
      OBVIOUS
    <2>2. S = CallsHolding(u)
      BY <2>1 DEF CallsHolding, FoundIn, Prio!At, Prio!Found
    <2>3. TasksHolding(u) \in SUBSET Tasks /\ CallsHolding(u) \in SUBSET Callers
      BY PrioTypes DEF TasksHolding, CallsHolding, PrioTyped
    <2>4. Cardinality(TasksHolding(u)) \in Nat /\ Cardinality(CallsHolding(u)) \in Nat
      BY <2>3, PrioFacts, FS_Subset, FS_CardinalityType
    <2>5. users[u] = Cardinality(TasksHolding(u)) + Cardinality(S)
      BY <2>2, PrioTypes
    <2>6. users[u] \in Nat
      BY <2>2, <2>4, <2>5
    <2>7. PICK T : T = TasksHolding(u)
      OBVIOUS
    <2>8. T = {p \in present : uid[p] = u}
      BY <2>7 DEF TasksHolding
    <2>9. Prio!Cardinality(T) = Cardinality(T) /\ Prio!Cardinality(S) = Cardinality(S)
      BY PrioFacts
    <2> QED
      BY ONLY <2>1, <2>5, <2>6, <2>7, <2>8, <2>9
  <1>2. Prio!TypeOK
    <2>1. users \in [Users -> Nat]
      BY <1>1, PrioTypes DEF PrioTyped
    <2>2. \A c \in Callers : /\ pcall[c].pc \in {"idle", "each", "set"}
                             /\ pcall[c].left \subseteq Tasks /\ pcall[c].val \in Nices
      BY PrioTypes DEF PrioCall, PrioPcs
    <2> QED
      BY <2>1, <2>2, PrioTypes DEF Prio!TypeOK, PrioTyped, Nices
  <1>3. Prio!NotBetter
    BY PrioTypes DEF Prio!NotBetter, MayBe
  <1>4. Prio!AnswerTells
    BY PrioTypes DEF Prio!AnswerTells, Answers, Prio!ESRCH
  <1>5. Prio!ValueStands
    BY PrioTypes DEF Prio!ValueStands, Stands
  <1>6. Prio!UsersHeld
    BY <1>1 DEF Prio!UsersHeld
  <1> QED
    BY <1>2, <1>3, <1>4, <1>5, <1>6 DEF PriorityInv, Prio!PriorityInv

\* However calls go through the same tasks under a lock for reading only, while limits
\* and ids change: without help no task comes to a better priority than it had or its
\* RLIMIT_NICE has allowed at some time, every answer tells of its
\* tasks as a whole, and each user is held once by each of its tasks and of the calls
\* that found it; for any tasks and callers (setpriority, getpriority, set_one_prio).
THEOREM PrioritiesHeld == CallsSpec => []PriorityInv
  BY EachPart, PrioStart, PrioKept, PrioImplies, PTL

-----------------------------------------------------------------------------
(* The usage.                                                              *)

\* What the threads of S have counted when the counters are c.
Units(S, c) == {u \in S \X (1 .. MaxCount) : u[2] <= c[u[1]]}
Worth(S, c) == Cardinality(Units(S, c))
Counters == [Threads -> 0 .. MaxCount]

LEMMA UsageFacts ==
    /\ Threads \cap Children = {} /\ Nobody \notin Threads \cup Children
    /\ IsFiniteSet(Threads) /\ IsFiniteSet(Children)
    /\ MaxCount \in Nat /\ MaxCalls \in Nat
    /\ \A S : Rusage!Cardinality(S) = Cardinality(S)
  <1>1. \A S : Rusage!IsFiniteSet(S) <=> IsFiniteSet(S)
    BY DEF Rusage!IsFiniteSet, IsFiniteSet
  <1>2. \A S : Rusage!Cardinality(S) = Cardinality(S)
    BY DEF Rusage!Cardinality, Cardinality
  <1> QED
    BY <1>1, <1>2, CallsAssumption DEF Rusage!UsageAssumption

LEMMA UnitsFinite ==
    ASSUME NEW S \in SUBSET Threads, NEW c \in Counters
    PROVE  IsFiniteSet(Units(S, c)) /\ Worth(S, c) \in Nat
  <1>1. IsFiniteSet(S) /\ IsFiniteSet(1 .. MaxCount)
    BY UsageFacts, FS_Subset, FS_Interval
  <1>2. IsFiniteSet(S \X (1 .. MaxCount))
    BY <1>1, FS_Product
  <1>3. Units(S, c) \subseteq S \X (1 .. MaxCount)
    BY DEF Units
  <1>4. IsFiniteSet(Units(S, c))
    BY <1>2, <1>3, FS_Subset
  <1> QED
    BY <1>4, FS_CardinalityType DEF Worth

LEMMA NoUnits == ASSUME NEW c PROVE Worth({}, c) = 0
  <1>1. Units({}, c) = {}
    BY DEF Units
  <1> QED
    BY <1>1, FS_EmptySet DEF Worth

\* One thread's part, and the others'.
LEMMA UnitsSplit ==
    ASSUME NEW S \in SUBSET Threads, NEW c \in Counters, NEW t \in S
    PROVE  Worth(S, c) = Worth(S \ {t}, c) + c[t]
  <1>1. c[t] \in Nat /\ c[t] <= MaxCount /\ MaxCount \in Nat
    BY UsageFacts DEF Counters
  <1> DEFINE own == {t} \X (1 .. c[t])
             others == Units(S \ {t}, c)
  <1>2. Units(S, c) = others \cup own
    <2>1. ASSUME NEW u \in Units(S, c) PROVE u \in others \cup own
      <3>1. u \in S \X (1 .. MaxCount) /\ u[2] <= c[u[1]]
        BY <2>1 DEF Units
      <3>2. CASE u[1] = t
        <4>1. u = <<u[1], u[2]>> /\ u[2] \in 1 .. MaxCount
          BY <3>1
        <4>2. u[2] \in 1 .. c[t]
          BY <1>1, <3>1, <3>2, <4>1
        <4> QED
          BY <3>2, <4>1, <4>2
      <3>3. CASE u[1] # t
        BY <3>1, <3>3 DEF Units
      <3> QED
        BY <3>2, <3>3
    <2>2. others \subseteq Units(S, c)
      BY DEF Units
    <2>3. ASSUME NEW u \in own PROVE u \in Units(S, c)
      <3>1. u[1] = t /\ u[2] \in 1 .. c[t] /\ u = <<u[1], u[2]>>
        BY <2>3
      <3>2. u[2] \in 1 .. MaxCount /\ u[2] <= c[t]
        BY <1>1, <3>1
      <3> QED
        BY <3>1, <3>2 DEF Units
    <2> QED
      BY <2>1, <2>2, <2>3
  <1>3. others \cap own = {}
    BY DEF Units
  <1>4. IsFiniteSet(own) /\ Cardinality(own) = c[t]
    <2>1. IsFiniteSet({t}) /\ Cardinality({t}) = 1
      BY FS_Singleton
    <2>2. IsFiniteSet(1 .. c[t]) /\ Cardinality(1 .. c[t]) = c[t]
      <3>1. PICK m \in Nat : m = c[t]
        BY <1>1
      <3>2. IsFiniteSet(1 .. m) /\ Cardinality(1 .. m) = IF 1 > m THEN 0 ELSE m - 1 + 1
        BY FS_Interval
      <3> QED
        BY <3>1, <3>2
    <2>3. IsFiniteSet(own) /\ Cardinality(own) = 1 * Cardinality(1 .. c[t])
      BY <2>1, <2>2, FS_Product
    <2> QED
      BY <1>1, <2>2, <2>3
  <1>5. IsFiniteSet(others) /\ Cardinality(others) \in Nat
    <2>1. S \ {t} \in SUBSET Threads
      OBVIOUS
    <2> QED
      BY <2>1, UnitsFinite DEF Worth
  <1>6. Cardinality(others \cup own) = Cardinality(others) + Cardinality(own) - Cardinality(others \cap own)
    BY <1>4, <1>5, FS_Union
  <1>7. Cardinality(others \cap own) = 0
    BY <1>3, FS_EmptySet
  <1> HIDE DEF own
  <1>8. Cardinality(Units(S, c)) = Cardinality(others) + c[t]
    BY <1>1, <1>2, <1>4, <1>5, <1>6, <1>7
  <1> QED
    BY <1>8 DEF Worth

\* A thread that counts on makes one more, where it is looked at.
LEMMA UnitsMore ==
    ASSUME NEW S \in SUBSET Threads, NEW c \in Counters, NEW d \in Counters, NEW t \in Threads,
           d[t] = c[t] + 1, \A u \in Threads \ {t} : d[u] = c[u]
    PROVE  Worth(S, d) = Worth(S, c) + (IF t \in S THEN 1 ELSE 0)
  <1>1. c[t] \in Nat
    BY UsageFacts DEF Counters
  <1>2. d[t] = c[t] + 1 /\ \A u \in Threads \ {t} : d[u] = c[u]
    OBVIOUS
  <1>3. CASE t \notin S
    <2>1. Units(S, d) = Units(S, c)
      BY <1>2, <1>3 DEF Units
    <2> QED
      BY <1>2, <1>3, <2>1, UnitsFinite DEF Worth
  <1>4. CASE t \in S
    <2>1. Worth(S, c) = Worth(S \ {t}, c) + c[t] /\ Worth(S, d) = Worth(S \ {t}, d) + d[t]
      BY <1>2, <1>4, UnitsSplit
    <2>2. Units(S \ {t}, d) = Units(S \ {t}, c)
      BY <1>2 DEF Units
    <2>3. Worth(S \ {t}, d) = Worth(S \ {t}, c) /\ Worth(S \ {t}, c) \in Nat
      <3>1. S \ {t} \in SUBSET Threads
        OBVIOUS
      <3> QED
        BY <2>2, <3>1, UnitsFinite DEF Worth
    <2> QED
      BY <1>1, <1>2, <1>4, <2>1, <2>3
  <1> QED
    BY <1>3, <1>4

-----------------------------------------------------------------------------
UsagePcs == {"idle", "lock", "vcsw", "flt", "group", "threads", "unlock", "done"}
UsageCall == [pc : UsagePcs, who : Rusage!RUSAGE, left : SUBSET Threads, sum : Nat, flt : Nat,
              vcsw : Nat, low : Nat, kids : Nat]
Locking == {"vcsw", "flt", "group", "threads", "unlock"}
Used == gone + Worth(threads, count)

UsageTyped ==
    /\ count \in Counters /\ threads \in SUBSET Threads /\ gone \in Nat
    /\ cflt \in Nat /\ cvcsw \in Nat /\ unreaped \in SUBSET Children
    /\ siglock \in Threads \cup Children \cup {Nobody} /\ calls \in 0 .. MaxCalls
    /\ rcall \in [Threads -> UsageCall]

\* The two counters of the children tell of the same ones, but for the one that is
\* being reaped.
ChildrenCounted(s, f, v, left) ==
    /\ v = Cardinality(Children) - Cardinality(left)
    /\ s \notin Children => f = v
    /\ s \in Children => f = v + 1 /\ s \in left

\* What holds of the call k of thread t while s is who holds the lock, all is what
\* was used, v the children's counter, and c those of the threads th.
Sampling(t, k, s, all, v, c, th) ==
    /\ k.pc \in Locking <=> s = t
    /\ k.low <= all /\ k.kids <= v
    /\ k.pc \in {"vcsw", "flt"} => k.who # "self"
    /\ k.pc = "flt" => k.vcsw = v
    /\ k.pc \in {"group", "threads"} => k.who # "children"
    /\ k.pc \in {"group", "threads", "unlock", "done"} /\ k.who # "self" =>
          k.flt = k.vcsw /\ k.kids <= k.vcsw
    /\ k.pc = "threads" =>
          /\ k.left \subseteq th
          /\ k.low <= k.sum + Worth(k.left, c) /\ k.sum + Worth(k.left, c) <= all
    /\ k.pc \in {"unlock", "done"} /\ k.who # "children" => k.low <= k.sum /\ k.sum <= all

UsageOf == /\ UsageTyped /\ ChildrenCounted(siglock, cflt, cvcsw, unreaped)
           /\ \A t \in Threads : Sampling(t, rcall[t], siglock, Used, cvcsw, count, threads)

LEMMA UsedIs == Rusage!Total = Used /\ Rusage!Reaped = Cardinality(Children) - Cardinality(unreaped)
  <1>1. Rusage!Counted(threads) = Units(threads, count)
    BY DEF Rusage!Counted, Units
  <1> QED
    BY <1>1, UsageFacts DEF Rusage!Total, Rusage!Reaped, Used, Worth

LEMMA UsageTypes ==
    ASSUME UsageOf
    PROVE  /\ UsageTyped /\ gone \in Nat /\ Worth(threads, count) \in Nat /\ Used \in Nat
           /\ \A t \in Threads : /\ rcall[t] \in UsageCall
                                 /\ Sampling(t, rcall[t], siglock, Used, cvcsw, count, threads)
                                 /\ Worth(rcall[t].left, count) \in Nat
  <1>1. /\ UsageTyped /\ gone \in Nat /\ Worth(threads, count) \in Nat
    BY UnitsFinite DEF UsageOf, UsageTyped
  <1>2. ASSUME NEW t \in Threads
        PROVE  /\ rcall[t] \in UsageCall /\ Worth(rcall[t].left, count) \in Nat
               /\ Sampling(t, rcall[t], siglock, Used, cvcsw, count, threads)
    <2>1. rcall[t] \in UsageCall /\ rcall[t].left \in SUBSET Threads
      BY <1>1 DEF UsageTyped, UsageCall
    <2> QED
      BY <1>1, <2>1, UnitsFinite DEF UsageOf, UsageTyped
  <1> QED
    BY <1>1, <1>2 DEF Used

LEMMA UsageStart == Rusage!Init => UsageOf
  <1> SUFFICES ASSUME Rusage!Init PROVE UsageOf
    OBVIOUS
  <1>1. /\ count = [t \in Threads |-> 0] /\ threads = Threads /\ gone = 0
        /\ cflt = 0 /\ cvcsw = 0 /\ unreaped = Children /\ siglock = Nobody
        /\ rcall = [t \in Threads |-> Rusage!Idle] /\ calls = 0
    BY DEF Rusage!Init
  <1>2. Rusage!Idle \in UsageCall /\ Rusage!Idle.pc = "idle" /\ Rusage!Idle.low = 0
        /\ Rusage!Idle.kids = 0
    BY DEF Rusage!Idle, UsageCall, UsagePcs, Rusage!RUSAGE
  <1>3. UsageTyped
    BY <1>1, <1>2, UsageFacts DEF UsageTyped, Counters
  <1>4. ChildrenCounted(siglock, cflt, cvcsw, unreaped)
    <2>1. Cardinality(Children) \in Nat
      BY UsageFacts, FS_CardinalityType
    <2> QED
      BY <1>1, <2>1, UsageFacts DEF ChildrenCounted
  <1>5. Used \in Nat
    BY <1>1, <1>3, UnitsFinite DEF Used, UsageTyped
  <1>6. ASSUME NEW t \in Threads
        PROVE  Sampling(t, rcall[t], siglock, Used, cvcsw, count, threads)
    BY <1>1, <1>2, <1>5, UsageFacts DEF Sampling, Locking
  <1> QED
    BY <1>3, <1>4, <1>6 DEF UsageOf

\* A step of t's own call: nothing is used, and the lock is t's to take or to leave.
LEMMA SampleStep ==
    ASSUME UsageOf, NEW t \in Threads, NEW k \in UsageCall, rcall' = [rcall EXCEPT ![t] = k],
           UNCHANGED <<count, threads, gone, cflt, cvcsw, unreaped>>,
           calls' \in 0 .. MaxCalls,
           siglock' = siglock \/ (siglock \in {t, Nobody} /\ siglock' \in {t, Nobody}),
           Sampling(t, k, siglock', Used, cvcsw, count, threads)
    PROVE  UsageOf'
  <1>1. UsageTyped' /\ Used' = Used
    BY UsageTypes DEF UsageTyped, Used
  <1>2. ChildrenCounted(siglock, cflt, cvcsw, unreaped)'
    BY UsageFacts DEF UsageOf, ChildrenCounted
  <1>3. ASSUME NEW u \in Threads
        PROVE  Sampling(u, rcall'[u], siglock', Used', cvcsw', count', threads')
    <2>1. CASE u = t
      BY <1>1, <2>1, UsageTypes DEF UsageTyped
    <2>2. CASE u # t
      <3>1. rcall'[u] = rcall[u] /\ (siglock' = u <=> siglock = u)
        BY <2>2, UsageTypes, UsageFacts DEF UsageTyped
      <3>2. Sampling(u, rcall[u], siglock, Used, cvcsw, count, threads)
        BY UsageTypes
      <3> QED
        BY <1>1, <3>1, <3>2 DEF Sampling
    <2> QED
      BY <2>1, <2>2
  <1> QED
    BY <1>1, <1>2, <1>3 DEF UsageOf

LEMMA UsageAsked == ASSUME UsageOf, NEW t \in Threads, Rusage!getrusage(t) PROVE UsageOf'
  <1>1. PICK who \in Rusage!RUSAGE :
          rcall' = [rcall EXCEPT ![t] = [Rusage!Idle EXCEPT !.pc = "lock", !.who = who,
                                           !.low = Rusage!Total, !.kids = Rusage!Reaped]]
    BY DEF Rusage!getrusage
  <1>2. /\ rcall[t].pc = "idle" /\ calls < MaxCalls /\ calls' = calls + 1
        /\ UNCHANGED <<count, threads, gone, cflt, cvcsw, unreaped, siglock>>
    BY DEF Rusage!getrusage, Rusage!At
  <1>3. Rusage!Total = Used /\ Rusage!Reaped = cvcsw /\ Used \in Nat /\ cvcsw \in Nat
    BY UsedIs, UsageTypes DEF UsageOf, ChildrenCounted, UsageTyped
  <1>4. PICK k : k = [Rusage!Idle EXCEPT !.pc = "lock", !.who = who, !.low = Used, !.kids = cvcsw]
    OBVIOUS
  <1>5. k \in UsageCall /\ k.pc = "lock" /\ k.low = Used /\ k.kids = cvcsw
    BY <1>3, <1>4 DEF UsageCall, UsagePcs, Rusage!Idle
  <1>6. rcall' = [rcall EXCEPT ![t] = k]
    BY <1>1, <1>3, <1>4
  <1>7. Sampling(t, k, siglock', Used, cvcsw, count, threads)
    BY <1>2, <1>3, <1>5, UsageTypes DEF Sampling, Locking
  <1>8. calls' \in 0 .. MaxCalls
    BY <1>2, UsageFacts, UsageTypes DEF UsageTyped
  <1> QED
    BY <1>2, <1>5, <1>6, <1>7, <1>8, SampleStep

LEMMA UsageLocked == ASSUME UsageOf, NEW t \in Threads, Rusage!Lock(t) PROVE UsageOf'
  <1>1. /\ rcall[t].pc = "lock" /\ siglock = Nobody /\ siglock' = t
        /\ rcall' = [rcall EXCEPT ![t].pc = IF rcall[t].who = "self" THEN "group" ELSE "vcsw"]
        /\ UNCHANGED <<count, threads, gone, cflt, cvcsw, unreaped, calls>>
    BY DEF Rusage!Lock, Rusage!At
  <1>2. PICK k : k = [rcall[t] EXCEPT !.pc = IF rcall[t].who = "self" THEN "group" ELSE "vcsw"]
    OBVIOUS
  <1>3. /\ k \in UsageCall /\ k.pc = (IF rcall[t].who = "self" THEN "group" ELSE "vcsw")
        /\ k.who = rcall[t].who /\ k.low = rcall[t].low /\ k.kids = rcall[t].kids
    BY <1>2, UsageTypes DEF UsageCall, UsagePcs
  <1>4. rcall' = [rcall EXCEPT ![t] = k]
    BY <1>1, <1>2, UsageTypes DEF UsageTyped
  <1>5. Sampling(t, k, siglock', Used, cvcsw, count, threads)
    BY <1>1, <1>3, UsageTypes DEF Sampling, Locking
  <1> QED
    BY <1>1, <1>3, <1>4, <1>5, UsageTypes, SampleStep DEF UsageTyped

LEMMA ChildVcswRead == ASSUME UsageOf, NEW t \in Threads, Rusage!ChildVcsw(t) PROVE UsageOf'
  <1>1. /\ rcall[t].pc = "vcsw"
        /\ rcall' = [rcall EXCEPT ![t].pc = "flt", ![t].vcsw = cvcsw]
        /\ UNCHANGED <<count, threads, gone, cflt, cvcsw, unreaped, siglock, calls>>
    BY DEF Rusage!ChildVcsw, Rusage!At
  <1>2. PICK k : k = [rcall[t] EXCEPT !.pc = "flt", !.vcsw = cvcsw]
    OBVIOUS
  <1>3. /\ k \in UsageCall /\ k.pc = "flt" /\ k.vcsw = cvcsw
        /\ k.who = rcall[t].who /\ k.low = rcall[t].low /\ k.kids = rcall[t].kids
    <2>1. /\ rcall[t] \in UsageCall /\ cvcsw \in Nat /\ cflt \in Nat /\ gone \in Nat
          /\ threads \in SUBSET Threads
      BY UsageTypes DEF UsageTyped
    <2> QED
      BY ONLY <1>2, <2>1 DEF UsageCall, UsagePcs
  <1>4. rcall' = [rcall EXCEPT ![t] = k]
    BY <1>1, <1>2, UsageTypes DEF UsageTyped
  <1>5. Sampling(t, k, siglock', Used, cvcsw, count, threads)
    BY <1>1, <1>3, UsageTypes DEF Sampling, Locking
  <1> QED
    BY <1>1, <1>3, <1>4, <1>5, UsageTypes, SampleStep DEF UsageTyped

LEMMA ChildFltRead == ASSUME UsageOf, NEW t \in Threads, Rusage!ChildFlt(t) PROVE UsageOf'
  <1>1. /\ rcall[t].pc = "flt"
        /\ rcall' = [rcall EXCEPT ![t].pc = IF rcall[t].who = "children" THEN "unlock" ELSE "group",
                                  ![t].flt = cflt]
        /\ UNCHANGED <<count, threads, gone, cflt, cvcsw, unreaped, siglock, calls>>
    BY DEF Rusage!ChildFlt, Rusage!At
  <1>2. PICK k : k = [rcall[t] EXCEPT !.pc = IF rcall[t].who = "children" THEN "unlock" ELSE "group",
                                      !.flt = cflt]
    OBVIOUS
  <1>3. /\ k \in UsageCall /\ k.pc = (IF rcall[t].who = "children" THEN "unlock" ELSE "group")
        /\ k.vcsw = rcall[t].vcsw /\ k.flt = cflt
        /\ k.who = rcall[t].who /\ k.low = rcall[t].low /\ k.kids = rcall[t].kids
    <2>1. /\ rcall[t] \in UsageCall /\ cvcsw \in Nat /\ cflt \in Nat /\ gone \in Nat
          /\ threads \in SUBSET Threads
      BY UsageTypes DEF UsageTyped
    <2> QED
      BY ONLY <1>2, <2>1 DEF UsageCall, UsagePcs
  <1>4. rcall' = [rcall EXCEPT ![t] = k]
    BY <1>1, <1>2, UsageTypes DEF UsageTyped
  <1>5. siglock = t /\ k.vcsw = cvcsw /\ k.kids <= cvcsw
    BY <1>1, <1>3, UsageTypes DEF Sampling, Locking
  <1>6. cflt = cvcsw
    BY <1>5, UsageFacts DEF UsageOf, ChildrenCounted
  <1>7. Sampling(t, k, siglock', Used, cvcsw, count, threads)
    BY <1>1, <1>3, <1>5, <1>6, UsageTypes DEF Sampling, Locking
  <1> QED
    BY <1>1, <1>3, <1>4, <1>7, UsageTypes, SampleStep DEF UsageTyped

LEMMA GroupRead == ASSUME UsageOf, NEW t \in Threads, Rusage!Group(t) PROVE UsageOf'
  <1>1. /\ rcall[t].pc = "group"
        /\ rcall' = [rcall EXCEPT ![t].pc = "threads", ![t].sum = gone, ![t].left = threads]
        /\ UNCHANGED <<count, threads, gone, cflt, cvcsw, unreaped, siglock, calls>>
    BY DEF Rusage!Group, Rusage!At
  <1>2. PICK k : k = [rcall[t] EXCEPT !.pc = "threads", !.sum = gone, !.left = threads]
    OBVIOUS
  <1>3. /\ k \in UsageCall /\ k.pc = "threads" /\ k.sum = gone /\ k.left = threads
        /\ k.vcsw = rcall[t].vcsw /\ k.flt = rcall[t].flt
        /\ k.who = rcall[t].who /\ k.low = rcall[t].low /\ k.kids = rcall[t].kids
    <2>1. /\ rcall[t] \in UsageCall /\ cvcsw \in Nat /\ cflt \in Nat /\ gone \in Nat
          /\ threads \in SUBSET Threads
      BY UsageTypes DEF UsageTyped
    <2> QED
      BY ONLY <1>2, <2>1 DEF UsageCall, UsagePcs
  <1>4. rcall' = [rcall EXCEPT ![t] = k]
    BY <1>1, <1>2, UsageTypes DEF UsageTyped
  <1>5. k.sum + Worth(k.left, count) = Used
    BY <1>3 DEF Used
  <1>6. Sampling(t, k, siglock', Used, cvcsw, count, threads)
    BY <1>1, <1>3, <1>5, UsageTypes DEF Sampling, Locking
  <1> QED
    BY <1>1, <1>3, <1>4, <1>6, UsageTypes, SampleStep DEF UsageTyped

LEMMA ThreadRead == ASSUME UsageOf, NEW t \in Threads, Rusage!Thread(t) PROVE UsageOf'
  <1>1. /\ rcall[t].pc = "threads"
        /\ UNCHANGED <<count, threads, gone, cflt, cvcsw, unreaped, siglock, calls>>
    BY DEF Rusage!Thread, Rusage!At
  <1>2. rcall[t].left \subseteq threads /\ rcall[t].left \cap threads = rcall[t].left
    BY <1>1, UsageTypes DEF Sampling
  <1>3. CASE rcall[t].left = {}
    <2>1. rcall' = [rcall EXCEPT ![t].pc = "unlock"]
      BY <1>2, <1>3 DEF Rusage!Thread
    <2>2. PICK k : k = [rcall[t] EXCEPT !.pc = "unlock"]
      OBVIOUS
    <2>3. /\ k \in UsageCall /\ k.pc = "unlock" /\ k.sum = rcall[t].sum
          /\ k.vcsw = rcall[t].vcsw /\ k.flt = rcall[t].flt
          /\ k.who = rcall[t].who /\ k.low = rcall[t].low /\ k.kids = rcall[t].kids
      BY <2>2, UsageTypes DEF UsageCall, UsagePcs
    <2>4. rcall' = [rcall EXCEPT ![t] = k]
      BY <2>1, <2>2, UsageTypes DEF UsageTyped
    <2>5. Worth(rcall[t].left, count) = 0 /\ k.sum \in Nat
      BY <1>3, <2>3, NoUnits DEF UsageCall
    <2>6. Sampling(t, k, siglock', Used, cvcsw, count, threads)
      BY <1>1, <2>3, <2>5, UsageTypes DEF Sampling, Locking
    <2> QED
      BY <1>1, <2>3, <2>4, <2>6, UsageTypes, SampleStep DEF UsageTyped
  <1>4. CASE rcall[t].left # {}
    <2>1. PICK u \in rcall[t].left :
             rcall' = [rcall EXCEPT ![t].left = @ \ {u}, ![t].sum = @ + count[u]]
      BY <1>2, <1>4 DEF Rusage!Thread
    <2>2. rcall[t] \in UsageCall /\ rcall[t].left \in SUBSET Threads /\ count \in Counters
          /\ rcall[t].sum \in Nat
      BY UsageTypes DEF UsageCall, UsageTyped
    <2>3. u \in Threads /\ count[u] \in Nat
      BY <2>1, <2>2 DEF Counters
    <2>4. PICK n \in Nat : n = rcall[t].sum + count[u]
      BY <2>2, <2>3
    <2>5. PICK k : k = [rcall[t] EXCEPT !.left = rcall[t].left \ {u}, !.sum = n]
      OBVIOUS
    <2>6. /\ k \in UsageCall /\ k.pc = "threads" /\ k.sum = n /\ k.left = rcall[t].left \ {u}
          /\ k.vcsw = rcall[t].vcsw /\ k.flt = rcall[t].flt
          /\ k.who = rcall[t].who /\ k.low = rcall[t].low /\ k.kids = rcall[t].kids
      BY <1>1, <2>2, <2>4, <2>5 DEF UsageCall
    <2>7. rcall' = [rcall EXCEPT ![t] = k]
      BY <2>1, <2>4, <2>5, UsageTypes DEF UsageTyped
    <2>8. k.sum + Worth(k.left, count) = rcall[t].sum + Worth(rcall[t].left, count)
      <3>1. Worth(rcall[t].left, count) = Worth(rcall[t].left \ {u}, count) + count[u]
        BY <2>1, <2>2, UnitsSplit
      <3>2. Worth(rcall[t].left \ {u}, count) \in Nat
        <4>1. rcall[t].left \ {u} \in SUBSET Threads
          BY <2>2
        <4> QED
          BY <2>2, <4>1, UnitsFinite
      <3> QED
        BY <2>2, <2>3, <2>4, <2>6, <3>1, <3>2
    <2>9. k.left \subseteq threads
      BY <1>2, <2>6
    <2>10. Sampling(t, k, siglock', Used, cvcsw, count, threads)
      BY <1>1, <2>6, <2>8, <2>9, UsageTypes DEF Sampling, Locking
    <2> QED
      BY <1>1, <2>6, <2>7, <2>10, UsageTypes, SampleStep DEF UsageTyped
  <1> QED
    BY <1>3, <1>4

LEMMA UsageUnlocked == ASSUME UsageOf, NEW t \in Threads, Rusage!Unlock(t) PROVE UsageOf'
  <1>1. /\ rcall[t].pc = "unlock" /\ siglock' = Nobody
        /\ rcall' = [rcall EXCEPT ![t].pc = "done"]
        /\ UNCHANGED <<count, threads, gone, cflt, cvcsw, unreaped, calls>>
    BY DEF Rusage!Unlock, Rusage!At
  <1>2. PICK k : k = [rcall[t] EXCEPT !.pc = "done"]
    OBVIOUS
  <1>3. /\ k \in UsageCall /\ k.pc = "done" /\ k.sum = rcall[t].sum
        /\ k.vcsw = rcall[t].vcsw /\ k.flt = rcall[t].flt
        /\ k.who = rcall[t].who /\ k.low = rcall[t].low /\ k.kids = rcall[t].kids
    BY <1>2, UsageTypes DEF UsageCall, UsagePcs
  <1>4. rcall' = [rcall EXCEPT ![t] = k]
    BY <1>1, <1>2, UsageTypes DEF UsageTyped
  <1>5. siglock = t
    BY <1>1, UsageTypes DEF Sampling, Locking
  <1>6. Sampling(t, k, siglock', Used, cvcsw, count, threads)
    BY <1>1, <1>3, <1>5, UsageTypes, UsageFacts DEF Sampling, Locking
  <1> QED
    BY <1>1, <1>3, <1>4, <1>5, <1>6, UsageTypes, SampleStep DEF UsageTyped

LEMMA UsageReturned == ASSUME UsageOf, NEW t \in Threads, Rusage!Return(t) PROVE UsageOf'
  <1>1. /\ rcall[t].pc = "done" /\ rcall' = [rcall EXCEPT ![t] = Rusage!Idle]
        /\ UNCHANGED <<count, threads, gone, cflt, cvcsw, unreaped, siglock, calls>>
    BY DEF Rusage!Return, Rusage!At
  <1>2. Rusage!Idle \in UsageCall /\ Rusage!Idle.pc = "idle" /\ Rusage!Idle.low = 0
        /\ Rusage!Idle.kids = 0
    BY DEF Rusage!Idle, UsageCall, UsagePcs, Rusage!RUSAGE
  <1>3. Sampling(t, Rusage!Idle, siglock', Used, cvcsw, count, threads)
    BY <1>1, <1>2, UsageTypes DEF Sampling, Locking, UsageTyped
  <1> QED
    BY <1>1, <1>2, <1>3, UsageTypes, SampleStep DEF UsageTyped

-----------------------------------------------------------------------------
\* A step of the rest of the kernel: no call goes on.
LEMMA BesideStep ==
    ASSUME UsageOf, UsageTyped', ChildrenCounted(siglock, cflt, cvcsw, unreaped)',
           rcall' = rcall, Used' \in Nat, Used <= Used', cvcsw <= cvcsw',
           \A u \in Threads : siglock' = u <=> siglock = u,
           \A u \in Threads : rcall[u].pc = "flt" => cvcsw' = cvcsw,
           \A u \in Threads : rcall[u].pc = "threads" =>
               /\ threads' = threads
               /\ rcall[u].low <= rcall[u].sum + Worth(rcall[u].left, count')
               /\ rcall[u].sum + Worth(rcall[u].left, count') <= Used'
    PROVE  UsageOf'
  <1>1. ASSUME NEW u \in Threads
        PROVE  Sampling(u, rcall[u], siglock', Used', cvcsw', count', threads')
    <2>1. Sampling(u, rcall[u], siglock, Used, cvcsw, count, threads) /\ rcall[u] \in UsageCall
      BY UsageTypes
    <2>2. /\ rcall[u].low \in Nat /\ rcall[u].kids \in Nat /\ rcall[u].sum \in Nat
          /\ Used \in Nat /\ cvcsw \in Nat /\ cvcsw' \in Nat
      BY <2>1, UsageTypes DEF UsageCall, UsageTyped
    <2>3. rcall[u].low <= Used' /\ rcall[u].kids <= cvcsw'
      BY <2>1, <2>2 DEF Sampling
    <2>4. rcall[u].pc \in {"unlock", "done"} /\ rcall[u].who # "children" =>
             rcall[u].low <= rcall[u].sum /\ rcall[u].sum <= Used'
      BY <2>1, <2>2 DEF Sampling
    <2> QED
      BY <2>1, <2>3, <2>4 DEF Sampling
  <1> QED
    BY <1>1 DEF UsageOf

LEMMA UsageWorks == ASSUME UsageOf, NEW t \in Threads, Rusage!Works(t) PROVE UsageOf'
  <1>1. /\ t \in threads /\ count[t] < MaxCount /\ count' = [count EXCEPT ![t] = @ + 1]
        /\ UNCHANGED <<threads, gone, cflt, cvcsw, unreaped, siglock, rcall, calls>>
    BY DEF Rusage!Works
  <1>2. threads \in SUBSET Threads /\ count \in Counters /\ gone \in Nat /\ cvcsw \in Nat
    BY UsageTypes DEF UsageTyped
  <1>3. /\ count' \in Counters
        /\ \A S \in SUBSET Threads : Worth(S, count') = Worth(S, count) + (IF t \in S THEN 1 ELSE 0)
    <2>1. count[t] \in 0 .. MaxCount /\ MaxCount \in Nat /\ count[t] + 1 \in 0 .. MaxCount
      BY <1>1, <1>2, UsageFacts DEF Counters
    <2>2. PICK d \in Counters : d = count'
      BY <1>1, <1>2, <2>1 DEF Counters
    <2>3. d[t] = count[t] + 1 /\ \A u \in Threads \ {t} : d[u] = count[u]
      BY <1>1, <1>2, <2>2 DEF Counters
    <2>4. ASSUME NEW S \in SUBSET Threads
          PROVE  Worth(S, d) = Worth(S, count) + (IF t \in S THEN 1 ELSE 0)
      BY ONLY <1>2, <2>3, UnitsMore, t \in Threads, d \in Counters
    <2> QED
      BY <2>2, <2>4
  <1>4. Used' = Used + 1 /\ Used \in Nat
    <2>1. Worth(threads, count') = Worth(threads, count) + 1
      BY <1>1, <1>2, <1>3
    <2>2. Used' = gone + Worth(threads, count') /\ Used = gone + Worth(threads, count)
      BY <1>1 DEF Used
    <2>3. Worth(threads, count) \in Nat
      BY UsageTypes
    <2> QED
      BY <1>2, <2>1, <2>2, <2>3
  <1>5. UsageTyped'
    BY <1>1, <1>3, UsageTypes DEF UsageTyped
  <1>6. ASSUME NEW u \in Threads, rcall[u].pc = "threads"
        PROVE  /\ rcall[u].low <= rcall[u].sum + Worth(rcall[u].left, count')
               /\ rcall[u].sum + Worth(rcall[u].left, count') <= Used'
    <2>1. /\ rcall[u].left \in SUBSET Threads /\ rcall[u].low \in Nat /\ rcall[u].sum \in Nat
          /\ Worth(rcall[u].left, count) \in Nat
      BY UsageTypes DEF UsageCall
    <2>2. /\ rcall[u].low <= rcall[u].sum + Worth(rcall[u].left, count)
          /\ rcall[u].sum + Worth(rcall[u].left, count) <= Used
      BY <1>6, UsageTypes DEF Sampling
    <2>3. Worth(rcall[u].left, count') \in {Worth(rcall[u].left, count), Worth(rcall[u].left, count) + 1}
      BY <1>3, <2>1
    <2> QED
      BY <1>4, <2>1, <2>2, <2>3
  <1>7. ChildrenCounted(siglock, cflt, cvcsw, unreaped)'
    BY <1>1 DEF UsageOf, ChildrenCounted
  <1>8. Used' \in Nat /\ Used <= Used' /\ cvcsw <= cvcsw'
    BY <1>1, <1>2, <1>4
  <1> QED
    BY <1>1, <1>5, <1>6, <1>7, <1>8, BesideStep

LEMMA UsageExit == ASSUME UsageOf, NEW t \in Threads, Rusage!Exit(t) PROVE UsageOf'
  <1>1. /\ t \in threads /\ siglock = Nobody /\ threads' = threads \ {t} /\ gone' = gone + count[t]
        /\ UNCHANGED <<count, cflt, cvcsw, unreaped, siglock, rcall, calls>>
    BY DEF Rusage!Exit
  <1>2. /\ threads \in SUBSET Threads /\ count \in Counters /\ gone \in Nat /\ cvcsw \in Nat
        /\ count[t] \in Nat
    BY UsageTypes DEF UsageTyped, Counters
  <1>3. Worth(threads, count) = Worth(threads \ {t}, count) + count[t]
    BY <1>1, <1>2, UnitsSplit
  <1>4. Worth(threads \ {t}, count) \in Nat
    <2>1. threads \ {t} \in SUBSET Threads
      BY <1>2
    <2> QED
      BY <1>2, <2>1, UnitsFinite
  <1>5. Used' = Used /\ Used \in Nat
    BY <1>1, <1>2, <1>3, <1>4, UsageTypes DEF Used
  <1>6. UsageTyped'
    BY <1>1, <1>2, UsageTypes DEF UsageTyped
  <1>7. ASSUME NEW u \in Threads PROVE rcall[u].pc # "threads"
    BY <1>1, UsageTypes, UsageFacts DEF Sampling, Locking
  <1>8. ChildrenCounted(siglock, cflt, cvcsw, unreaped)'
    BY <1>1 DEF UsageOf, ChildrenCounted
  <1>9. Used' \in Nat /\ Used <= Used' /\ cvcsw <= cvcsw'
    BY <1>1, <1>2, <1>5
  <1> QED
    BY <1>1, <1>6, <1>7, <1>8, <1>9, BesideStep

LEMMA UsageReap ==
    ASSUME UsageOf, NEW c \in Children, Rusage!ReapFirst(c) \/ Rusage!ReapSecond(c)
    PROVE  UsageOf'
  <1>1. \A u \in Threads : u # c /\ u # Nobody
    BY UsageFacts
  <1>2. /\ ChildrenCounted(siglock, cflt, cvcsw, unreaped) /\ cflt \in Nat /\ cvcsw \in Nat
        /\ Used \in Nat /\ unreaped \in SUBSET Children
    BY UsageTypes DEF UsageOf, UsageTyped
  <1>3. /\ UNCHANGED <<count, threads, gone, rcall, calls>> /\ Used' = Used
    BY DEF Rusage!ReapFirst, Rusage!ReapSecond, Used
  <1>4. /\ UsageTyped' /\ ChildrenCounted(siglock, cflt, cvcsw, unreaped)'
        /\ siglock \notin Threads /\ siglock' \notin Threads /\ cvcsw <= cvcsw'
    <2>1. CASE Rusage!ReapFirst(c)
      <3>1. /\ c \in unreaped /\ siglock = Nobody /\ siglock' = c /\ cflt' = cflt + 1
            /\ UNCHANGED <<cvcsw, unreaped>>
        BY <2>1 DEF Rusage!ReapFirst
      <3> QED
        BY <1>1, <1>2, <1>3, <3>1, UsageTypes, UsageFacts DEF UsageTyped, ChildrenCounted
    <2>2. CASE Rusage!ReapSecond(c)
      <3>1. /\ siglock = c /\ siglock' = Nobody /\ cvcsw' = cvcsw + 1 /\ cflt' = cflt
            /\ unreaped' = unreaped \ {c}
        BY <2>2 DEF Rusage!ReapSecond
      <3>2. IsFiniteSet(unreaped) /\ Cardinality(Children) \in Nat /\ Cardinality(unreaped) \in Nat
        BY <1>2, UsageFacts, FS_Subset, FS_CardinalityType
      <3>3. Cardinality(unreaped') = Cardinality(unreaped) - 1
        BY <1>2, <3>1, <3>2, FS_RemoveElement DEF ChildrenCounted
      <3>4. UsageTyped'
        BY <1>2, <1>3, <3>1, UsageTypes DEF UsageTyped
      <3>5. Nobody \notin Children
        BY UsageFacts
      <3>6. ChildrenCounted(siglock', cflt', cvcsw', unreaped')
        BY <1>2, <3>1, <3>2, <3>3, <3>5 DEF ChildrenCounted
      <3> QED
        BY <1>1, <1>2, <3>1, <3>4, <3>6
    <2> QED
      BY <2>1, <2>2
  <1>5. ASSUME NEW u \in Threads PROVE rcall[u].pc \notin {"flt", "threads"}
    BY <1>4, UsageTypes DEF Sampling, Locking
  <1> QED
    BY <1>2, <1>3, <1>4, <1>5, BesideStep

LEMMA UsageKept == UsageOf /\ [Rusage!Next]_(Rusage!vars) => UsageOf'
  <1> SUFFICES ASSUME UsageOf, [Rusage!Next]_(Rusage!vars) PROVE UsageOf'
    OBVIOUS
  <1>1. CASE UNCHANGED Rusage!vars
    <2>1. UNCHANGED <<count, threads, gone, cflt, cvcsw, unreaped, siglock, rcall, calls>>
      BY <1>1 DEF Rusage!vars
    <2>2. UsageTyped' /\ Used' = Used
      BY <2>1 DEF UsageOf, UsageTyped, Used
    <2> QED
      BY <2>1, <2>2 DEF UsageOf, ChildrenCounted
  <1>2. CASE Rusage!Next
    BY <1>2, UsageAsked, UsageLocked, ChildVcswRead, ChildFltRead, GroupRead, ThreadRead,
       UsageUnlocked, UsageReturned, UsageWorks, UsageExit, UsageReap
    DEF Rusage!Next, Rusage!Step
  <1> QED
    BY <1>1, <1>2

LEMMA UsageImplies == UsageOf => UsageInv
  <1> SUFFICES ASSUME UsageOf PROVE UsageInv
    OBVIOUS
  <1>1. Rusage!TypeOK
    <2>1. \A t \in Threads : rcall[t].who \in Rusage!RUSAGE /\ rcall[t].left \subseteq Threads
      BY UsageTypes DEF UsageCall
    <2> QED
      BY <2>1, UsageTypes DEF Rusage!TypeOK, UsageTyped, Counters
  <1>2. Rusage!UsedOnce
    BY UsageTypes, UsedIs DEF Rusage!UsedOnce, Rusage!At, Sampling
  <1>3. Rusage!ChildrenWhole
    BY UsageTypes DEF Rusage!ChildrenWhole, Rusage!At, Sampling
  <1> QED
    BY <1>1, <1>2, <1>3 DEF UsageInv, Rusage!UsageInv

\* getrusage counts what a thread has used once, whenever threads exit, and a sample
\* has all of a reaped child's counters or none: for any number of threads, children
\* and callers (k_getrusage).
THEOREM UsageCounted == CallsSpec => []UsageInv
  BY EachPart, UsageStart, UsageKept, UsageImplies, PTL

-----------------------------------------------------------------------------
(* The host's name.                                                        *)

Char == {NUL} \cup {n[i] : n \in Names, i \in Uts!Field}
Text == [Uts!Field -> Char]
NamePcs == {"idle", "down", "write", "fault", "read", "done", "failed"}
NameCall == [pc : NamePcs, op : {"get", "set", "uname", "old"}, name : Names \cup {Uts!Blank},
             len : Int, size : Int, i : Nat, out : Text, was : Text]

NameTyped ==
    /\ nodename \in Text /\ ncall \in [Tasks -> NameCall]
    /\ uts_sem \in [writer : Tasks \cup {Nobody}, readers : SUBSET Tasks]

\* The name while it is written: what was stored of the call k, and the rest of the old one.
Partly(k) == [j \in Uts!Field |-> IF j < k.i THEN IF j <= k.len THEN k.name[j] ELSE NUL
                                  ELSE k.was[j]]

\* What a reader has is the name it found, up to where it is; gethostname comes to
\* its end when the buffer has room for it.
ReadSoFar(k) ==
    /\ k.was \in Uts!Whole /\ k.len \in 0 .. NEW_UTS_LEN + 1 /\ k.i <= k.len + 1
    /\ \A j \in 1 .. k.i - 1 : k.out[j] = k.was[j]
    /\ k.op = "get" /\ k.size > Uts!strlen(k.was) => k.len = Uts!strlen(k.was) + 1

\* The size of the buffer that each call is given.
Sized(k) == /\ k.op = "get" => k.size >= 0
            /\ k.op = "uname" => k.size = NEW_UTS_LEN + 1
            /\ k.op = "old" => k.size = OLD_UTS_LEN

\* What holds of the call k of task t while the name is n and the lock is s.
CallOnName(t, k, n, s) ==
    /\ k.i \in 1 .. NEW_UTS_LEN + 2
    /\ k.pc \in {"write", "fault"} <=> s.writer = t
    /\ k.pc = "read" <=> t \in s.readers
    /\ (k.pc = "down" /\ k.op = "set") \/ k.pc \in {"write", "fault"} =>
          k.name \in Names /\ k.len \in Lens /\ Uts!LenFits(k.len)
    /\ k.pc = "down" => k.i = 1 /\ Sized(k)
    /\ k.pc = "write" => k.was \in Uts!Whole /\ n = Partly(k)
    /\ k.pc = "fault" => k.was \in Uts!Whole /\ n = k.was
    /\ k.pc = "read" => ReadSoFar(k) /\ n = k.was
    /\ k.pc = "done" => ReadSoFar(k) /\ k.i > k.len

\* A name is whole while nobody writes it; one writes alone.
Shared(n, s) == IF s.writer = Nobody THEN n \in Uts!Whole ELSE s.readers = {}

NameOf == /\ NameTyped /\ Shared(nodename, uts_sem)
          /\ \A t \in Tasks : CallOnName(t, ncall[t], nodename, uts_sem)

LEMMA HostFacts ==
    /\ Admin \subseteq Tasks /\ Nobody \notin Tasks
    /\ OLD_UTS_LEN \in Nat /\ NEW_UTS_LEN \in Nat /\ OLD_UTS_LEN <= NEW_UTS_LEN
    /\ Lens \subseteq Int /\ Uts!Field = 1 .. NEW_UTS_LEN + 1
    /\ Uts!Blank \in Text /\ Uts!Blank \in Uts!Whole /\ Uts!Idle \in NameCall
  <1>1. /\ Admin \subseteq Tasks /\ Nobody \notin Tasks
        /\ OLD_UTS_LEN \in Nat /\ NEW_UTS_LEN \in Nat /\ OLD_UTS_LEN <= NEW_UTS_LEN
        /\ Lens \subseteq Int
    BY CallsAssumption DEF Uts!HostNameAssumption
  <1>2. Uts!Field = 1 .. NEW_UTS_LEN + 1
    BY DEF Uts!Field
  <1>3. Uts!Blank \in Text /\ Uts!Blank \in Uts!Whole
    BY DEF Uts!Blank, Text, Char, Uts!Whole
  <1>4. Uts!Idle \in NameCall
    BY <1>3 DEF Uts!Idle, NameCall, NamePcs
  <1> QED
    BY <1>1, <1>2, <1>3, <1>4

\* A whole name is a text that has its end within the array.
LEMMA WholeEnds ==
    ASSUME NEW n \in Uts!Whole
    PROVE  n \in Text /\ n[NEW_UTS_LEN + 1] = NUL
  <1>1. CASE n = Uts!Blank
    BY <1>1, HostFacts DEF Uts!Blank, Text, Char
  <1>2. CASE n # Uts!Blank
    <2>1. PICK m \in Names, len \in Lens :
             Uts!LenFits(len) /\ n = [i \in Uts!Field |-> IF i <= len THEN m[i] ELSE NUL]
      BY <1>2 DEF Uts!Whole
    <2>2. n \in Text
      BY <2>1 DEF Text, Char
    <2>3. ~(NEW_UTS_LEN + 1 <= len)
      BY <2>1, HostFacts DEF Uts!LenFits
    <2> QED
      BY <2>1, <2>2, <2>3, HostFacts
  <1> QED
    BY <1>1, <1>2

\* strlen finds the first end.
LEMMA StrlenEnds ==
    ASSUME NEW n \in Uts!Whole
    PROVE  Uts!strlen(n) \in 0 .. NEW_UTS_LEN /\ n[Uts!strlen(n) + 1] = NUL
  <1> DEFINE Ends == {k \in Nat : k \in 0 .. NEW_UTS_LEN /\ n[k + 1] = NUL}
  <1>1. NEW_UTS_LEN \in Ends
    BY HostFacts, WholeEnds
  <1>2. PICK k \in Ends : \A j \in Ends : ~(<<j, k>> \in OpToRel(<, Nat))
    <2>1. IsWellFoundedOn(OpToRel(<, Nat), Nat)
      BY NatLessThanWellFounded
    <2>2. Ends \subseteq Nat /\ Ends # {}
      BY <1>1
    <2> HIDE DEF Ends
    <2> QED
      BY <2>1, <2>2, WFMin
  <1>3. \A j \in 1 .. k : n[j] # NUL
    <2> SUFFICES ASSUME NEW j \in 1 .. k, n[j] = NUL PROVE FALSE
      OBVIOUS
    <2>1. k \in Nat /\ k \in 0 .. NEW_UTS_LEN
      BY <1>2
    <2>2. PICK m \in Nat : m = j - 1
      BY <2>1
    <2>3. m \in 0 .. NEW_UTS_LEN /\ m < k /\ m + 1 = j
      BY <2>1, <2>2, HostFacts
    <2>4. m \in Ends
      BY <2>3
    <2> QED
      BY <1>2, <2>1, <2>3, <2>4 DEF OpToRel
  <1>4. k \in 0 .. NEW_UTS_LEN /\ n[k + 1] = NUL
    BY <1>2
  <1>5. \E m \in 0 .. NEW_UTS_LEN : n[m + 1] = NUL /\ \A j \in 1 .. m : n[j] # NUL
    BY <1>3, <1>4
  <1> QED
    BY <1>5 DEF Uts!strlen

LEMMA NameStart == Uts!Init => NameOf
  <1> SUFFICES ASSUME Uts!Init PROVE NameOf
    OBVIOUS
  <1>1. /\ nodename = Uts!Blank /\ uts_sem = [writer |-> Nobody, readers |-> {}]
        /\ ncall = [t \in Tasks |-> Uts!Idle]
    BY DEF Uts!Init
  <1>2. NameTyped
    BY <1>1, HostFacts DEF NameTyped
  <1>3. Shared(nodename, uts_sem)
    BY <1>1, HostFacts DEF Shared
  <1>4. ASSUME NEW t \in Tasks PROVE CallOnName(t, ncall[t], nodename, uts_sem)
    <2>1. ncall[t].pc = "idle" /\ ncall[t].i = 1
      BY <1>1 DEF Uts!Idle
    <2> QED
      BY <1>1, <2>1, HostFacts DEF CallOnName
  <1> QED
    BY <1>2, <1>3, <1>4 DEF NameOf

\* A step of the call of t that leaves the name to the others as they have it.
LEMMA CallStep ==
    ASSUME NameOf, NEW t \in Tasks, NEW k \in NameCall, ncall' = [ncall EXCEPT ![t] = k],
           nodename' \in Text,
           uts_sem' \in [writer : Tasks \cup {Nobody}, readers : SUBSET Tasks],
           CallOnName(t, k, nodename', uts_sem'), Shared(nodename', uts_sem'),
           nodename' = nodename \/ uts_sem.writer = t,
           \A u \in Tasks \ {t} : /\ uts_sem'.writer = u <=> uts_sem.writer = u
                                  /\ u \in uts_sem'.readers <=> u \in uts_sem.readers
    PROVE  NameOf'
  <1>1. NameTyped'
    BY DEF NameOf, NameTyped
  <1>2. ncall'[t] = k /\ \A u \in Tasks \ {t} : ncall'[u] = ncall[u]
    BY DEF NameOf, NameTyped
  <1>3. ASSUME NEW u \in Tasks PROVE CallOnName(u, ncall'[u], nodename', uts_sem')
    <2>1. CASE u = t
      BY <1>2, <2>1
    <2>2. CASE u # t
      <3>1. CallOnName(u, ncall[u], nodename, uts_sem)
        BY DEF NameOf
      <3>2. /\ ncall'[u] = ncall[u] /\ (uts_sem'.writer = u <=> uts_sem.writer = u)
            /\ (u \in uts_sem'.readers <=> u \in uts_sem.readers)
        BY <1>2, <2>2
      <3>3. CASE nodename' = nodename
        BY <3>1, <3>2, <3>3 DEF CallOnName
      <3>4. CASE uts_sem.writer = t
        <4>1. uts_sem.readers = {} /\ uts_sem.writer # u
          BY <2>2, <3>4, HostFacts DEF NameOf, Shared
        <4>2. ncall[u].pc \notin {"write", "fault", "read"}
          BY <3>1, <4>1 DEF CallOnName
        <4> QED
          BY <3>1, <3>2, <4>2 DEF CallOnName
      <3> QED
        BY <3>3, <3>4
    <2> QED
      BY <2>1, <2>2
  <1> QED
    BY <1>1, <1>3 DEF NameOf

\* What the invariant says of one task.
LEMMA CallFacts ==
    ASSUME NameOf, NEW t \in Tasks
    PROVE  /\ nodename \in Text /\ ncall[t] \in NameCall
           /\ uts_sem \in [writer : Tasks \cup {Nobody}, readers : SUBSET Tasks]
           /\ CallOnName(t, ncall[t], nodename, uts_sem) /\ Shared(nodename, uts_sem)
           /\ NEW_UTS_LEN \in Nat /\ Nobody \notin Tasks /\ t # Nobody
  BY HostFacts DEF NameOf, NameTyped

\* A call begins.
LEMMA NameBegins ==
    ASSUME NameOf, NEW t \in Tasks, ncall[t].pc = "idle", NEW k \in NameCall,
           k.pc = "down", k.i = 1, Sized(k),
           k.op = "set" => k.name \in Names /\ k.len \in Lens /\ Uts!LenFits(k.len),
           ncall' = [ncall EXCEPT ![t] = k], UNCHANGED <<nodename, uts_sem>>
    PROVE  NameOf'
  <1>1. CallOnName(t, k, nodename, uts_sem)
    BY CallFacts DEF CallOnName
  <1> QED
    BY <1>1, CallFacts, CallStep

LEMMA NameAsked ==
    ASSUME NameOf, NEW t \in Tasks,
           Uts!sethostname(t) \/ Uts!gethostname(t) \/ Uts!newuname(t) \/ Uts!olduname(t)
    PROVE  NameOf'
  <1>1. CASE Uts!sethostname(t)
    <2>1. PICK n \in Names, len \in Lens :
             /\ Uts!LenFits(len) /\ ncall[t].pc = "idle" /\ UNCHANGED <<nodename, uts_sem>>
             /\ ncall' = [ncall EXCEPT ![t] =
                   [Uts!Idle EXCEPT !.pc = "down", !.op = "set", !.name = n, !.len = len]]
      BY <1>1 DEF Uts!sethostname, Uts!At
    <2>2. PICK k : k = [Uts!Idle EXCEPT !.pc = "down", !.op = "set", !.name = n, !.len = len]
      OBVIOUS
    <2>3. k \in NameCall /\ k.pc = "down" /\ k.i = 1 /\ k.name = n /\ k.len = len
          /\ k.op = "set"
      BY <2>2, HostFacts DEF NameCall, NamePcs, Uts!Idle
    <2> QED
      BY <2>1, <2>2, <2>3, NameBegins DEF Sized
  <1>2. ASSUME NEW op \in {"get", "uname", "old"}, NEW len \in Int, Uts!Read(t, op, len),
               /\ op = "get" => len >= 0
               /\ op = "uname" => len = NEW_UTS_LEN + 1
               /\ op = "old" => len = OLD_UTS_LEN
        PROVE  NameOf'
    <2>1. /\ ncall[t].pc = "idle" /\ UNCHANGED <<nodename, uts_sem>>
          /\ ncall' = [ncall EXCEPT ![t] = [Uts!Idle EXCEPT !.pc = "down", !.op = op, !.size = len]]
      BY <1>2 DEF Uts!Read, Uts!At
    <2>2. PICK k : k = [Uts!Idle EXCEPT !.pc = "down", !.op = op, !.size = len]
      OBVIOUS
    <2>3. k \in NameCall /\ k.pc = "down" /\ k.i = 1 /\ k.op = op /\ k.size = len
      BY <2>2, HostFacts DEF NameCall, NamePcs, Uts!Idle
    <2>4. Sized(k)
      BY <1>2, <2>3 DEF Sized
    <2> QED
      BY <2>1, <2>2, <2>3, <2>4, NameBegins
  <1>3. CASE Uts!gethostname(t)
    <2>1. PICK len \in Lens : Uts!Read(t, "get", len) /\ len >= 0
      BY <1>3 DEF Uts!gethostname
    <2> QED
      BY <1>2, <2>1, HostFacts
  <1>4. CASE Uts!newuname(t)
    <2>1. NEW_UTS_LEN + 1 \in Int
      BY HostFacts
    <2> QED
      BY <1>2, <1>4, <2>1 DEF Uts!newuname
  <1>5. CASE Uts!olduname(t)
    BY <1>2, <1>5, HostFacts DEF Uts!olduname
  <1> QED
    BY <1>1, <1>3, <1>4, <1>5

LEMMA NameLocked == ASSUME NameOf, NEW t \in Tasks, Uts!DownWrite(t) PROVE NameOf'
  <1>1. /\ ncall[t].pc = "down" /\ ncall[t].op = "set"
        /\ uts_sem = [writer |-> Nobody, readers |-> {}]
        /\ uts_sem' = [uts_sem EXCEPT !.writer = t] /\ nodename' = nodename
        /\ ncall' = [ncall EXCEPT ![t].pc = "write", ![t].was = nodename]
    BY DEF Uts!DownWrite, Uts!At, Uts!Free
  <1>2. PICK k : k = [ncall[t] EXCEPT !.pc = "write", !.was = nodename]
    OBVIOUS
  <1>3. ncall' = [ncall EXCEPT ![t] = k]
    BY <1>1, <1>2, CallFacts
  <1>4. /\ k \in NameCall /\ k.pc = "write" /\ k.was = nodename /\ k.op = "set"
        /\ k.i = ncall[t].i /\ k.len = ncall[t].len /\ k.name = ncall[t].name
    BY <1>1, <1>2, CallFacts DEF NameCall, NamePcs
  <1>5. nodename \in Uts!Whole /\ k.i = 1
    BY <1>1, <1>4, CallFacts DEF Shared, CallOnName
  <1>6. nodename = Partly(k)
    <2>1. \A j \in Uts!Field : ~(j < k.i)
      BY <1>5, HostFacts
    <2>2. nodename = [j \in Uts!Field |-> nodename[j]]
      BY CallFacts DEF Text
    <2> QED
      BY <1>4, <2>1, <2>2 DEF Partly
  <1>7. uts_sem' = [writer |-> t, readers |-> {}]
    BY <1>1
  <1>8. CallOnName(t, k, nodename', uts_sem')
    BY <1>1, <1>4, <1>5, <1>6, <1>7, CallFacts DEF CallOnName
  <1> QED
    BY <1>1, <1>3, <1>4, <1>7, <1>8, CallFacts, CallStep DEF Shared

LEMMA NameFaults == ASSUME NameOf, NEW t \in Tasks, Uts!Fault(t) PROVE NameOf'
  <1>1. /\ ncall[t].pc = "write" /\ ncall[t].i = 1
        /\ ncall' = [ncall EXCEPT ![t].pc = "fault"] /\ UNCHANGED <<nodename, uts_sem>>
    BY DEF Uts!Fault, Uts!At
  <1>2. PICK k : k = [ncall[t] EXCEPT !.pc = "fault"]
    OBVIOUS
  <1>3. ncall' = [ncall EXCEPT ![t] = k]
    BY <1>1, <1>2, CallFacts
  <1>4. /\ k \in NameCall /\ k.pc = "fault" /\ k.was = ncall[t].was /\ k.op = ncall[t].op
        /\ k.i = ncall[t].i /\ k.len = ncall[t].len /\ k.name = ncall[t].name
    BY <1>2, CallFacts DEF NameCall, NamePcs
  <1>5. nodename = k.was
    <2>1. nodename = Partly(ncall[t]) /\ k.was \in Text
      BY <1>1, <1>4, CallFacts DEF CallOnName, NameCall
    <2>2. \A j \in Uts!Field : ~(j < ncall[t].i)
      BY <1>1, HostFacts
    <2>3. k.was = [j \in Uts!Field |-> k.was[j]]
      BY <2>1 DEF Text
    <2> QED
      BY <1>4, <2>1, <2>2, <2>3 DEF Partly
  <1>6. CallOnName(t, k, nodename', uts_sem')
    BY <1>1, <1>4, <1>5, CallFacts DEF CallOnName
  <1> QED
    BY <1>1, <1>3, <1>4, <1>6, CallFacts, CallStep

LEMMA NameStored == ASSUME NameOf, NEW t \in Tasks, Uts!StoreByte(t) PROVE NameOf'
  <1>1. /\ ncall[t].pc = "write" /\ ~(ncall[t].i > NEW_UTS_LEN + 1) /\ uts_sem' = uts_sem
        /\ nodename' = [nodename EXCEPT ![ncall[t].i] =
                          IF ncall[t].i <= ncall[t].len THEN ncall[t].name[ncall[t].i] ELSE NUL]
        /\ ncall' = [ncall EXCEPT ![t].i = @ + 1]
    BY DEF Uts!StoreByte, Uts!At, Uts!Stored
  <1>2. PICK k : k = [ncall[t] EXCEPT !.i = ncall[t].i + 1]
    OBVIOUS
  <1>3. ncall' = [ncall EXCEPT ![t] = k]
    BY <1>1, <1>2, CallFacts
  <1>4. /\ k \in NameCall /\ k.pc = "write" /\ k.was = ncall[t].was /\ k.op = ncall[t].op
        /\ k.i = ncall[t].i + 1 /\ k.len = ncall[t].len /\ k.name = ncall[t].name
    BY <1>1, <1>2, CallFacts DEF NameCall, NamePcs
  <1>5. /\ ncall[t].i \in Uts!Field /\ k.i \in 1 .. NEW_UTS_LEN + 2
        /\ ncall[t].i \in Nat /\ k.len \in Int
    BY <1>1, <1>4, CallFacts, HostFacts DEF CallOnName, NameCall
  <1>6. /\ nodename = Partly(ncall[t]) /\ k.was \in Uts!Whole
        /\ k.name \in Names /\ k.len \in Lens /\ Uts!LenFits(k.len) /\ uts_sem.writer = t
        /\ t \notin uts_sem.readers
    BY <1>1, <1>4, CallFacts DEF CallOnName
  <1>7. nodename' = Partly(k)
    <2>1. ASSUME NEW j \in Uts!Field PROVE nodename'[j] = Partly(k)[j]
      <3>1. j \in Int
        BY HostFacts
      <3>2. CASE j = ncall[t].i
        BY <1>1, <1>4, <1>5, <3>1, <3>2, CallFacts DEF Partly, Text
      <3>3. CASE j # ncall[t].i
        <4>1. nodename'[j] = Partly(ncall[t])[j]
          BY <1>1, <1>6, <3>3, CallFacts DEF Text
        <4>2. j < k.i <=> j < ncall[t].i
          BY <1>4, <1>5, <3>1, <3>3
        <4> QED
          BY <1>4, <4>1, <4>2 DEF Partly
      <3> QED
        BY <3>2, <3>3
    <2>2. nodename' = [j \in Uts!Field |-> nodename'[j]]
      BY <1>1, CallFacts DEF Text
    <2> QED
      BY <2>1, <2>2 DEF Partly
  <1>8. nodename' \in Text
    <2>1. (IF ncall[t].i <= ncall[t].len THEN ncall[t].name[ncall[t].i] ELSE NUL) \in Char
      BY <1>4, <1>5, <1>6 DEF Char
    <2> QED
      BY <1>1, <2>1, CallFacts DEF Text
  <1>9. CallOnName(t, k, nodename', uts_sem')
    BY <1>1, <1>4, <1>5, <1>6, <1>7, CallFacts DEF CallOnName
  <1>10. Shared(nodename', uts_sem')
    BY <1>1, <1>6, CallFacts DEF Shared
  <1> QED
    BY <1>1, <1>3, <1>4, <1>6, <1>8, <1>9, <1>10, CallFacts, CallStep

LEMMA NameUnlocked == ASSUME NameOf, NEW t \in Tasks, Uts!UpWrite(t) PROVE NameOf'
  <1>1. /\ ncall[t].pc \in {"write", "fault"}
        /\ ncall[t].pc = "write" => ncall[t].i > NEW_UTS_LEN + 1
        /\ uts_sem' = [uts_sem EXCEPT !.writer = Nobody] /\ nodename' = nodename
        /\ ncall' = [ncall EXCEPT ![t] = Uts!Idle]
    BY DEF Uts!UpWrite, Uts!At, Uts!Stored
  <1>2. nodename \in Uts!Whole
    <2>1. CASE ncall[t].pc = "fault"
      BY <2>1, CallFacts DEF CallOnName
    <2>2. CASE ncall[t].pc = "write"
      <3>1. /\ nodename = Partly(ncall[t]) /\ ncall[t].name \in Names /\ ncall[t].len \in Lens
            /\ Uts!LenFits(ncall[t].len) /\ ncall[t].i \in Nat
        BY <2>2, CallFacts DEF CallOnName, NameCall
      <3>2. \A j \in Uts!Field : j < ncall[t].i
        BY <1>1, <2>2, <3>1, HostFacts
      <3>3. nodename = [j \in Uts!Field |-> IF j <= ncall[t].len THEN ncall[t].name[j] ELSE NUL]
        BY <3>1, <3>2 DEF Partly
      <3> QED
        BY <3>1, <3>3 DEF Uts!Whole
    <2> QED
      BY <1>1, <2>1, <2>2
  <1>3. uts_sem.writer = t /\ uts_sem.readers = {}
    BY <1>1, CallFacts DEF CallOnName, Shared
  <1>4. uts_sem' = [writer |-> Nobody, readers |-> {}]
    BY <1>1, <1>3, CallFacts
  <1>5. Uts!Idle \in NameCall /\ Uts!Idle.pc = "idle" /\ Uts!Idle.i = 1
    BY HostFacts DEF Uts!Idle
  <1>6. CallOnName(t, Uts!Idle, nodename', uts_sem')
    BY <1>4, <1>5, CallFacts DEF CallOnName
  <1>7. Shared(nodename', uts_sem')
    BY <1>1, <1>2, <1>4 DEF Shared
  <1>8. /\ uts_sem' \in [writer : Tasks \cup {Nobody}, readers : SUBSET Tasks]
        /\ \A u \in Tasks \ {t} : /\ uts_sem'.writer = u <=> uts_sem.writer = u
                                  /\ u \in uts_sem'.readers <=> u \in uts_sem.readers
    BY <1>3, <1>4, HostFacts
  <1> QED
    BY <1>1, <1>5, <1>6, <1>7, <1>8, CallFacts, CallStep

\* How much a reader is given fits the array.
LEMMA LengthFits ==
    ASSUME NEW op \in {"get", "uname", "old"}, NEW size \in Int, nodename \in Uts!Whole,
           op = "get" => size >= 0,
           op = "uname" => size = NEW_UTS_LEN + 1, op = "old" => size = OLD_UTS_LEN
    PROVE  /\ Uts!Length(op, size) \in 0 .. NEW_UTS_LEN + 1
           /\ op = "get" /\ size > Uts!strlen(nodename) =>
                 Uts!Length(op, size) = Uts!strlen(nodename) + 1
  <1>1. Uts!strlen(nodename) \in 0 .. NEW_UTS_LEN
    BY StrlenEnds
  <1>2. PICK m \in 0 .. NEW_UTS_LEN : m = Uts!strlen(nodename)
    BY <1>1
  <1>3. Uts!Length(op, size) = IF op = "get" THEN IF 1 + m < size THEN 1 + m ELSE size ELSE size
    BY <1>2 DEF Uts!Length, Uts!Least
  <1> QED
    BY <1>2, <1>3, HostFacts

LEMMA NameFound == ASSUME NameOf, NEW t \in Tasks, Uts!DownRead(t) PROVE NameOf'
  <1>1. /\ ncall[t].pc = "down" /\ ncall[t].op # "set" /\ uts_sem.writer = Nobody
        /\ uts_sem' = [uts_sem EXCEPT !.readers = @ \cup {t}] /\ nodename' = nodename
        /\ ncall' = [ncall EXCEPT ![t].pc = "read", ![t].was = nodename,
                                  ![t].len = Uts!Length(ncall[t].op, ncall[t].size)]
    BY DEF Uts!DownRead, Uts!At
  <1>2. PICK l : l = Uts!Length(ncall[t].op, ncall[t].size)
    OBVIOUS
  <1>3. /\ nodename \in Uts!Whole /\ l \in 0 .. NEW_UTS_LEN + 1
        /\ ncall[t].op = "get" /\ ncall[t].size > Uts!strlen(nodename) =>
              l = Uts!strlen(nodename) + 1
    <2>1. /\ nodename \in Uts!Whole /\ Sized(ncall[t]) /\ ncall[t].size \in Int
          /\ ncall[t].op \in {"get", "uname", "old"}
      BY <1>1, CallFacts DEF Shared, CallOnName, NameCall
    <2> QED
      BY <1>2, <2>1, LengthFits DEF Sized
  <1>4. PICK k : k = [ncall[t] EXCEPT !.pc = "read", !.was = nodename, !.len = l]
    OBVIOUS
  <1>5. ncall' = [ncall EXCEPT ![t] = k]
    BY <1>1, <1>2, <1>4, CallFacts
  <1>6. /\ k \in NameCall /\ k.pc = "read" /\ k.was = nodename /\ k.len = l
        /\ k.i = ncall[t].i /\ k.op = ncall[t].op /\ k.size = ncall[t].size
    <2>1. l \in Int /\ nodename \in Text /\ ncall[t] \in NameCall
      BY <1>3, CallFacts
    <2> QED
      BY ONLY <1>4, <2>1 DEF NameCall, NamePcs
  <1>7. k.i = 1
    BY <1>1, <1>6, CallFacts DEF CallOnName
  <1>8. ReadSoFar(k)
    BY <1>3, <1>6, <1>7, HostFacts DEF ReadSoFar
  <1>9. /\ uts_sem' \in [writer : Tasks \cup {Nobody}, readers : SUBSET Tasks]
        /\ uts_sem'.writer = Nobody /\ uts_sem'.readers = uts_sem.readers \cup {t}
    BY <1>1, CallFacts
  <1>10. CallOnName(t, k, nodename', uts_sem')
    BY <1>1, <1>6, <1>7, <1>8, <1>9, CallFacts DEF CallOnName
  <1>11. Shared(nodename', uts_sem')
    BY <1>1, <1>3, <1>9 DEF Shared
  <1> QED
    BY <1>1, <1>5, <1>6, <1>9, <1>10, <1>11, CallFacts, CallStep

LEMMA NameRead == ASSUME NameOf, NEW t \in Tasks, Uts!ReadByte(t) PROVE NameOf'
  <1>1. /\ ncall[t].pc = "read" /\ ncall[t].i <= ncall[t].len /\ UNCHANGED <<nodename, uts_sem>>
        /\ ncall' = [ncall EXCEPT ![t].i = @ + 1, ![t].out[ncall[t].i] = nodename[ncall[t].i]]
    BY DEF Uts!ReadByte, Uts!At
  <1>2. /\ ncall[t].i \in Nat /\ ncall[t].len \in Int /\ ReadSoFar(ncall[t])
        /\ nodename = ncall[t].was /\ ncall[t].out \in Text /\ ncall[t].i >= 1
    BY <1>1, CallFacts DEF CallOnName, NameCall
  <1>11. PICK i \in Nat : i = ncall[t].i + 1
    BY <1>2
  <1>12. PICK o : o = [ncall[t].out EXCEPT ![ncall[t].i] = nodename[ncall[t].i]]
    OBVIOUS
  <1>3. i = ncall[t].i + 1 /\ o = [ncall[t].out EXCEPT ![ncall[t].i] = nodename[ncall[t].i]]
    BY <1>11, <1>12
  <1>4. ncall[t].i \in Uts!Field /\ i \in 1 .. NEW_UTS_LEN + 2 /\ i <= ncall[t].len + 1
    BY <1>1, <1>2, <1>3, HostFacts DEF ReadSoFar
  <1>5. o \in Text /\ \A j \in 1 .. i - 1 : o[j] = nodename[j]
    <2>1. o \in Text
      BY <1>2, <1>3, <1>4, CallFacts DEF Text
    <2>2. ASSUME NEW j \in 1 .. i - 1 PROVE o[j] = nodename[j]
      <3>1. CASE j = ncall[t].i
        BY <1>2, <1>3, <1>4, <3>1 DEF Text
      <3>2. CASE j # ncall[t].i
        <4>1. j \in 1 .. ncall[t].i - 1 /\ j \in Uts!Field
          BY <1>2, <1>3, <1>4, <3>2, HostFacts
        <4> QED
          BY <1>2, <1>3, <3>2, <4>1 DEF Text, ReadSoFar
      <3> QED
        BY <3>1, <3>2
    <2> QED
      BY <2>1, <2>2
  <1>6. PICK k : k = [ncall[t] EXCEPT !.i = i, !.out = o]
    OBVIOUS
  <1>7. ncall' = [ncall EXCEPT ![t] = k]
    BY <1>1, <1>3, <1>6, CallFacts
  <1>8. /\ k \in NameCall /\ k.pc = "read" /\ k.was = ncall[t].was /\ k.len = ncall[t].len
        /\ k.i = i /\ k.op = ncall[t].op /\ k.size = ncall[t].size /\ k.out = o
    <2>1. ncall[t] \in NameCall /\ ncall[t].pc = "read" /\ i \in Nat /\ o \in Text
      BY <1>1, <1>5, CallFacts
    <2> QED
      BY ONLY <1>6, <2>1 DEF NameCall
  <1>9. ReadSoFar(k)
    BY <1>2, <1>4, <1>5, <1>8 DEF ReadSoFar
  <1>10. CallOnName(t, k, nodename', uts_sem')
    BY <1>1, <1>2, <1>4, <1>8, <1>9, CallFacts DEF CallOnName
  <1> QED
    BY <1>1, <1>7, <1>8, <1>10, CallFacts, CallStep

LEMMA NameGiven == ASSUME NameOf, NEW t \in Tasks, Uts!UpRead(t) PROVE NameOf'
  <1>1. /\ ncall[t].pc = "read" /\ nodename' = nodename
        /\ uts_sem' = [uts_sem EXCEPT !.readers = @ \ {t}]
        /\ ncall' = [ncall EXCEPT ![t].pc = IF ncall[t].i > ncall[t].len THEN "done" ELSE "failed"]
    BY DEF Uts!UpRead, Uts!At
  <1>2. PICK p \in {"done", "failed"} :
           p = IF ncall[t].i > ncall[t].len THEN "done" ELSE "failed"
    OBVIOUS
  <1>3. PICK k : k = [ncall[t] EXCEPT !.pc = p]
    OBVIOUS
  <1>4. ncall' = [ncall EXCEPT ![t] = k]
    BY <1>1, <1>2, <1>3, CallFacts
  <1>5. /\ k \in NameCall /\ k.pc = p /\ k.was = ncall[t].was /\ k.len = ncall[t].len
        /\ k.i = ncall[t].i /\ k.op = ncall[t].op /\ k.size = ncall[t].size /\ k.out = ncall[t].out
    BY <1>3, CallFacts DEF NameCall, NamePcs
  <1>6. ReadSoFar(k)
    BY <1>1, <1>5, CallFacts DEF CallOnName, ReadSoFar
  <1>7. uts_sem.writer # t /\ t \in uts_sem.readers
    BY <1>1, CallFacts DEF CallOnName
  <1>8. /\ uts_sem' \in [writer : Tasks \cup {Nobody}, readers : SUBSET Tasks]
        /\ uts_sem'.writer = uts_sem.writer /\ uts_sem'.readers = uts_sem.readers \ {t}
    BY <1>1, CallFacts
  <1>9. CallOnName(t, k, nodename', uts_sem')
    BY <1>1, <1>2, <1>5, <1>6, <1>7, <1>8, CallFacts DEF CallOnName
  <1>10. Shared(nodename', uts_sem')
    BY <1>1, <1>7, <1>8, CallFacts DEF Shared
  <1> QED
    BY <1>1, <1>4, <1>5, <1>8, <1>9, <1>10, CallFacts, CallStep

LEMMA NameReturned == ASSUME NameOf, NEW t \in Tasks, Uts!Return(t) PROVE NameOf'
  <1>1. /\ ncall[t].pc \in {"done", "failed"} /\ UNCHANGED <<nodename, uts_sem>>
        /\ ncall' = [ncall EXCEPT ![t] = Uts!Idle]
    BY DEF Uts!Return, Uts!At
  <1>2. Uts!Idle \in NameCall /\ Uts!Idle.pc = "idle" /\ Uts!Idle.i = 1
    BY HostFacts DEF Uts!Idle
  <1>3. CallOnName(t, Uts!Idle, nodename, uts_sem)
    BY <1>1, <1>2, CallFacts DEF CallOnName
  <1> QED
    BY <1>1, <1>2, <1>3, CallFacts, CallStep

LEMMA NameKept == NameOf /\ [Uts!Next]_(Uts!vars) => NameOf'
  <1> SUFFICES ASSUME NameOf, [Uts!Next]_(Uts!vars) PROVE NameOf'
    OBVIOUS
  <1>1. CASE UNCHANGED Uts!vars
    BY <1>1 DEF Uts!vars, NameOf, NameTyped, Shared, CallOnName, ReadSoFar, Partly
  <1>2. CASE Uts!Next
    BY <1>2, NameAsked, NameLocked, NameFaults, NameStored, NameUnlocked, NameFound, NameRead,
       NameGiven, NameReturned DEF Uts!Next, Uts!Step
  <1> QED
    BY <1>1, <1>2

LEMMA NameImplies == NameOf => NameInv
  <1> SUFFICES ASSUME NameOf PROVE NameInv
    OBVIOUS
  <1>1. Uts!TypeOK
    <2>1. nodename[NEW_UTS_LEN + 1] = NUL
      <3>1. CASE uts_sem.writer = Nobody
        BY <3>1, WholeEnds DEF NameOf, Shared
      <3>2. CASE uts_sem.writer \in Tasks
        <4>1. PICK t \in Tasks : uts_sem.writer = t
          BY <3>2
        <4>2. CASE ncall[t].pc = "fault"
          BY <4>2, CallFacts, WholeEnds DEF CallOnName
        <4>3. CASE ncall[t].pc = "write"
          <5>1. /\ nodename = Partly(ncall[t]) /\ ncall[t].was \in Uts!Whole
                /\ Uts!LenFits(ncall[t].len) /\ ncall[t].len \in Int
            BY <4>3, CallFacts DEF CallOnName, NameCall
          <5>2. ncall[t].was[NEW_UTS_LEN + 1] = NUL
            BY <5>1, WholeEnds
          <5>3. NEW_UTS_LEN + 1 \in Uts!Field /\ ~(NEW_UTS_LEN + 1 <= ncall[t].len)
            BY <5>1, HostFacts DEF Uts!LenFits
          <5> QED
            BY <5>1, <5>2, <5>3 DEF Partly
        <4> QED
          BY <4>1, <4>2, <4>3, CallFacts DEF CallOnName
      <3> QED
        BY <3>1, <3>2 DEF NameOf, NameTyped
    <2>2. DOMAIN nodename = Uts!Field
      BY DEF NameOf, NameTyped, Text
    <2>3. /\ uts_sem.writer \in Tasks \cup {Nobody} /\ uts_sem.readers \subseteq Tasks
          /\ \A t \in Tasks : ncall[t].i \in 1 .. NEW_UTS_LEN + 2
      BY DEF NameOf, NameTyped, CallOnName
    <2> QED
      BY <2>1, <2>2, <2>3 DEF Uts!TypeOK
  <1>2. ASSUME NEW t \in Tasks, ncall[t].pc = "done"
        PROVE  /\ ncall[t].was \in Uts!Whole
               /\ \A i \in 1 .. ncall[t].len : ncall[t].out[i] = ncall[t].was[i]
               /\ ncall[t].op = "get" /\ ncall[t].size > Uts!strlen(ncall[t].was) =>
                     \E i \in 1 .. ncall[t].len : ncall[t].out[i] = NUL
    <2>1. /\ ReadSoFar(ncall[t]) /\ ncall[t].i > ncall[t].len
          /\ ncall[t].i \in Nat /\ ncall[t].len \in Int
      BY <1>2, CallFacts DEF CallOnName, NameCall
    <2>2. \A i \in 1 .. ncall[t].len : i \in 1 .. ncall[t].i - 1
      BY <2>1
    <2>3. ncall[t].was \in Uts!Whole
          /\ \A i \in 1 .. ncall[t].len : ncall[t].out[i] = ncall[t].was[i]
      BY <2>1, <2>2 DEF ReadSoFar
    <2>4. ASSUME ncall[t].op = "get" /\ ncall[t].size > Uts!strlen(ncall[t].was)
          PROVE  \E i \in 1 .. ncall[t].len : ncall[t].out[i] = NUL
      <3>1. ncall[t].len = Uts!strlen(ncall[t].was) + 1
        BY <2>1, <2>4 DEF ReadSoFar
      <3>2. /\ Uts!strlen(ncall[t].was) \in 0 .. NEW_UTS_LEN
            /\ ncall[t].was[Uts!strlen(ncall[t].was) + 1] = NUL
        BY <2>3, StrlenEnds
      <3>3. ncall[t].len \in 1 .. ncall[t].len
        BY <3>1, <3>2
      <3> QED
        BY <2>3, <3>1, <3>2, <3>3
    <2> QED
      BY <2>3, <2>4
  <1>3. Uts!ReadsOneName
    BY <1>2 DEF Uts!ReadsOneName, Uts!At
  <1>4. Uts!GetsItsEnd
    BY <1>2 DEF Uts!GetsItsEnd, Uts!At
  <1>5. Uts!FaultKeepsName
    BY CallFacts DEF Uts!FaultKeepsName, Uts!At, CallOnName
  <1> QED
    BY <1>1, <1>3, <1>4, <1>5 DEF NameInv, Uts!NameInv

\* Readers of the host's name get one that a call gave, as a whole and with its end,
\* whatever calls race with theirs and fail: for every length of the array and any
\* number of tasks (sethostname, gethostname, uname).
THEOREM NameWhole == CallsSpec => []NameInv
  BY EachPart, NameStart, NameKept, NameImplies, PTL

=============================================================================
