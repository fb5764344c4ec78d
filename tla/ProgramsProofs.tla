--------------------------- MODULE ProgramsProofs ---------------------------
(***************************************************************************)
(* The programs of the user, for every number of points of a curve, every  *)
(* size of the window, of the counters, of the buffer and of the files,    *)
(* and any number of processes and tasks: the CPU curve holds percentages  *)
(* and a curve is a sliding window of LoadWindow; the pointer into the     *)
(* list is of a row there is, the row Search finds is in view; procUI      *)
(* counts rightly; a copy that met no fault is one, and every way out of a *)
(* copy cleans up.                                                         *)
(***************************************************************************)
EXTENDS UserPrograms, SequenceTheorems, FiniteSetTheorems, WellFoundedInduction,
        NaturalsInduction, TLAPS

-----------------------------------------------------------------------------
(* The curves.                                                             *)

Curve == [data : [Index -> Samples], now_pos : Index,
          start : {4, 8, 12, 16, 20}, flag : BOOLEAN, timer : BOOLEAN]

\* Before the first call the data is all zeroes, as the first call makes it.
ClearData(d) == ~d.flag => d.data = [i \in Index |-> 0]
Clear == \A c \in Curves : ClearData(curve[c])

\* get_cpu_usage reads once in a second: the counters are those of the last
\* reading, or one second's advance away from them.
Advanced ==
    \E a \in Advances : /\ stat.idle = (cpu.old_idle + a.idle) % Cycle
                        /\ stat.total = (cpu.old_total + a.idle + a.busy) % Cycle
Reading ==
    /\ ~cpu.flag => turn = 1
    /\ cpu.flag /\ turn = 1 => Advanced
    /\ turn # 1 => stat.idle = cpu.old_idle /\ stat.total = cpu.old_total

CpuIn == usage["cpu"] \in Percent /\ CpuSampled

IInv == TypeOK /\ Clear /\ Reading /\ CpuIn

-----------------------------------------------------------------------------
(* Numbers.                                                                *)

\* A share of a time is a percentage.
LEMMA ShareIsPercent ==
    ASSUME NEW part \in Nat, NEW whole \in Nat, part <= whole, whole # 0
    PROVE  (100 * part) \div whole \in Percent
  BY SMT DEF Percent

\* The difference of two readings is what the second added, also across the
\* end of the cycle.
LEMMA DifferenceCounts ==
    ASSUME NEW C \in Nat \ {0}, NEW old \in 0 .. C - 1, NEW more \in 0 .. C - 1
    PROVE  /\ (old + more) % C \in 0 .. C - 1
           /\ (((old + more) % C) - old) % C = more
<1>1. CASE old + more < C
  <2>1. (old + more) % C = old + more BY <1>1, SMT
  <2>2. more % C = more BY SMT
  <2>. QED BY <2>1, <2>2, <1>1, SMT
<1>2. CASE old + more >= C
  <2>1. (old + more) % C = old + more - C BY <1>2, SMT
  <2>2. (more - C) % C = more BY SMT
  <2>. QED BY <2>1, <2>2, <1>2, SMT
<1>. QED BY <1>1, <1>2, SMT

-----------------------------------------------------------------------------
(* The ring.                                                               *)

\* The next place is in the ring.
LEMMA AroundIn ==
    ASSUME NEW p \in Index
    PROVE  Around(p + 1) \in Index
  BY MetersAssumption, SMT DEF Around, Index

\* Drawing keeps a curve's type, and leaves data that is not as at first.
LEMMA DrawnType ==
    ASSUME NEW d \in Curve, NEW s \in Samples
    PROVE  Drawn(d, s) \in Curve /\ Drawn(d, s).flag
<1>1. 0 \in Samples BY SMT DEF Samples, Percent
<1>. DEFINE cleared == IF d.flag THEN d.data ELSE [i \in Index |-> 0]
<1>2. cleared \in [Index -> Samples] BY <1>1 DEF Curve
<1>3. [cleared EXCEPT ![d.now_pos] = s] \in [Index -> Samples] BY <1>2
<1>4. Around(d.now_pos + 1) \in Index BY AroundIn DEF Curve
<1>5. NextStart(d.start) \in {4, 8, 12, 16, 20} BY SMT DEF Curve, NextStart
<1>. QED BY <1>3, <1>4, <1>5 DEF Drawn, Curve

\* What a window is after one more sample, position by position.
LEMMA Slide ==
    ASSUME NEW n \in Nat \ {0, 1}, NEW S, NEW f \in Seq(S), Len(f) = n, NEW s \in S
    PROVE  Append(Tail(f), s) = [i \in 1 .. n |-> IF i < n THEN f[i + 1] ELSE s]
<1>. DEFINE w == Append(Tail(f), s)
            v == [i \in 1 .. n |-> IF i < n THEN f[i + 1] ELSE s]
<1>1. f # << >> BY SMT
<1>2. /\ Tail(f) \in Seq(S) /\ Len(Tail(f)) = n - 1
      /\ \A i \in 1 .. n - 1 : Tail(f)[i] = f[i + 1]
  BY <1>1, HeadTailProperties
<1>3. /\ w \in Seq(S) /\ Len(w) = n
      /\ \A i \in 1 .. n - 1 : w[i] = Tail(f)[i]
      /\ w[n] = s
  <2>1. Len(Tail(f)) + 1 = n BY <1>2, SMT
  <2>. QED BY <1>2, <2>1, AppendProperties
<1>4. v \in Seq(S) /\ Len(v) = n
  <2>1. \A i \in 1 .. n : (IF i < n THEN f[i + 1] ELSE s) \in S
    BY SMT
  <2>2. v \in [1 .. n -> S] BY <2>1
  <2>. QED BY <2>2
<1>5. \A i \in 1 .. n : w[i] = v[i]
  BY <1>2, <1>3, SMT
<1>. HIDE DEF w, v
<1>6. w = v BY <1>3, <1>4, <1>5, SeqEqual
<1>. QED BY <1>6 DEF w, v

\* Drawing moves the window on by one sample.
LEMMA DrawnSlides ==
    ASSUME NEW d \in Curve, NEW s \in Samples, ClearData(d)
    PROVE  Ring(Drawn(d, s)) = Append(Tail(Ring(d)), s)
<1>. DEFINE e == Drawn(d, s)
<1>1. d.now_pos \in Index /\ d.data \in [Index -> Samples] BY DEF Curve
<1>2. e.data = [d.data EXCEPT ![d.now_pos] = s] BY DEF Drawn, ClearData
<1>3. e.now_pos = Around(d.now_pos + 1) BY DEF Drawn
<1>. HIDE DEF e
<1>4. Ring(d) \in Seq(Samples) /\ Len(Ring(d)) = Points
  <2>1. ASSUME NEW i \in 1 .. Points PROVE Ring(d)[i] \in Samples
    BY <1>1, MetersAssumption, SMT DEF Ring, Index
  <2>2. Ring(d) \in [1 .. Points -> Samples] BY <2>1 DEF Ring
  <2>. QED BY <2>2, MetersAssumption
<1>. DEFINE w == Append(Tail(Ring(d)), s)
<1>5. w = [i \in 1 .. Points |-> IF i < Points THEN Ring(d)[i + 1] ELSE s]
  BY <1>4, MetersAssumption, Slide
<1>. HIDE DEF w
<1>6. ASSUME NEW i \in 1 .. Points
      PROVE  Ring(e)[i] = IF i < Points THEN Ring(d)[i + 1] ELSE s
  <2>. DEFINE p == d.now_pos
              at(q) == IF q + i - 1 < Points THEN q + i - 1 ELSE q + i - 1 - Points
              on == at(Around(p + 1))
  <2>1. p \in 0 .. Points - 1 /\ Around(p + 1) \in 0 .. Points - 1
    BY <1>1, AroundIn DEF Index
  <2>2. Ring(e)[i] = e.data[on] BY <1>3 DEF Ring
  <2>3. on \in Index BY <2>1, MetersAssumption, SMT DEF Index
  <2>4. e.data[on] = IF on = p THEN s ELSE d.data[on] BY <2>3, <1>1, <1>2
  <2>5. CASE i < Points
    <3>1. i + 1 \in 1 .. Points BY <2>5, MetersAssumption, SMT
    <3>2. Ring(d)[i + 1] = d.data[IF p + (i + 1) - 1 < Points THEN p + (i + 1) - 1
                                  ELSE p + (i + 1) - 1 - Points]
      BY <3>1 DEF Ring
    <3>3. /\ on # p
          /\ on = IF p + (i + 1) - 1 < Points THEN p + (i + 1) - 1
                  ELSE p + (i + 1) - 1 - Points
      BY <2>1, <2>5, MetersAssumption, SMT DEF Around
    <3>. QED BY <2>2, <2>4, <2>5, <3>2, <3>3
  <2>6. CASE ~(i < Points)
    <3>1. on = p BY <2>1, <2>6, MetersAssumption, SMT DEF Around
    <3>. QED BY <2>2, <2>4, <2>6, <3>1
  <2>. QED BY <2>5, <2>6
<1>7. Ring(e) = [i \in 1 .. Points |-> Ring(e)[i]] BY DEF Ring
<1>. QED BY <1>5, <1>6, <1>7 DEF e, w

\* What is drawn holds nothing but what was held, and the sample.
LEMMA DrawnHolds ==
    ASSUME NEW d \in Curve, NEW s \in Percent, \A i \in Index : d.data[i] \in Percent
    PROVE  \A i \in Index : Drawn(d, s).data[i] \in Percent
<1>1. 0 \in Percent BY SMT DEF Percent
<1>. DEFINE cleared == IF d.flag THEN d.data ELSE [i \in Index |-> 0]
<1>2. cleared \in [Index -> Percent] BY <1>1 DEF Curve
<1>. QED BY <1>2 DEF Drawn

-----------------------------------------------------------------------------
(* The invariant.                                                          *)

LEMMA InitOK == Init => IInv
<1>. SUFFICES ASSUME Init PROVE IInv OBVIOUS
<1>1. 0 \in Percent /\ 0 \in Index BY MetersAssumption, SMT DEF Percent, Index
<1>2. 0 \in 0 .. Cycle - 1 /\ 0 \in 0 .. MemTotal BY MetersAssumption, SMT
<1>3. NewCurve \in Curve /\ ClearData(NewCurve)
  BY <1>1 DEF NewCurve, Curve, ClearData, Samples
<1>4. TypeOK
  <2>1. turn \in 1 .. Len(Timers) + 1 BY SMT DEF Init, Timers
  <2>. QED BY <1>1, <1>2, <1>3, <2>1 DEF Init, TypeOK, Curve, Samples
<1>5. Clear BY <1>3 DEF Init, Clear
<1>6. Reading BY DEF Init, Reading
<1>7. CpuIn BY <1>1 DEF Init, CpuIn, CpuSampled, NewCurve
<1>. QED BY <1>4, <1>5, <1>6, <1>7 DEF IInv

\* A timer of main moves the turn on and nothing of the curves.
LEMMA TurnMoves ==
    ASSUME IInv, NextTurn
    PROVE  /\ turn' \in 1 .. Len(Timers) + 1 /\ turn' # 1
           /\ Timers[turn] = "cpu_usage" <=> turn = 1
           /\ Clear' /\ running' \in BOOLEAN /\ page' \in Curves \cup {"processes"}
           /\ due' \subseteq Curves /\ curve' \in [Curves -> Curve]
<1>1. turn \in 1 .. 6 /\ turn' = turn + 1 /\ Len(Timers) = 6
  BY SMT DEF NextTurn, Timers
<1>2. turn' \in 1 .. Len(Timers) + 1 /\ turn' # 1 BY <1>1, SMT
<1>3. Timers[turn] = "cpu_usage" <=> turn = 1
  <2>1. turn = 1 \/ turn = 2 \/ turn = 3 \/ turn = 4 \/ turn = 5 \/ turn = 6
    BY <1>1, SMT
  <2>. QED BY <2>1, SMT DEF Timers
<1>. QED BY <1>2, <1>3 DEF NextTurn, IInv, TypeOK, Clear, Curve

\* What the first meter computes is a percentage, in every second.
LEMMA ShareShown ==
    ASSUME IInv, get_cpu_usage
    PROVE  usage' \in [{"cpu", "mem"} -> Samples] /\ usage'["cpu"] \in Percent
<1>. DEFINE total_diff == (stat.total - cpu.old_total) % Cycle
            idle_diff == (stat.idle - cpu.old_idle) % Cycle
            share == IF ~cpu.flag THEN 0
                     ELSE IF total_diff = 0 THEN NaN
                     ELSE (100 * (total_diff - idle_diff)) \div total_diff
<1>1. usage' = [usage EXCEPT !["cpu"] = share] BY DEF get_cpu_usage
<1>2. turn = 1 BY TurnMoves DEF get_cpu_usage
<1>3. share \in Percent
  <2>1. CASE ~cpu.flag
    <3>1. share = 0 BY <2>1
    <3>. QED BY <3>1, SMT DEF Percent
  <2>2. CASE cpu.flag
    <3>1. PICK a \in Advances : /\ stat.idle = (cpu.old_idle + a.idle) % Cycle
                                /\ stat.total = (cpu.old_total + a.idle + a.busy) % Cycle
      BY <1>2, <2>2 DEF IInv, Reading, Advanced
    <3>2. /\ a.idle \in Nat /\ a.busy \in Nat /\ a.idle + a.busy \in 1 .. Cycle - 1
          /\ Cycle \in Nat \ {0}
      BY MetersAssumption
    <3>3. cpu.old_idle \in 0 .. Cycle - 1 /\ cpu.old_total \in 0 .. Cycle - 1
      BY DEF IInv, TypeOK
    <3>4. a.idle \in 0 .. Cycle - 1 /\ a.idle + a.busy \in 0 .. Cycle - 1
      BY <3>2, SMT
    <3>5. idle_diff = a.idle
      <4>1. (((cpu.old_idle + a.idle) % Cycle) - cpu.old_idle) % Cycle = a.idle
        BY <3>2, <3>3, <3>4, DifferenceCounts
      <4>. QED BY <3>1, <4>1
    <3>6. total_diff = a.idle + a.busy
      <4>1. stat.total = (cpu.old_total + (a.idle + a.busy)) % Cycle
        BY <3>1, <3>2, <3>3, SMT
      <4>2. /\ a.idle + a.busy \in 0 .. Cycle - 1
            /\ (((cpu.old_total + (a.idle + a.busy)) % Cycle) - cpu.old_total) % Cycle
                  = a.idle + a.busy
        BY <3>2, <3>3, <3>4, DifferenceCounts
      <4>. QED BY <4>1, <4>2
    <3>. HIDE DEF total_diff, idle_diff
    <3>7. total_diff # 0 /\ total_diff \in Nat BY <3>2, <3>6, SMT
    <3>8. total_diff - idle_diff \in Nat /\ total_diff - idle_diff <= total_diff
      BY <3>2, <3>5, <3>6, SMT
    <3>9. (100 * (total_diff - idle_diff)) \div total_diff \in Percent
      BY <3>7, <3>8, ShareIsPercent
    <3>. QED BY <2>2, <3>7, <3>9
  <2>. QED BY <2>1, <2>2
<1>. HIDE DEF share
<1>4. usage \in [{"cpu", "mem"} -> Samples] BY DEF IInv, TypeOK
<1>. QED BY <1>1, <1>3, <1>4 DEF Samples

\* So is what the second computes, or it is 0/0.
LEMMA UsedShown ==
    ASSUME IInv, get_mem_usage
    PROVE  usage' \in [{"cpu", "mem"} -> Samples] /\ usage'["cpu"] = usage["cpu"]
<1>. DEFINE used == IF mem.total = 0 THEN NaN ELSE 100 - (100 * mem.free) \div mem.total
<1>1. usage' = [usage EXCEPT !["mem"] = used] BY DEF get_mem_usage
<1>2. used \in Samples
  <2>1. CASE mem.total = 0 BY <2>1 DEF Samples
  <2>2. CASE mem.total # 0
    <3>1. mem.free \in 0 .. MemTotal /\ mem.total = MemTotal
      BY <2>2 DEF IInv, TypeOK
    <3>2. mem.free \in Nat /\ mem.total \in Nat /\ mem.free <= mem.total
      BY <3>1, MetersAssumption, SMT
    <3>3. (100 * mem.free) \div mem.total \in Percent BY <2>2, <3>2, ShareIsPercent
    <3>. DEFINE q == (100 * mem.free) \div mem.total
    <3>4. q \in 0 .. 100 BY <3>3 DEF Percent
    <3>. HIDE DEF q
    <3>5. 100 - q \in Percent BY <3>4, SMT DEF Percent
    <3>. QED BY <2>2, <3>5 DEF q, Samples
  <2>. QED BY <2>1, <2>2
<1>. HIDE DEF used
<1>3. usage \in [{"cpu", "mem"} -> Samples] BY DEF IInv, TypeOK
<1>. QED BY <1>1, <1>2, <1>3

\* One more sample on one curve keeps what is said of the curves.
LEMMA SampleKeeps ==
    ASSUME IInv, NEW c \in Curves, NEW d \in Curve, d.flag,
           d.data = Drawn(curve[c], usage[c]).data,
           curve' = [curve EXCEPT ![c] = d], usage' = usage
    PROVE  curve' \in [Curves -> Curve] /\ Clear' /\ CpuIn'
<1>1. curve \in [Curves -> Curve] BY DEF IInv, TypeOK, Curve
<1>2. curve' \in [Curves -> Curve] BY <1>1
<1>3. Clear' BY <1>1 DEF IInv, Clear, ClearData
<1>4. ASSUME "cpu" \in Curves, NEW i \in Index
      PROVE  curve'["cpu"].data[i] \in Percent
  <2>1. CASE c = "cpu"
    <3>1. usage["cpu"] \in Percent /\ \A j \in Index : curve["cpu"].data[j] \in Percent
      BY <1>4 DEF IInv, CpuIn, CpuSampled
    <3>2. Drawn(curve["cpu"], usage["cpu"]).data[i] \in Percent
      BY <1>1, <1>4, <3>1, DrawnHolds
    <3>3. curve'["cpu"] = d BY <1>1, <2>1
    <3>. QED BY <2>1, <3>2, <3>3
  <2>2. CASE c # "cpu"
    <3>1. curve'["cpu"] = curve["cpu"] BY <1>1, <1>4, <2>2
    <3>. QED BY <1>4, <3>1 DEF IInv, CpuIn, CpuSampled
  <2>. QED BY <2>1, <2>2
<1>5. CpuIn' BY <1>4 DEF IInv, CpuIn, CpuSampled
<1>. QED BY <1>2, <1>3, <1>5

\* Every step keeps the invariant.
LEMMA StepOK == IInv /\ [Next]_vars => IInv'
<1>. SUFFICES ASSUME IInv, [Next]_vars PROVE IInv' OBVIOUS
<1>1. CASE get_cpu_usage
  <2>1. turn = 1 /\ turn' # 1 BY <1>1, TurnMoves DEF get_cpu_usage
  <2>2. cpu'.flag = TRUE /\ cpu'.old_idle = stat.idle /\ cpu'.old_total = stat.total
    BY <1>1 DEF get_cpu_usage
  <2>3. cpu' \in [flag : BOOLEAN, old_idle : 0 .. Cycle - 1, old_total : 0 .. Cycle - 1]
    BY <1>1 DEF get_cpu_usage, IInv, TypeOK
  <2>4. NextTurn /\ stat' = stat /\ mem' = mem /\ curve' = curve
    BY <1>1 DEF get_cpu_usage, NextTurn
  <2>5. TypeOK' BY <1>1, <2>3, <2>4, TurnMoves, ShareShown DEF IInv, TypeOK, Curve
  <2>6. Clear' BY <2>4, TurnMoves
  <2>7. Reading' BY <2>1, <2>2, <2>4 DEF Reading
  <2>8. CpuIn' BY <1>1, <2>4, ShareShown DEF IInv, CpuIn, CpuSampled
  <2>. QED BY <2>5, <2>6, <2>7, <2>8 DEF IInv
<1>2. CASE get_mem_usage
  <2>1. NextTurn /\ stat' = stat /\ mem' = mem /\ cpu' = cpu /\ curve' = curve
    BY <1>2 DEF get_mem_usage, NextTurn
  <2>2. turn # 1 /\ turn' # 1 BY <1>2, TurnMoves DEF get_mem_usage
  <2>3. TypeOK' BY <1>2, <2>1, TurnMoves, UsedShown DEF IInv, TypeOK, Curve
  <2>4. Clear' BY <2>1, TurnMoves
  <2>5. Reading' BY <2>1, <2>2 DEF IInv, Reading
  <2>6. CpuIn' BY <1>2, <2>1, UsedShown DEF IInv, CpuIn, CpuSampled
  <2>. QED BY <2>3, <2>4, <2>5, <2>6 DEF IInv
<1>3. CASE get_mem_info
  <2>1. NextTurn /\ stat' = stat /\ cpu' = cpu /\ usage' = usage /\ curve' = curve
    BY <1>3 DEF get_mem_info, NextTurn
  <2>2. turn # 1 /\ turn' # 1 BY <1>3, TurnMoves DEF get_mem_info
  <2>3. mem' \in [total : {0, MemTotal}, free : 0 .. MemTotal]
    BY <1>3 DEF get_mem_info
  <2>4. TypeOK' BY <2>1, <2>3, TurnMoves DEF IInv, TypeOK, Curve
  <2>5. Clear' BY <2>1, TurnMoves
  <2>6. Reading' BY <2>1, <2>2 DEF IInv, Reading
  <2>7. CpuIn' BY <2>1 DEF IInv, CpuIn, CpuSampled
  <2>. QED BY <2>4, <2>5, <2>6, <2>7 DEF IInv
<1>4. CASE ShowOnly
  <2>1. NextTurn /\ UNCHANGED <<stat, cpu, mem, usage, curve>>
    BY <1>4 DEF ShowOnly, NextTurn
  <2>2. turn # 1 /\ turn' # 1 BY <1>4, TurnMoves DEF ShowOnly
  <2>3. TypeOK' BY <2>1, TurnMoves DEF IInv, TypeOK, Curve
  <2>4. Clear' BY <2>1, TurnMoves
  <2>5. Reading' BY <2>1, <2>2 DEF IInv, Reading
  <2>6. CpuIn' BY <2>1 DEF IInv, CpuIn, CpuSampled
  <2>. QED BY <2>3, <2>4, <2>5, <2>6 DEF IInv
<1>5. CASE NextSecond
  <2>1. turn' = 1 /\ turn # 1 /\ UNCHANGED <<running, page, cpu, mem, usage, curve>>
    BY <1>5, SMT DEF NextSecond, Timers
  <2>2. PICK a \in Advances :
          stat' = [idle |-> (stat.idle + a.idle) % Cycle,
                   total |-> (stat.total + a.idle + a.busy) % Cycle]
    BY <1>5 DEF NextSecond
  <2>3. /\ stat.idle = cpu.old_idle /\ stat.total = cpu.old_total /\ cpu.flag
        /\ stat.idle \in 0 .. Cycle - 1 /\ stat.total \in 0 .. Cycle - 1
    BY <2>1 DEF IInv, Reading, TypeOK
  <2>4. (stat.idle + a.idle) % Cycle \in 0 .. Cycle - 1
    BY <2>3, MetersAssumption, SMT
  <2>5. (stat.total + a.idle + a.busy) % Cycle \in 0 .. Cycle - 1
    BY <2>3, MetersAssumption, SMT
  <2>6. stat' \in [idle : 0 .. Cycle - 1, total : 0 .. Cycle - 1]
    BY <2>2, <2>4, <2>5
  <2>7. turn' \in 1 .. Len(Timers) + 1 BY <2>1, SMT DEF Timers
  <2>8. due' \subseteq Curves BY <1>5 DEF NextSecond
  <2>9. TypeOK' BY <2>1, <2>6, <2>7, <2>8 DEF IInv, TypeOK
  <2>10. Clear' BY <2>1 DEF IInv, Clear
  <2>11. Reading'
    <3>1. stat'.idle = (cpu'.old_idle + a.idle) % Cycle
      BY <2>1, <2>2, <2>3
    <3>2. stat'.total = (cpu'.old_total + a.idle + a.busy) % Cycle
      BY <2>1, <2>2, <2>3
    <3>3. Advanced' BY <3>1, <3>2 DEF Advanced
    <3>. QED BY <2>1, <2>3, <3>3 DEF Reading
  <2>12. CpuIn' BY <2>1 DEF IInv, CpuIn, CpuSampled
  <2>. QED BY <2>9, <2>10, <2>11, <2>12 DEF IInv
<1>6. ASSUME NEW c \in Curves, DrawTimer(c) \/ Expose(c) PROVE IInv'
  <2>. DEFINE d == curve'[c]
  <2>1. curve[c] \in Curve /\ usage[c] \in Samples
    BY MetersAssumption DEF IInv, TypeOK, Curve
  <2>2. Drawn(curve[c], usage[c]) \in Curve /\ Drawn(curve[c], usage[c]).flag
    BY <2>1, DrawnType
  <2>3. curve \in [Curves -> Curve] BY DEF IInv, TypeOK, Curve
  <2>4. /\ d = Drawn(curve[c], usage[c])
             \/ d = [Drawn(curve[c], usage[c]) EXCEPT !.timer = TRUE]
        /\ curve' = [curve EXCEPT ![c] = d]
    BY <1>6, <2>3 DEF DrawTimer, Expose
  <2>. HIDE DEF d
  <2>. DEFINE e == Drawn(curve[c], usage[c])
  <2>5. d \in Curve /\ d.flag /\ d.data = e.data
    <3>. HIDE DEF e
    <3>. QED BY <2>2, <2>4 DEF Curve, e
  <2>6. UNCHANGED <<running, page, turn, stat, cpu, mem, usage>> /\ due' \subseteq Curves
    BY <1>6 DEF DrawTimer, Expose, IInv, TypeOK
  <2>7. curve' \in [Curves -> Curve] /\ Clear' /\ CpuIn'
    BY <2>4, <2>5, <2>6, SampleKeeps
  <2>8. TypeOK' BY <2>6, <2>7 DEF IInv, TypeOK, Curve
  <2>9. Reading' BY <2>6 DEF IInv, Reading, Advanced
  <2>. QED BY <2>7, <2>8, <2>9 DEF IInv
<1>7. ASSUME NEW p \in Curves \cup {"processes"}, SwitchPage(p) PROVE IInv'
  BY <1>7 DEF SwitchPage, IInv, TypeOK, Clear, Reading, Advanced, CpuIn, CpuSampled
<1>8. CASE Quit
  BY <1>8 DEF Quit, IInv, TypeOK, Clear, Reading, Advanced, CpuIn, CpuSampled
<1>9. CASE UNCHANGED vars
  BY <1>9 DEF vars, IInv, TypeOK, Clear, Reading, Advanced, CpuIn, CpuSampled
<1>. QED BY <1>1, <1>2, <1>3, <1>4, <1>5, <1>6, <1>7, <1>8, <1>9 DEF Next, Timer

-----------------------------------------------------------------------------
(* The theorems.                                                           *)

LEMMA Invariant == Spec => []IInv
BY InitOK, StepOK, PTL DEF Spec

\* Every variable of the monitor's load pages keeps its type: no position runs
\* out of its ring, and no sample but 0/0 is outside 0 to 100.
THEOREM TypeCorrect == Spec => []TypeOK
<1>1. IInv => TypeOK BY DEF IInv
<1>. QED BY <1>1, Invariant, PTL

\* The CPU curve holds percentages in every state: get_cpu_usage divides
\* differences of the same two readings, which also hold when a counter of the
\* kernel starts again.
THEOREM CpuHoldsShares == Spec => []CpuSampled
<1>1. IInv => CpuSampled BY DEF IInv, CpuIn
<1>. QED BY <1>1, Invariant, PTL

\* A step slides the window by one sample or leaves it.
LEMMA WindowStep ==
    ASSUME IInv, [Next]_vars, NEW c \in Curves
    PROVE  \/ \E s \in Samples : Shown(c)' = Append(Tail(Shown(c)), s)
           \/ Shown(c)' = Shown(c)
<1>1. Shown(c) = Ring(curve[c]) BY DEF Shown
<1>7. Shown(c)' = Ring(curve'[c]) BY DEF Shown
<1>2. curve \in [Curves -> Curve] BY DEF IInv, TypeOK, Curve
<1>3. ASSUME NEW b \in Curves, DrawTimer(b) \/ Expose(b), b = c
      PROVE  Ring(curve'[c]) = Append(Tail(Ring(curve[c])), usage[c])
  <2>. DEFINE e == Drawn(curve[c], usage[c])
  <2>1. usage[c] \in Samples BY MetersAssumption DEF IInv, TypeOK
  <2>2. e \in Curve BY <1>2, <2>1, DrawnType
  <2>3. curve'[c] = e \/ curve'[c] = [e EXCEPT !.timer = TRUE]
    BY <1>2, <1>3 DEF DrawTimer, Expose
  <2>4. Ring(e) = Append(Tail(Ring(curve[c])), usage[c])
    BY <1>2, <2>1, DrawnSlides DEF IInv, Clear
  <2>. HIDE DEF e
  <2>5. curve'[c].data = e.data /\ curve'[c].now_pos = e.now_pos
    BY <2>2, <2>3 DEF Curve
  <2>. QED BY <2>4, <2>5 DEF Ring
<1>4. ASSUME NEW b \in Curves, DrawTimer(b) \/ Expose(b), b # c
      PROVE  curve'[c] = curve[c]
  BY <1>2, <1>4 DEF DrawTimer, Expose
<1>5. \/ \E b \in Curves : DrawTimer(b) \/ Expose(b)
      \/ curve' = curve
  BY DEF Next, Timer, get_cpu_usage, get_mem_usage, get_mem_info, ShowOnly, NextTurn,
         NextSecond, SwitchPage, Quit, vars
<1>6. usage[c] \in Samples BY MetersAssumption DEF IInv, TypeOK
<1>. QED BY <1>1, <1>3, <1>4, <1>5, <1>6, <1>7

LEMMA WindowInit ==
    ASSUME Init, NEW c \in Curves
    PROVE  Shown(c) = [i \in 1 .. Points |-> 0]
<1>1. curve[c].now_pos = 0 /\ curve[c].data = [i \in Index |-> 0]
  BY DEF Init, NewCurve
<1>2. ASSUME NEW i \in 1 .. Points
      PROVE  /\ 0 + i - 1 < Points
             /\ 0 + i - 1 \in Index
  BY MetersAssumption, SMT DEF Index
<1>3. ASSUME NEW i \in 1 .. Points PROVE Shown(c)[i] = 0
  <2>1. Shown(c)[i] = curve[c].data[IF 0 + i - 1 < Points THEN 0 + i - 1
                                    ELSE 0 + i - 1 - Points]
    BY <1>1 DEF Shown, Ring
  <2>2. Shown(c)[i] = curve[c].data[0 + i - 1] BY <1>2, <2>1
  <2>. QED BY <1>1, <1>2, <2>2
<1>4. Shown(c) = [i \in 1 .. Points |-> Shown(c)[i]] BY DEF Shown, Ring
<1>. QED BY <1>3, <1>4

\* Both at once: the meters, the rings and what is in them.
THEOREM MetersKept == Spec => []MetersInv
BY TypeCorrect, CpuHoldsShares, PTL DEF MetersInv

\* What the CPU page draws is the window of LoadWindow, whatever the order of
\* the timers and of the expose events.
THEOREM CpuWindowSlides ==
    ASSUME "cpu" \in Curves
    PROVE  Spec => CpuSlides
<1>1. Init => CpuWindow!Init BY WindowInit DEF CpuWindow!Init
<1>2. IInv /\ [Next]_vars => [CpuWindow!Next]_(Shown("cpu"))
  BY WindowStep DEF CpuWindow!Next, CpuWindow!Take
<1>. QED BY <1>1, <1>2, Invariant, PTL DEF Spec, CpuSlides, CpuWindow!Spec

\* The same of the Memory page.
THEOREM MemWindowSlides ==
    ASSUME "mem" \in Curves
    PROVE  Spec => MemSlides
<1>1. Init => MemWindow!Init BY WindowInit DEF MemWindow!Init
<1>2. IInv /\ [Next]_vars => [MemWindow!Next]_(Shown("mem"))
  BY WindowStep DEF MemWindow!Next, MemWindow!Take
<1>. QED BY <1>1, <1>2, Invariant, PTL DEF Spec, MemSlides, MemWindow!Spec

\* The two curves side by side are two windows of LoadWindow.
THEOREM WindowsSlide ==
    ASSUME "cpu" \in Curves, "mem" \in Curves
    PROVE  Spec => CurvesSlide
BY CpuWindowSlides, MemWindowSlides DEF CurvesSlide
-----------------------------------------------------------------------------
(* procUI.                                                                 *)

\* Which children there are at each place of main.
Family(p, c) ==
    /\ p = "fork1" => c[1] = "none" /\ c[2] = "none"
    /\ p = "fork2" => c[1] \in {"window", "ended"} /\ c[2] = "none"
    /\ p \in {"window", "wait1"} => c[1] \in {"window", "ended"} /\ c[2] \in {"window", "ended"}
    /\ p = "wait2" => c[1] = "waited" /\ c[2] \in {"window", "ended"}
    /\ p = "gone" => c[1] = "waited" /\ c[2] = "waited"

\* The longs keep what the unsigned ints were.
Kept == /\ ucpu.flag \in BOOLEAN /\ ucpu.usage \in Int
        /\ ucpu.flag => ucpu.old_idle = ustat.idle /\ ucpu.old_total = ustat.total

WindowsOf == UI!TypeOK /\ UI!SumOfNumbers /\ Family(parent, child) /\ Kept /\ UI!UsageBetweenWraps

LEMMA WindowsInit == UI!Init => WindowsOf
  <1> SUFFICES ASSUME UI!Init PROVE WindowsOf
    OBVIOUS
  <1>1. /\ parent = "fork1" /\ child = [i \in {1, 2} |-> "none"]
        /\ sum = 0 /\ now = 1 /\ wrapped = FALSE
        /\ ustat \in [idle : 0 .. Word - 1, total : 0 .. Word - 1]
        /\ ucpu = [flag |-> FALSE, old_idle |-> 0, old_total |-> 0, usage |-> 0]
    BY DEF UI!Init
  <1>5. ucpu.flag = FALSE /\ ucpu.usage = 0
    BY <1>1
  <1>2. UI!TypeOK
    <2>1. /\ parent \in {"fork1", "fork2", "window", "wait1", "wait2", "gone", "failed"}
          /\ child \in [{1, 2} -> {"none", "window", "ended", "waited"}]
      BY <1>1
    <2>2. now \in Nat /\ sum \in Nat /\ ucpu.usage \in Int
      BY <1>1, <1>5
    <2>3. wrapped \in BOOLEAN
      BY <1>1
    <2> QED
      BY <1>1, <2>1, <2>2, <2>3 DEF UI!TypeOK
  <1>3. UI!SumOfNumbers
    BY <1>1 DEF UI!SumOfNumbers
  <1>4. Family(parent, child)
    BY <1>1 DEF Family
  <1>6. Kept
    <2>1. ucpu.flag \in BOOLEAN /\ ~ucpu.flag
      BY <1>5, Zenon
    <2>2. ucpu.usage \in Int
      BY <1>5
    <2> QED
      BY <2>1, <2>2, Zenon DEF Kept
  <1>7. UI!UsageBetweenWraps
    BY <1>5 DEF UI!UsageBetweenWraps, UI!Percent
  <1> QED
    BY <1>2, <1>3, <1>4, <1>6, <1>7 DEF WindowsOf

\* A counter that did not wrap grew by what was added; any other fell.
LEMMA CounterMoves ==
    ASSUME NEW W \in Nat \ {0}, NEW old \in 0 .. W - 1, NEW more \in 0 .. W - 1
    PROVE  /\ (old + more) % W \in 0 .. W - 1
           /\ (old + more) % W >= old => (old + more) % W = old + more
           /\ more # 0 => (old + more) % W # old
  <1>1. CASE old + more < W
    <2>1. (old + more) % W = old + more
      BY <1>1, SMT
    <2> QED
      BY <1>1, <2>1, SMT
  <1>2. CASE old + more >= W
    <2>1. (old + more) % W = old + more - W
      BY <1>2, SMT
    <2> QED
      BY <1>2, <2>1, SMT
  <1> QED
    BY <1>1, <1>2, SMT

\* A part of a time, in percent of it.
LEMMA UsageIn ==
    ASSUME NEW part \in Nat, NEW whole \in Nat, part <= whole, whole # 0
    PROVE  (100 * part) \div whole \in 0 .. 100
  BY SMT

LEMMA CPUusageKeeps ==
    ASSUME WindowsOf, UI!refresh_CPUusage PROVE WindowsOf'
  <1>1. PICK a \in TwoSeconds :
          LET idle == (ustat.idle + a.idle) % Word
              total == (ustat.total + a.idle + a.busy) % Word
              total_diff == total - ucpu.old_total
              idle_diff == idle - ucpu.old_idle
              used == 100 * (total_diff - idle_diff)
          IN  /\ ustat' = [idle |-> idle, total |-> total]
              /\ ucpu' = [flag |-> TRUE, old_idle |-> idle, old_total |-> total,
                          usage |-> IF ~ucpu.flag THEN 0
                                    ELSE IF total_diff > 0 THEN used \div total_diff
                                    ELSE (0 - used) \div (0 - total_diff)]
              /\ wrapped' = (ucpu.flag /\ (idle < ustat.idle \/ total < ustat.total))
    BY DEF UI!refresh_CPUusage
  <1> DEFINE idle == (ustat.idle + a.idle) % Word
             total == (ustat.total + a.idle + a.busy) % Word
             used == 100 * ((total - ucpu.old_total) - (idle - ucpu.old_idle))
             share == IF ~ucpu.flag THEN 0
                      ELSE IF total - ucpu.old_total > 0 THEN used \div (total - ucpu.old_total)
                      ELSE (0 - used) \div (0 - (total - ucpu.old_total))
  <1>2. /\ ustat' = [idle |-> idle, total |-> total]
        /\ ucpu' = [flag |-> TRUE, old_idle |-> idle, old_total |-> total, usage |-> share]
        /\ wrapped' = (ucpu.flag /\ (idle < ustat.idle \/ total < ustat.total))
    BY <1>1
  <1>3. /\ Word \in Nat \ {0} /\ a.idle \in Nat /\ a.busy \in Nat
        /\ a.idle + a.busy \in 1 .. Word - 1
    BY ProgramsAssumption DEF UI!ProcUIAssumption
  <1>4. ustat.idle \in 0 .. Word - 1 /\ ustat.total \in 0 .. Word - 1
    BY DEF WindowsOf, UI!TypeOK
  <1>5. a.idle \in 0 .. Word - 1 /\ a.idle + a.busy \in 0 .. Word - 1
    BY <1>3, SMT
  <1>6. /\ idle \in 0 .. Word - 1 /\ (idle >= ustat.idle => idle = ustat.idle + a.idle)
    BY <1>3, <1>4, <1>5, CounterMoves
  <1>7. /\ total \in 0 .. Word - 1 /\ total # ustat.total
        /\ (total >= ustat.total => total = ustat.total + (a.idle + a.busy))
    <2>1. total = (ustat.total + (a.idle + a.busy)) % Word
      BY <1>3, <1>4, SMT
    <2>2. a.idle + a.busy # 0
      BY <1>3, SMT
    <2> QED
      BY <1>3, <1>4, <1>5, <2>1, <2>2, CounterMoves
  <1> HIDE DEF idle, total
  <1>8. ucpu.flag => ucpu.old_idle = ustat.idle /\ ucpu.old_total = ustat.total
    BY DEF WindowsOf, Kept
  <1>9. share \in Int
    <2>1. CASE ~ucpu.flag
      BY <2>1
    <2>2. CASE ucpu.flag
      <3>1. ucpu.old_idle = ustat.idle /\ ucpu.old_total = ustat.total
        BY <1>8, <2>2
      <3>2. used \in Int /\ total - ucpu.old_total \in Int /\ total - ucpu.old_total # 0
        BY <1>4, <1>6, <1>7, <3>1, SMT
      <3> HIDE DEF used
      <3>3. CASE total - ucpu.old_total > 0
        BY <2>2, <3>2, <3>3, SMT
      <3>4. CASE ~(total - ucpu.old_total > 0)
        <4>1. 0 - (total - ucpu.old_total) > 0 /\ 0 - used \in Int
          BY <3>2, <3>4, SMT
        <4>2. (0 - used) \div (0 - (total - ucpu.old_total)) \in Int
          BY <3>2, <4>1, SMT
        <4> QED
          BY <2>2, <3>4, <4>2
      <3> QED
        BY <3>3, <3>4
    <2> QED
      BY <2>1, <2>2
  <1>10. ~wrapped' => share \in 0 .. 100
    <2>1. CASE ~ucpu.flag
      BY <2>1
    <2>2. CASE ucpu.flag /\ ~wrapped'
      <3>1. ucpu.old_idle = ustat.idle /\ ucpu.old_total = ustat.total
        BY <1>8, <2>2
      <3>2. idle >= ustat.idle /\ total >= ustat.total
        <4>1. ~(idle < ustat.idle) /\ ~(total < ustat.total)
          BY <1>2, <2>2, Zenon
        <4> QED
          BY <1>4, <1>6, <1>7, <4>1, SMT
      <3>3. /\ total - ucpu.old_total = a.idle + a.busy
            /\ idle - ucpu.old_idle = a.idle
        BY <1>3, <1>4, <1>6, <1>7, <3>1, <3>2, SMT
      <3>4. used = 100 * a.busy /\ total - ucpu.old_total > 0
        BY <1>3, <3>3, SMT
      <3>5. (100 * a.busy) \div (a.idle + a.busy) \in 0 .. 100
        BY <1>3, UsageIn
      <3> QED
        BY <2>2, <3>3, <3>4, <3>5
    <2> QED
      BY <2>1, <2>2
  <1> HIDE DEF share
  <1>11. /\ ucpu'.flag = TRUE /\ ucpu'.usage = share
         /\ ucpu'.old_idle = idle /\ ucpu'.old_total = total
         /\ ustat'.idle = idle /\ ustat'.total = total
    BY <1>2
  <1>12. Kept'
    BY <1>9, <1>11 DEF Kept
  <1>13. UI!UsageBetweenWraps'
    BY <1>10, <1>11 DEF UI!UsageBetweenWraps, UI!Percent
  <1>14. parent' = parent /\ child' = child /\ sum' = sum /\ now' = now
    BY DEF UI!refresh_CPUusage, UI!windows, UI!counting
  <1>15. ustat' \in [idle : 0 .. Word - 1, total : 0 .. Word - 1] /\ wrapped' \in BOOLEAN
    <2>1. wrapped' \in BOOLEAN
      BY <1>2, Zenon
    <2> QED
      BY <1>2, <1>6, <1>7, <2>1
  <1>16. UI!TypeOK'
    BY <1>9, <1>11, <1>14, <1>15 DEF WindowsOf, UI!TypeOK
  <1> QED
    BY <1>12, <1>13, <1>14, <1>16 DEF WindowsOf, UI!SumOfNumbers

LEMMA WindowsStep == WindowsOf /\ [UI!Next]_(UI!vars) => WindowsOf'
  <1> SUFFICES ASSUME WindowsOf, [UI!Next]_(UI!vars) PROVE WindowsOf'
    OBVIOUS
  <1>1. CASE UNCHANGED UI!vars
    BY <1>1 DEF WindowsOf, UI!vars, UI!windows, UI!counting, UI!measuring, UI!TypeOK, UI!SumOfNumbers, Kept, UI!UsageBetweenWraps
  <1>2. ASSUME parent' \in {"fork1", "fork2", "window", "wait1", "wait2", "gone", "failed"},
               child' \in [{1, 2} -> {"none", "window", "ended", "waited"}],
               Family(parent', child'),
               UNCHANGED <<sum, now, ustat, ucpu, wrapped>>
        PROVE  WindowsOf'
    BY <1>2 DEF WindowsOf, UI!TypeOK, UI!SumOfNumbers, Kept, UI!UsageBetweenWraps
  <1>3. /\ parent \in {"fork1", "fork2", "window", "wait1", "wait2", "gone", "failed"}
        /\ child \in [{1, 2} -> {"none", "window", "ended", "waited"}]
        /\ Family(parent, child)
    BY DEF WindowsOf, UI!TypeOK
  <1> USE DEF UI!windows, UI!counting, UI!measuring
  <1>4. CASE UI!Fork(1, "fork2")
    <2>1. UNCHANGED <<sum, now, ustat, ucpu, wrapped>>
      BY <1>4 DEF UI!Fork
    <2>2. \/ parent' = "fork2" /\ child' = [child EXCEPT ![1] = "window"]
          \/ parent' = "failed" /\ child' = child
      BY <1>4 DEF UI!Fork
    <2>3. parent = "fork1"
      BY <1>4 DEF UI!Fork
    <2> QED
      BY <1>2, <1>3, <2>1, <2>2, <2>3 DEF Family
  <1>5. CASE UI!Fork(2, "window")
    <2>1. UNCHANGED <<sum, now, ustat, ucpu, wrapped>>
      BY <1>5 DEF UI!Fork
    <2>2. \/ parent' = "window" /\ child' = [child EXCEPT ![2] = "window"]
          \/ parent' = "failed" /\ child' = child
      BY <1>5 DEF UI!Fork
    <2>3. parent = "fork2"
      BY <1>5 DEF UI!Fork
    <2> QED
      BY <1>2, <1>3, <2>1, <2>2, <2>3 DEF Family
  <1>6. CASE UI!Wait(1, "wait2")
    BY <1>2, <1>3, <1>6 DEF UI!Wait, Family
  <1>7. CASE UI!Wait(2, "gone")
    BY <1>2, <1>3, <1>7 DEF UI!Wait, Family
  <1>8. CASE UI!CloseParent
    BY <1>2, <1>3, <1>8 DEF UI!CloseParent, Family
  <1>9. ASSUME NEW i \in {1, 2}, UI!CloseChild(i) PROVE WindowsOf'
    <2>1. /\ child[i] = "window" /\ child' = [child EXCEPT ![i] = "ended"] /\ parent' = parent
          /\ UNCHANGED <<sum, now, ustat, ucpu, wrapped>>
      BY <1>9 DEF UI!CloseChild
    <2>2. Family(parent', child')
      BY <1>3, <2>1 DEF Family
    <2> QED
      BY <1>2, <1>3, <2>1, <2>2
  <1>10. CASE UI!refresh_sum
    <2>1. /\ now \in Nat /\ sum \in Nat /\ 2 * sum = now * (now - 1)
      BY DEF WindowsOf, UI!TypeOK, UI!SumOfNumbers
    <2>2. /\ UNCHANGED <<parent, child, ustat, ucpu, wrapped>>
          /\ IF now + 1 = 100 THEN sum' = 0 /\ now' = 1 ELSE sum' = sum + now /\ now' = now + 1
      BY <1>10 DEF UI!refresh_sum
    <2>3. now' \in Nat /\ sum' \in Nat /\ 2 * sum' = now' * (now' - 1)
      <3>1. CASE now + 1 = 100
        BY <2>2, <3>1
      <3>2. CASE now + 1 # 100
        <4>1. PICK n, s : n = now /\ s = sum
          OBVIOUS
        <4>2. n \in Nat /\ s \in Nat /\ 2 * s = n * (n - 1)
          BY <2>1, <4>1, SMT
        <4>3. 2 * (s + n) = (n + 1) * n
          BY ONLY <4>2, SMT
        <4>4. sum' = s + n /\ now' = n + 1
          BY <2>2, <3>2, <4>1
        <4> QED
          BY ONLY <4>2, <4>3, <4>4, SMT
      <3> QED
        BY <3>1, <3>2
    <2> QED
      BY <2>2, <2>3 DEF WindowsOf, UI!TypeOK, UI!SumOfNumbers, Kept, UI!UsageBetweenWraps
  <1>11. CASE UI!refresh_CPUusage
    BY <1>11, CPUusageKeeps
  <1> QED
    BY <1>1, <1>4, <1>5, <1>6, <1>7, <1>8, <1>9, <1>10, <1>11 DEF UI!Next, UI!Parent

\* However the windows are opened and closed and the counters wrap: the sum is
\* the one of the numbers so far, nobody is left unwaited for, and a usage between
\* two wraps is a percentage.
THEOREM WindowsCount == UI!Spec => []WindowsInv
  <1>1. WindowsOf => WindowsInv
    BY DEF WindowsOf, WindowsInv, UI!WindowsInv, UI!ParentLast, Family
  <1> QED
    BY <1>1, WindowsInit, WindowsStep, PTL DEF UI!Spec

-----------------------------------------------------------------------------
(* The Processes page.                                                     *)

ListOf ==
    /\ List!TypeOK /\ 1 \in alive /\ left \subseteq Pids
    \* The first number of /proc is 1, which is there: a listing has a first row.
    /\ Len(rows) = 0 => 1 \in left
    \* Nothing is highlighted during a listing, or selected before the first one.
    /\ List!Listing => selected = 0 /\ (lists = 1 => select_pid = List!NULL)
    /\ List!SelectPidLive /\ List!HighlightIsSelected

LEMMA ListTypes ==
    ASSUME ListOf
    PROVE  /\ alive \subseteq Pids /\ rows \in Seq(Pids) /\ Len(rows) \in Nat
           /\ lists \in 1 .. MaxLists /\ proc_num = Len(rows)
           /\ selected \in 0 .. Len(rows) /\ entry \in Pids \cup {0} /\ scroll \in Nat
           /\ (left = {} => Len(rows) # 0) /\ MaxLists \in Nat \ {0}
           /\ \A r \in 1 .. Len(rows) : rows[r] \in Pids
           /\ 1 \in alive /\ 1 \in Pids /\ \A p \in Pids : p \in Nat \ {0}
  BY ProgramsAssumption DEF ListOf, List!TypeOK, List!ListAssumption

\* A set of natural numbers has a lowest one.
LEMMA LowestIs ==
    ASSUME NEW T, T \subseteq Nat, T # {}
    PROVE  List!Lowest(T) \in T /\ \A q \in T : List!Lowest(T) <= q
  <1> DEFINE R == {ss \in Nat \X Nat : ss[1] < ss[2]}
  <1>1. IsWellFoundedOn(R, Nat)
    BY NatLessThanWellFounded DEF OpToRel
  <1> HIDE DEF R
  <1>2. PICK m \in T : \A j \in T : ~ (<<j, m>> \in R)
    BY <1>1, WFMin, Zenon
  <1>3. ASSUME NEW j \in T PROVE m <= j
    <2>1. <<j, m>> \notin R /\ j \in Nat /\ m \in Nat
      BY <1>2
    <2>2. ~ (j < m)
      BY <2>1 DEF R
    <2> QED
      BY <2>1, <2>2
  <1>4. \E m0 \in T : \A q \in T : m0 <= q
    BY <1>3
  <1> QED
    BY <1>4, Zenon DEF List!Lowest

\* The row that the next number gives is of a process.
LEMMA NextRow ==
    ASSUME ListOf, left # {} PROVE List!RowOf(List!Lowest(left)) \in Pids
  <1>1. CASE Len(rows) = 0
    <2>1. 1 \in left /\ left \subseteq Nat /\ \A q \in left : 1 <= q
      BY <1>1, ListTypes DEF ListOf
    <2>2. PICK m : m = List!Lowest(left)
      OBVIOUS
    <2>4. m \in left /\ m <= 1
      BY <2>1, <2>2, LowestIs
    <2>3. List!Lowest(left) = 1
      BY <2>1, <2>2, <2>4
    <2> QED
      BY <2>3, ListTypes DEF List!RowOf
  <1>2. CASE Len(rows) # 0
    <2>1. Len(rows) \in 1 .. Len(rows)
      BY <1>2, ListTypes
    <2>2. rows[Len(rows)] \in Pids /\ alive \subseteq Pids
      BY <2>1, ListTypes
    <2> QED
      BY <2>2 DEF List!RowOf
  <1> QED
    BY <1>1, <1>2

\* A row that is there is selected, after a listing.
LEMMA Selects ==
    ASSUME ListOf, left = {}, NEW r \in 1 .. Len(rows), List!select_to_entry(r, rows),
           UNCHANGED <<alive, rows, left, lists, proc_num>>, scroll' \in Nat
    PROVE  ListOf'
  <1>1. /\ selected' = r /\ select_pid' = [list |-> lists, row |-> r] /\ entry' = rows[r]
    BY DEF List!select_to_entry
  <1>2. r \in 0 .. Len(rows) /\ rows[r] \in Pids \cup {0}
    BY ListTypes
  <1>3. List!TypeOK'
    BY <1>1, <1>2, ListTypes DEF List!TypeOK
  <1>4. List!SelectPidLive' /\ List!HighlightIsSelected'
    BY <1>1 DEF List!SelectPidLive, List!HighlightIsSelected
  <1> QED
    BY <1>3, <1>4, ListTypes DEF ListOf, List!Listing

\* The highlight and the pointer stay, or the highlight goes.
LEMMA StaysSelected ==
    ASSUME ListOf, UNCHANGED <<rows, left, lists, proc_num, select_pid>>,
           alive' \subseteq Pids, 1 \in alive', entry' \in Pids \cup {0}, scroll' \in Nat,
           selected' \in {0, selected}
    PROVE  ListOf'
  <1>1. List!TypeOK'
    BY ListTypes DEF List!TypeOK
  <1> QED
    BY <1>1 DEF ListOf, List!Listing, List!SelectPidLive, List!HighlightIsSelected, List!NULL

\* Where the list is scrolled to.
LEMMA LineIn == ASSUME ListOf, left = {}, NEW r \in 0 .. Len(rows) PROVE List!scroll_line(r) \in Nat
  <1>1. /\ Len(rows) \in Nat /\ Len(rows) # 0 /\ r \in Nat /\ proc_num = Len(rows)
        /\ TitleHeight \in Nat /\ LineHeight \in Nat /\ PageHeight \in Nat
    BY ListTypes, ProgramsAssumption DEF List!ListAssumption
  <1>2. PICK n \in Nat : n = Len(rows)
    BY <1>1
  <1>3. List!Upper \in Nat
    BY ONLY <1>1, <1>2, SMT DEF List!Upper
  <1>4. PICK u \in Nat : u = List!Upper
    BY <1>3
  <1>5. (u * r) \div n \in Nat
    BY ONLY <1>1, <1>2, SMT
  <1>6. (u > PageHeight => u - PageHeight \in Nat) /\ proc_num = n
    BY <1>1, <1>2, SMT
  <1>7. List!scroll_line(r) = LET m == IF u > PageHeight THEN u - PageHeight ELSE 0
                              IN  IF (u * r) \div n > m THEN m ELSE (u * r) \div n
    BY <1>4, <1>6 DEF List!scroll_line
  <1> QED
    BY ONLY <1>5, <1>6, <1>7

\* The rows with the text of the entry.
LEMMA FoundIs ==
    ASSUME ListOf, List!Found # {}
    PROVE  List!Lowest(List!Found) \in 1 .. Len(rows)
  <1>1. List!Found \subseteq Nat /\ List!Found \subseteq 1 .. Len(rows)
    BY ListTypes DEF List!Found
  <1> QED
    BY <1>1, LowestIs

LEMMA ListInit == List!Init => ListOf
  <1> SUFFICES ASSUME List!Init PROVE ListOf
    OBVIOUS
  <1>1. /\ alive \in SUBSET Pids /\ 1 \in alive /\ left = alive
        /\ rows = <<>> /\ lists = 1 /\ proc_num = 0
        /\ selected = 0 /\ select_pid = List!NULL /\ entry = 0 /\ scroll = 0
    BY DEF List!Init
  <1>2. rows \in Seq(Pids) /\ Len(rows) = 0 /\ 1 \in 1 .. MaxLists
    BY <1>1, ProgramsAssumption DEF List!ListAssumption
  <1> QED
    BY <1>1, <1>2 DEF ListOf, List!TypeOK, List!SelectPidLive, List!HighlightIsSelected, List!Listing

LEMMA ListingKeeps == ASSUME ListOf, List!get_processes_info PROVE ListOf'
  <1> DEFINE p == List!RowOf(List!Lowest(left))
  <1>1. /\ left # {} /\ rows' = Append(rows, p) /\ left' \subseteq left /\ proc_num' = proc_num + 1
        /\ UNCHANGED <<alive, lists, scroll>>
        /\ IF left' = {} /\ lists > 1
           THEN List!select_to_entry(1, rows')
           ELSE UNCHANGED <<selected, select_pid, entry>>
    BY DEF List!get_processes_info, List!Listing
  <1>2. p \in Pids
    BY <1>1, NextRow
  <1> HIDE DEF p
  <1>3. /\ rows' \in Seq(Pids) /\ Len(rows') = Len(rows) + 1 /\ proc_num' = Len(rows')
        /\ \A r \in 1 .. Len(rows') : rows'[r] \in Pids
    BY <1>1, <1>2, ListTypes
  <1>4. Len(rows') # 0 /\ 1 \in 1 .. Len(rows')
    BY <1>3, ListTypes
  <1>5. selected = 0 /\ (lists = 1 => select_pid = List!NULL)
    BY <1>1 DEF ListOf, List!Listing
  <1>6. CASE left' = {} /\ lists > 1
    <2>1. selected' = 1 /\ select_pid' = [list |-> lists, row |-> 1] /\ entry' = rows'[1]
      BY <1>1, <1>6 DEF List!select_to_entry
    <2>2. List!TypeOK'
      BY <1>1, <1>3, <1>4, <2>1, ListTypes DEF List!TypeOK
    <2>3. List!SelectPidLive' /\ List!HighlightIsSelected'
      BY <1>1, <1>4, <2>1 DEF List!SelectPidLive, List!HighlightIsSelected
    <2> QED
      BY <1>1, <1>4, <1>6, <2>2, <2>3, ListTypes DEF ListOf, List!Listing
  <1>7. CASE ~(left' = {} /\ lists > 1)
    <2>1. UNCHANGED <<selected, select_pid, entry>>
      BY <1>1, <1>7
    <2>2. List!TypeOK'
      BY <1>1, <1>3, <1>5, <2>1, ListTypes DEF List!TypeOK
    <2>3. left' = {} => lists = 1
      BY <1>7, ListTypes
    <2>4. List!SelectPidLive' /\ List!HighlightIsSelected'
      BY <1>1, <1>5, <2>1, <2>3 DEF List!SelectPidLive, List!HighlightIsSelected, List!Listing, List!NULL
    <2>5. left' \subseteq Pids
      BY <1>1 DEF ListOf
    <2> QED
      BY <1>1, <1>4, <1>5, <2>1, <2>2, <2>4, <2>5, ListTypes DEF ListOf, List!Listing, List!NULL
  <1> QED
    BY <1>6, <1>7

LEMMA ListStep == ListOf /\ [List!Next]_(List!vars) => ListOf'
  <1> SUFFICES ASSUME ListOf, [List!Next]_(List!vars) PROVE ListOf'
    OBVIOUS
  <1> USE DEF List!list, List!gui
  <1>0. /\ alive \subseteq Pids /\ 1 \in alive /\ entry \in Pids \cup {0} /\ scroll \in Nat
    BY ListTypes
  <1>1. CASE UNCHANGED List!vars
    BY <1>0, <1>1, StaysSelected DEF List!vars
  <1>2. ASSUME NEW p \in Pids, List!Birth(p) \/ List!Death(p) PROVE ListOf'
    <2>1. /\ alive' \subseteq Pids /\ 1 \in alive'
      BY <1>0, <1>2 DEF List!Birth, List!Death
    <2>2. UNCHANGED <<rows, left, lists, proc_num, selected, select_pid, entry, scroll>>
      BY <1>2 DEF List!Birth, List!Death
    <2> QED
      BY <1>0, <2>1, <2>2, StaysSelected
  <1>3. CASE List!get_processes_info
    BY <1>3, ListingKeeps
  <1>4. CASE List!refresh_proc
    <2>1. /\ left = {} /\ lists < MaxLists /\ rows' = <<>> /\ proc_num' = 0
          /\ lists' = lists + 1 /\ left' = alive /\ selected' = 0
          /\ UNCHANGED <<alive, select_pid, entry, scroll>>
      BY <1>4 DEF List!refresh_proc, List!Listing
    <2>2. rows' \in Seq(Pids) /\ Len(rows') = 0 /\ lists' \in 1 .. MaxLists /\ lists' # 1
      BY <2>1, ListTypes
    <2>3. List!TypeOK'
      BY <1>0, <2>1, <2>2 DEF List!TypeOK
    <2> QED
      BY <1>0, <2>1, <2>2, <2>3 DEF ListOf, List!SelectPidLive, List!HighlightIsSelected, List!Listing
  <1>5. ASSUME NEW row \in 1 .. Len(rows), List!Click(row) PROVE ListOf'
    <2>1. left = {} /\ UNCHANGED <<alive, rows, left, lists, proc_num, scroll>>
      BY <1>5 DEF List!Click, List!Listing
    <2>2. CASE selected = row
      <3>1. selected' = 0 /\ UNCHANGED <<select_pid, entry>>
        BY <1>5, <2>2 DEF List!Click
      <3> QED
        BY <1>0, <2>1, <3>1, StaysSelected
    <2>3. CASE selected # row
      <3>1. List!select_to_entry(row, rows)
        BY <1>5, <2>3 DEF List!Click
      <3> QED
        BY <1>0, <2>1, <3>1, Selects
    <2> QED
      BY <2>2, <2>3
  <1>6. ASSUME NEW p \in Pids, List!Type(p) PROVE ListOf'
    <2>1. entry' = p /\ UNCHANGED <<alive, rows, left, lists, proc_num, selected, select_pid, scroll>>
      BY <1>6 DEF List!Type
    <2> QED
      BY <1>0, <2>1, StaysSelected
  <1>7. CASE List!search_proc
    <2>1. left = {} /\ UNCHANGED <<alive, rows, left, lists, proc_num>>
      BY <1>7 DEF List!search_proc, List!Listing
    <2>2. CASE List!Found # {}
      <3>1. /\ List!select_to_entry(List!Lowest(List!Found), rows)
            /\ scroll' = List!scroll_line(List!Lowest(List!Found) - 1)
        BY <1>7, <2>2 DEF List!search_proc
      <3>2. List!Lowest(List!Found) \in 1 .. Len(rows)
        BY <2>2, FoundIs
      <3>3. List!Lowest(List!Found) - 1 \in 0 .. Len(rows)
        BY <3>2, ListTypes
      <3>4. scroll' \in Nat
        BY <2>1, <3>1, <3>3, LineIn
      <3> QED
        BY <2>1, <3>1, <3>2, <3>4, Selects
    <2>3. CASE List!Found = {}
      <3>1. /\ scroll' = List!scroll_line(Len(rows))
            /\ UNCHANGED <<selected, select_pid, entry>>
        BY <1>7, <2>3 DEF List!search_proc
      <3>2. scroll' \in Nat
        BY <2>1, <3>1, LineIn, ListTypes
      <3> QED
        BY <1>0, <2>1, <3>1, <3>2, StaysSelected
    <2> QED
      BY <2>2, <2>3
  <1>8. CASE List!kill_proc
    <2>1. /\ alive' \subseteq alive /\ 1 \in alive'
          /\ UNCHANGED <<rows, left, lists, proc_num, selected, select_pid, entry, scroll>>
      BY <1>0, <1>8, ProgramsAssumption DEF List!kill_proc, List!ListAssumption
    <2> QED
      BY <1>0, <2>1, StaysSelected
  <1> QED
    BY <1>1, <1>2, <1>3, <1>4, <1>5, <1>6, <1>7, <1>8 DEF List!Next

\* However listings, clicks, searches and kills follow each other, while
\* processes come and go: select_pid never points into a list that is gone.
THEOREM SelectionStays == List!Spec => []SelectionLives
  <1>1. ListOf => SelectionLives
    BY DEF ListOf, SelectionLives, List!SelectionLives
  <1> QED
    BY <1>1, ListInit, ListStep, PTL DEF List!Spec

-----------------------------------------------------------------------------
(* Where Search scrolls to.                                                *)

\* The line of row r, of n rows in a list that is T + L * n high, is a part of the
\* way down: at most at its top, and at least a title above it.
LEMMA PartOfTheWay ==
    ASSUME NEW T \in Nat, NEW L \in Nat, NEW n \in Nat, NEW r \in Nat, r < n
    PROVE  /\ L * r <= ((T + L * n) * r) \div n
           /\ ((T + L * n) * r) \div n <= T + L * r
  <1> DEFINE U == (T + L * n) * r
             q == U \div n
  <1>1. n > 0 /\ U \in Nat
    BY SMT
  <1>2. U = T * r + n * (L * r)
    BY SMT
  <1>3. 0 <= T * r /\ T * r <= n * T
    <2>1. T * r <= T * n
      BY SMT
    <2> QED
      BY <2>1, SMT
  <1> HIDE DEF U
  <1>4. q \in Int /\ n * q <= U /\ U < n * q + n
    BY <1>1, SMT
  <1> HIDE DEF q
  <1>5. PICK l \in Nat : l = L * r
    BY SMT
  <1>6. PICK t \in Int : t = T * r
    BY SMT
  <1>7. U = t + n * l /\ 0 <= t /\ t <= n * T
    BY <1>2, <1>3, <1>5, <1>6
  <1>8. l <= q
    <2> SUFFICES ASSUME q < l PROVE FALSE
      BY <1>4
    <2>1. q + 1 <= l
      BY <1>4
    <2>2. n * (q + 1) <= n * l
      BY ONLY <1>1, <1>4, <2>1, SMT
    <2>3. n * (q + 1) = n * q + n
      BY ONLY <1>4, SMT
    <2> QED
      BY ONLY <1>1, <1>4, <1>7, <2>2, <2>3, SMT
  <1>9. q <= T + l
    <2> SUFFICES ASSUME T + l < q PROVE FALSE
      BY <1>4
    <2>1. T + l + 1 <= q
      BY <1>4
    <2>2. n * (T + l + 1) <= n * q
      BY ONLY <1>1, <1>4, <2>1, SMT
    <2>3. n * (T + l + 1) = n * T + n * l + n
      BY ONLY SMT
    <2> QED
      BY ONLY <1>1, <1>4, <1>7, <2>2, <2>3, SMT
  <1> QED
    BY <1>5, <1>8, <1>9 DEF q, U

\* Search, from a list that is whole, scrolls to where the row can be seen.
LEMMA SearchStep ==
    ASSUME ListOf, List!search_proc, List!Found # {}
    PROVE  LET top == TitleHeight + LineHeight * (List!Lowest(List!Found) - 1)
           IN  scroll' <= top /\ top + LineHeight <= scroll' + PageHeight
  <1>1. PICK r : r = List!Lowest(List!Found) - 1
    OBVIOUS
  <1>2. PICK n : n = Len(rows)
    OBVIOUS
  <1>3. /\ r \in Nat /\ n \in Nat /\ r < n /\ proc_num = n
        /\ TitleHeight \in Nat /\ LineHeight \in Nat /\ PageHeight \in Nat
        /\ PageHeight > TitleHeight + LineHeight
    BY <1>1, <1>2, ListTypes, FoundIs, ProgramsAssumption DEF List!ListAssumption
  <1>4. scroll' = List!scroll_line(r)
    BY <1>1 DEF List!search_proc
  <1>5. PICK u : u = TitleHeight + LineHeight * n
    OBVIOUS
  <1>6. PICK q : q = (u * r) \div n
    OBVIOUS
  <1>7. PICK m : m = IF u > PageHeight THEN u - PageHeight ELSE 0
    OBVIOUS
  <1>8. scroll' = IF q > m THEN m ELSE q
    BY <1>2, <1>3, <1>4, <1>5, <1>6, <1>7 DEF List!scroll_line, List!Upper
  <1>9. PICK l : l = LineHeight * r
    OBVIOUS
  <1>10. l <= q /\ q <= TitleHeight + l
    BY ONLY <1>3, <1>5, <1>6, <1>9, PartOfTheWay
  <1>11. /\ l \in Nat /\ u \in Nat /\ q \in Int /\ m \in Nat
         /\ l + LineHeight <= u - TitleHeight
    <2>1. LineHeight * (r + 1) <= LineHeight * n
      BY ONLY <1>3, SMT
    <2>2. LineHeight * (r + 1) = l + LineHeight
      BY ONLY <1>3, <1>9, SMT
    <2>3. u \in Nat /\ l \in Nat
      BY ONLY <1>3, <1>5, <1>9, SMT
    <2>4. q \in Int
      BY ONLY <1>3, <1>6, <2>3, SMT
    <2>5. m \in Nat
      BY ONLY <1>3, <1>7, <2>3
    <2> QED
      BY ONLY <1>3, <1>5, <2>1, <2>2, <2>3, <2>4, <2>5, SMT
  <1>12. scroll' <= TitleHeight + l /\ TitleHeight + l + LineHeight <= scroll' + PageHeight
    BY ONLY <1>3, <1>7, <1>8, <1>10, <1>11, SMT
  <1> QED
    BY <1>1, <1>9, <1>12

\* The row that Search finds is in view, for every size of the list, of its lines
\* and of the window.
THEOREM SearchScrolls == List!Spec => SearchShows
  <1>1. ListOf /\ [List!Next]_(List!vars) =>
          [List!search_proc /\ List!Found # {} =>
             LET top == TitleHeight + LineHeight * (List!Lowest(List!Found) - 1)
             IN  scroll' <= top /\ top + LineHeight <= scroll' + PageHeight]_(List!vars)
    BY SearchStep
  <1> QED
    BY <1>1, ListInit, ListStep, PTL DEF List!Spec, SearchShows, List!SearchShows

-----------------------------------------------------------------------------
(* The two copiers.                                                        *)

Bytes == Seq(Nat)
Early == {"names", "stat", "open_source", "open_target"}
Late == {"read", "write", "close"}
JobType == [pc : Early \cup Late \cup {"idle"}, ret : {"none", "ok", "error"},
            src : Names, dst : Names,
            from : {"none", "open", "bad"}, to : {"none", "open", "bad"},
            rpos : Nat, wpos : Nat, buf : Bytes, lost : BOOLEAN]

CopyTyped ==
    /\ file \in [Names -> Bytes \cup {Absent}]
    /\ job \in [Copy!Tasks -> JobType \cup {Copy!NoJob}]
    /\ fds \in [Copy!Tasks -> Nat] /\ limit \in [Copy!Tasks -> {"user", "kernel"}]
    /\ done \in [Copy!Tasks -> [calls : Nat, errors : Nat]]
    /\ disturbed \subseteq Copy!Tasks

\* What is done at each place of the call j of task u.
Place(u, j) ==
    /\ j.pc \in {"names", "open_source"} => j.from = "none"
    /\ j.pc = "stat" => (j.from = "none" <=> u \in Callers)
    /\ j.pc = "open_target" => j.from # "none"
    /\ j.pc \in Early => j.to = "none" /\ j.rpos = 0 /\ j.wpos = 0 /\ j.buf = <<>> /\ ~j.lost
    /\ j.pc \in Late => j.from # "none" /\ j.to # "none"
    /\ j.pc = "read" => j.buf = <<>>
    /\ j.pc \in {"write", "close"} => j.from = "open"
    /\ j.pc # "idle" => Len(j.buf) <= BufLen

\* A file that was opened is there.
There(f, j) ==
    j.pc # "idle" => /\ j.from = "open" => f[j.src] \in Bytes
                     /\ j.to = "open" => f[j.dst] \in Bytes

\* The descriptors: those of the call, and two at most of each that failed.
OneIf(b) == IF b THEN 1 ELSE 0
OpenNow(j) == OneIf(j.from = "open") + OneIf(j.to = "open")
Lost(u, e) == IF u \in Callers THEN 2 * e ELSE 0
Descriptors(u, j, n, e) ==
    IF j.pc = "idle" THEN n <= Lost(u, e)
    ELSE OpenNow(j) <= n /\ n <= Lost(u, e) + OpenNow(j)

\* The target holds what was written, and the buffer what was read and is to be
\* written: together the source as far as it was read.
Halves(s, d, j) ==
    /\ j.wpos + Len(j.buf) = j.rpos /\ j.rpos <= Len(s) /\ Len(d) = j.wpos
    /\ \A i \in 1 .. j.wpos : d[i] = s[i]
    /\ \A i \in 1 .. Len(j.buf) : j.buf[i] = s[j.wpos + i]
    /\ j.pc = "close" => j.buf = <<>> /\ j.rpos = Len(s)
SoFar(f, j) ==
    j.pc \in Late /\ ~j.lost /\ j.src # j.dst /\ j.from = "open" /\ j.to = "open" =>
        Halves(f[j.src], f[j.dst], j)

TaskOf(u) == /\ Place(u, job[u]) /\ There(file, job[u])
             /\ Descriptors(u, job[u], fds[u], done[u].errors)
             /\ limit[u] = (IF Copy!Running(u) /\ u \in Callers THEN "kernel" ELSE "user")
             /\ u \notin disturbed => SoFar(file, job[u])
CopyOf == CopyTyped /\ \A u \in Copy!Tasks : TaskOf(u)

LEMMA CopyInit == Copy!Init => CopyOf
  <1> SUFFICES ASSUME Copy!Init PROVE CopyOf
    OBVIOUS
  <1>1. /\ file \in [Names -> Contents \cup {Absent}]
        /\ job = [t \in Copy!Tasks |-> Copy!NoJob]
        /\ fds = [t \in Copy!Tasks |-> 0]
        /\ limit = [t \in Copy!Tasks |-> "user"]
        /\ done = [t \in Copy!Tasks |-> [calls |-> 0, errors |-> 0]]
        /\ disturbed = {}
    BY DEF Copy!Init
  <1>2. CopyTyped
    BY <1>1, ProgramsAssumption DEF CopyTyped, Copy!CopyAssumption, Bytes
  <1>3. ASSUME NEW u \in Copy!Tasks PROVE TaskOf(u)
    <2>1. job[u].pc = "idle" /\ fds[u] = 0 /\ limit[u] = "user" /\ done[u].errors = 0
      BY <1>1 DEF Copy!NoJob
    <2> QED
      BY <2>1 DEF TaskOf, Place, There, Descriptors, Lost, SoFar, Early, Late, Copy!Running
  <1> QED
    BY <1>2, <1>3 DEF CopyOf

\* The types behind one task.
LEMMA TaskTypes ==
    ASSUME CopyOf, NEW t \in Copy!Tasks
    PROVE  /\ job[t].pc # "idle" => job[t] \in JobType
           /\ fds[t] \in Nat /\ done[t].errors \in Nat /\ done[t].calls \in Nat /\ TaskOf(t)
           /\ BufLen \in Nat \ {0} /\ Callers \cap Programs = {}
           /\ t \in Callers \/ t \in Programs
  <1>1. job[t] \in JobType \cup {Copy!NoJob} /\ TaskOf(t)
    BY DEF CopyOf, CopyTyped
  <1>2. job[t] = Copy!NoJob => job[t].pc = "idle"
    BY DEF Copy!NoJob
  <1> QED
    BY <1>1, <1>2, ProgramsAssumption DEF CopyOf, CopyTyped, Copy!CopyAssumption, Copy!Tasks

(***************************************************************************)
(* A step of task t that changes one file at most, and tells of it whoever *)
(* has that file too.                                                      *)
(***************************************************************************)
Tells(t, f, d) ==
    /\ f \in [Names -> Bytes \cup {Absent}] /\ d \subseteq Copy!Tasks
    /\ \A n \in Names : file[n] \in Bytes => f[n] \in Bytes
    /\ \A u \in Copy!Tasks \ {t}, n \in Names :
          u \notin d => u \notin disturbed /\ (f[n] # file[n] => u \notin Copy!Sharing(t, n))

LEMMA TaskStep ==
    ASSUME CopyOf, NEW t \in Copy!Tasks, NEW j \in JobType, NEW n \in Nat, NEW l,
           NEW c \in Nat, NEW e \in Nat, Tells(t, file', disturbed'),
           job' = [job EXCEPT ![t] = j], fds' = [fds EXCEPT ![t] = n],
           limit' = [limit EXCEPT ![t] = l], done' = [done EXCEPT ![t] = [calls |-> c, errors |-> e]],
           l = (IF j.pc # "idle" /\ t \in Callers THEN "kernel" ELSE "user"),
           Place(t, j), There(file', j), Descriptors(t, j, n, e),
           t \notin disturbed' => SoFar(file', j)
    PROVE  CopyOf'
  <1>1. CopyTyped
    BY DEF CopyOf
  <1>2. /\ job'[t] = j /\ fds'[t] = n /\ limit'[t] = l /\ done'[t] = [calls |-> c, errors |-> e]
        /\ \A u \in Copy!Tasks \ {t} : /\ job'[u] = job[u] /\ fds'[u] = fds[u]
                                       /\ limit'[u] = limit[u] /\ done'[u] = done[u]
    BY <1>1 DEF CopyTyped
  <1>3. CopyTyped'
    <2>1. file' \in [Names -> Bytes \cup {Absent}] /\ disturbed' \subseteq Copy!Tasks
      BY DEF Tells
    <2>2. job' \in [Copy!Tasks -> JobType \cup {Copy!NoJob}]
      BY <1>1 DEF CopyTyped
    <2>3. fds' \in [Copy!Tasks -> Nat]
      BY <1>1 DEF CopyTyped
    <2>4. limit' \in [Copy!Tasks -> {"user", "kernel"}]
      BY <1>1 DEF CopyTyped
    <2>5. done' \in [Copy!Tasks -> [calls : Nat, errors : Nat]]
      BY <1>1 DEF CopyTyped
    <2> QED
      BY <2>1, <2>2, <2>3, <2>4, <2>5 DEF CopyTyped
  <1>4. TaskOf(t)'
    BY <1>2 DEF TaskOf, Copy!Running
  <1>5. ASSUME NEW u \in Copy!Tasks \ {t} PROVE TaskOf(u)'
    <2>1. TaskOf(u) /\ (job[u].pc # "idle" => job[u] \in JobType)
      BY TaskTypes
    <2>2. There(file', job[u])
      BY <2>1 DEF TaskOf, There, Tells, JobType
    <2>3. ASSUME u \notin disturbed', job[u].pc # "idle"
          PROVE  /\ u \notin disturbed /\ file'[job[u].src] = file[job[u].src]
                 /\ file'[job[u].dst] = file[job[u].dst]
      <3>1. job[u].src \in Names /\ job[u].dst \in Names
        BY <2>1, <2>3 DEF JobType
      <3>2. u \in Copy!Sharing(t, job[u].src) /\ u \in Copy!Sharing(t, job[u].dst)
        BY <2>3 DEF Copy!Sharing, Copy!Running
      <3> QED
        BY <2>3, <3>1, <3>2 DEF Tells
    <2>4. u \notin disturbed' => SoFar(file', job[u])
      <3>1. "idle" \notin Late
        BY DEF Late
      <3>2. CASE job[u].pc = "idle"
        BY <3>1, <3>2 DEF SoFar
      <3>3. CASE job[u].pc # "idle"
        BY <2>1, <2>3, <3>3 DEF TaskOf, SoFar
      <3> QED
        BY <3>2, <3>3
    <2> QED
      BY <1>2, <2>1, <2>2, <2>4 DEF TaskOf, Copy!Running
  <1> QED
    BY <1>3, <1>4, <1>5 DEF CopyOf

\* A step that changes no file.
LEMMA TellsNone ==
    ASSUME CopyOf, NEW t \in Copy!Tasks, file' = file, disturbed' = disturbed
    PROVE  Tells(t, file', disturbed')
  BY DEF CopyOf, CopyTyped, Tells

(***************************************************************************)
(* The ways out.                                                           *)
(***************************************************************************)
\* A call that is over.
LEMMA Over ==
    ASSUME CopyOf, NEW t \in Copy!Tasks, job[t].pc # "idle", NEW r \in {"ok", "error"}, NEW j,
           j = [job[t] EXCEPT !.pc = "idle", !.ret = r]
    PROVE  j \in JobType /\ j.pc = "idle" /\ Place(t, j) /\ There(file, j) /\ SoFar(file, j)
  <1>1. job[t] \in JobType
    BY TaskTypes
  <1>2. j \in JobType /\ j.pc = "idle"
    BY <1>1 DEF JobType
  <1> QED
    BY <1>2 DEF Place, There, SoFar, Early, Late

LEMMA OpenAtMost == ASSUME NEW j PROVE OpenNow(j) \in 0 .. 2
  BY DEF OpenNow, OneIf

LEMMA FailKeeps ==
    ASSUME CopyOf, NEW t \in Copy!Tasks, job[t].pc # "idle", Copy!Fail(t),
           UNCHANGED <<file, disturbed>>
    PROVE  CopyOf'
  <1> DEFINE j == [job[t] EXCEPT !.pc = "idle", !.ret = "error"]
             n == IF t \in Programs THEN 0 ELSE fds[t]
             e == done[t].errors + 1
  <1>1. /\ CopyTyped /\ job[t] \in JobType /\ fds[t] \in Nat /\ done[t].errors \in Nat
        /\ done[t].calls \in Nat /\ Descriptors(t, job[t], fds[t], done[t].errors)
        /\ (t \in Callers \/ t \in Programs) /\ Callers \cap Programs = {}
    BY TaskTypes DEF CopyOf, TaskOf
  <1>2. /\ j \in JobType /\ j.pc = "idle" /\ Place(t, j) /\ There(file, j) /\ SoFar(file, j)
    BY Over
  <1>3. job' = [job EXCEPT ![t] = j] /\ fds' = [fds EXCEPT ![t] = n] /\ limit' = [limit EXCEPT ![t] = "user"]
    BY <1>1 DEF Copy!Fail, CopyTyped
  <1>4. done' = [done EXCEPT ![t] = [calls |-> done[t].calls, errors |-> e]]
    <2>1. done[t] \in [calls : Nat, errors : Nat]
      BY <1>1 DEF CopyTyped
    <2>2. [done[t] EXCEPT !.errors = e] = [calls |-> done[t].calls, errors |-> e]
      BY <2>1
    <2>3. done' = [done EXCEPT ![t] = [done[t] EXCEPT !.errors = e]]
      BY DEF Copy!Fail
    <2> QED
      BY <2>2, <2>3
  <1> HIDE DEF j
  <1>5. n \in Nat /\ e \in Nat
    BY <1>1
  <1>6. n <= Lost(t, e)
    <2>1. CASE t \in Programs
      BY <1>1, <2>1 DEF Lost
    <2>2. CASE t \in Callers
      <3>1. n = fds[t] /\ fds[t] <= 2 * done[t].errors + OpenNow(job[t])
        BY <1>1, <2>2 DEF Descriptors, Lost
      <3>2. OpenNow(job[t]) \in 0 .. 2
        BY OpenAtMost
      <3> QED
        BY <1>1, <2>2, <3>1, <3>2 DEF Lost
    <2> QED
      BY <1>1, <2>1, <2>2
  <1>7. Descriptors(t, j, n, e)
    BY <1>2, <1>6 DEF Descriptors
  <1> HIDE DEF n, e
  <1>8. Tells(t, file', disturbed')
    BY TellsNone
  <1> QED
    BY <1>1, <1>2, <1>3, <1>4, <1>5, <1>7, <1>8, TaskStep

\* Nothing changes for the others, and the counts of t stay.
LEMMA QuietStep ==
    ASSUME CopyOf, NEW t \in Copy!Tasks, job[t].pc # "idle", NEW j \in JobType, j.pc # "idle",
           job' = [job EXCEPT ![t] = j], UNCHANGED <<limit, done>>, NEW n \in Nat,
           fds' = [fds EXCEPT ![t] = n], Tells(t, file', disturbed'),
           Place(t, j), There(file', j), Descriptors(t, j, n, done[t].errors),
           t \notin disturbed' => SoFar(file', j)
    PROVE  CopyOf'
  <1>1. CopyTyped /\ TaskOf(t) /\ done[t].errors \in Nat /\ done[t].calls \in Nat
    BY TaskTypes DEF CopyOf
  <1>2. done' = [done EXCEPT ![t] = [calls |-> done[t].calls, errors |-> done[t].errors]]
    <2>1. done[t] \in [calls : Nat, errors : Nat] /\ done \in [Copy!Tasks -> [calls : Nat, errors : Nat]]
      BY <1>1 DEF CopyTyped
    <2>2. done[t] = [calls |-> done[t].calls, errors |-> done[t].errors]
      BY <2>1
    <2> QED
      BY <2>1, <2>2
  <1>3. limit' = [limit EXCEPT ![t] = limit[t]]
    BY <1>1 DEF CopyTyped
  <1>4. limit[t] = (IF j.pc # "idle" /\ t \in Callers THEN "kernel" ELSE "user")
    BY <1>1 DEF TaskOf, Copy!Running
  <1> QED
    BY <1>1, <1>2, <1>3, <1>4, TaskStep

\* A step that only goes to another place, early in a call.
LEMMA GoKeeps ==
    ASSUME CopyOf, NEW t \in Copy!Tasks, job[t].pc \in Early, NEW p \in Early,
           Copy!Go(t, p), UNCHANGED <<file, fds, limit, done, disturbed>>,
           Place(t, [job[t] EXCEPT !.pc = p])
    PROVE  CopyOf'
  <1> DEFINE j == [job[t] EXCEPT !.pc = p]
  <1>1. /\ CopyTyped /\ job[t] \in JobType /\ TaskOf(t) /\ job[t].pc # "idle" /\ p # "idle"
        /\ fds[t] \in Nat /\ p \notin Late
    BY TaskTypes DEF CopyOf, Early, Late
  <1>2. /\ j \in JobType /\ j.pc = p /\ j.from = job[t].from /\ j.to = job[t].to
        /\ j.src = job[t].src /\ j.dst = job[t].dst
    BY <1>1 DEF JobType
  <1>3. job' = [job EXCEPT ![t] = j]
    BY DEF Copy!Go
  <1>4. Place(t, j)
    OBVIOUS
  <1> HIDE DEF j
  <1>5. There(file, j)
    BY <1>1, <1>2 DEF TaskOf, There
  <1>6. SoFar(file, j)
    BY <1>1, <1>2 DEF SoFar
  <1>7. Descriptors(t, j, fds[t], done[t].errors)
    BY <1>1, <1>2 DEF TaskOf, Descriptors, OpenNow
  <1>8. Tells(t, file', disturbed')
    BY TellsNone
  <1>9. fds' = [fds EXCEPT ![t] = fds[t]]
    BY <1>1 DEF CopyTyped
  <1> QED
    BY <1>1, <1>2, <1>3, <1>4, <1>5, <1>6, <1>7, <1>8, <1>9, QuietStep

LEMMA NamesKeeps == ASSUME CopyOf, NEW t \in Copy!Tasks, Copy!GetNames(t) PROVE CopyOf'
  <1>1. job[t].pc = "names" /\ UNCHANGED <<file, disturbed>>
    BY DEF Copy!GetNames
  <1>2. CASE Copy!Fail(t)
    BY <1>1, <1>2, FailKeeps
  <1>3. CASE Copy!Go(t, Copy!AfterNames(t)) /\ UNCHANGED <<fds, limit, done>>
    <2>1. /\ job[t] \in JobType /\ Place(t, job[t])
          /\ Copy!AfterNames(t) = IF t \in Callers THEN "stat" ELSE "open_source"
      BY <1>1, TaskTypes DEF TaskOf, Copy!AfterNames
    <2>2. Place(t, [job[t] EXCEPT !.pc = Copy!AfterNames(t)])
      BY <1>1, <2>1 DEF Place, JobType, Early, Late
    <2> QED
      BY <1>1, <1>3, <2>1, <2>2, GoKeeps DEF Early
  <1> QED
    BY <1>2, <1>3 DEF Copy!GetNames

LEMMA StatKeeps == ASSUME CopyOf, NEW t \in Copy!Tasks, Copy!Stat(t) PROVE CopyOf'
  <1>1. job[t].pc = "stat" /\ UNCHANGED <<file, disturbed>>
    BY DEF Copy!Stat
  <1>2. CASE Copy!Fail(t)
    BY <1>1, <1>2, FailKeeps
  <1>3. CASE Copy!Go(t, Copy!AfterStat(t)) /\ UNCHANGED <<fds, limit, done>>
    <2>1. /\ job[t] \in JobType /\ Place(t, job[t])
          /\ Copy!AfterStat(t) = IF t \in Callers THEN "open_source" ELSE "open_target"
      BY <1>1, TaskTypes DEF TaskOf, Copy!AfterStat
    <2>2. Place(t, [job[t] EXCEPT !.pc = Copy!AfterStat(t)])
      BY <1>1, <2>1 DEF Place, JobType, Early, Late
    <2> QED
      BY <1>1, <1>3, <2>1, <2>2, GoKeeps DEF Early
  <1> QED
    BY <1>2, <1>3 DEF Copy!Stat

LEMMA OpenSourceKeeps == ASSUME CopyOf, NEW t \in Copy!Tasks, Copy!OpenSource(t) PROVE CopyOf'
  <1>1. job[t].pc = "open_source" /\ UNCHANGED <<file, disturbed>>
    BY DEF Copy!OpenSource
  <1>2. CASE Copy!Fail(t)
    BY <1>1, <1>2, FailKeeps
  <1>3. /\ CopyTyped /\ job[t] \in JobType /\ TaskOf(t) /\ fds[t] \in Nat
        /\ Tells(t, file', disturbed') /\ done[t].errors \in Nat
    BY <1>1, TaskTypes, TellsNone DEF CopyOf
  <1>4. PICK p : p = Copy!AfterSource(t)
    OBVIOUS
  <1>5. p = (IF t \in Callers THEN "open_target" ELSE "stat") /\ p # "idle" /\ p \notin Late /\ p \in Early
    BY <1>4 DEF Copy!AfterSource, Early, Late
  <1>6. CASE /\ file[job[t].src] # Absent
             /\ job' = [job EXCEPT ![t] = [@ EXCEPT !.pc = Copy!AfterSource(t), !.from = "open"]]
             /\ fds' = [fds EXCEPT ![t] = @ + 1]
             /\ UNCHANGED <<limit, done>>
    <2>1. PICK j : j = [job[t] EXCEPT !.pc = p, !.from = "open"]
      OBVIOUS
    <2>2. /\ j \in JobType /\ j.pc = p /\ j.from = "open" /\ j.to = job[t].to
          /\ j.src = job[t].src /\ j.dst = job[t].dst
          /\ j.rpos = job[t].rpos /\ j.wpos = job[t].wpos /\ j.buf = job[t].buf /\ j.lost = job[t].lost
      BY <1>3, <1>5, <2>1 DEF JobType
    <2>3. job' = [job EXCEPT ![t] = j]
      BY <1>3, <1>4, <1>6, <2>1 DEF CopyTyped
    <2>4. Place(t, j)
      BY <1>1, <1>3, <1>5, <2>2, TaskTypes DEF Place, TaskOf, Early, Late
    <2>5. There(file, j)
      <3>1. file[job[t].src] \in Bytes
        BY <1>3, <1>6 DEF CopyTyped, JobType
      <3> QED
        BY <1>1, <1>3, <2>2, <3>1 DEF There, TaskOf
    <2>6. SoFar(file, j)
      BY <1>5, <2>2 DEF SoFar
    <2>7. Descriptors(t, j, fds[t] + 1, done[t].errors)
      <3>1. job[t].from = "none" /\ OpenNow(j) = OpenNow(job[t]) + 1
        BY <1>1, <1>3, <2>2 DEF TaskOf, Place, OpenNow, OneIf
      <3>2. Descriptors(t, job[t], fds[t], done[t].errors) /\ OpenNow(job[t]) \in 0 .. 2
        BY <1>3, OpenAtMost DEF TaskOf
      <3>3. Lost(t, done[t].errors) \in Nat
        BY <1>3 DEF Lost
      <3> QED
        BY <1>1, <1>3, <1>5, <2>2, <3>1, <3>2, <3>3 DEF Descriptors
    <2>8. fds' = [fds EXCEPT ![t] = fds[t] + 1] /\ fds[t] + 1 \in Nat
      BY <1>3, <1>6
    <2> QED
      BY <1>1, <1>3, <1>5, <1>6, <2>2, <2>3, <2>4, <2>5, <2>6, <2>7, <2>8, QuietStep
  <1>7. CASE /\ t \in Callers
             /\ job' = [job EXCEPT ![t] = [@ EXCEPT !.pc = Copy!AfterSource(t), !["from"] = "bad"]]
             /\ UNCHANGED <<fds, limit, done>>
    <2>1. PICK j : j = [job[t] EXCEPT !.pc = p, !["from"] = "bad"]
      OBVIOUS
    <2>2. /\ j \in JobType /\ j.pc = p /\ j.from = "bad" /\ j.to = job[t].to
          /\ j.src = job[t].src /\ j.dst = job[t].dst
          /\ j.rpos = job[t].rpos /\ j.wpos = job[t].wpos /\ j.buf = job[t].buf /\ j.lost = job[t].lost
      BY <1>3, <1>5, <2>1 DEF JobType
    <2>3. job' = [job EXCEPT ![t] = j]
      BY <1>3, <1>4, <1>7, <2>1 DEF CopyTyped
    <2>4. Place(t, j)
      BY <1>1, <1>3, <1>5, <1>7, <2>2, TaskTypes DEF Place, TaskOf, Early, Late
    <2>5. There(file, j)
      BY <1>1, <1>3, <2>2 DEF There, TaskOf
    <2>6. SoFar(file, j)
      BY <1>5, <2>2 DEF SoFar
    <2>7. Descriptors(t, j, fds[t], done[t].errors)
      <3>1. job[t].from = "none" /\ OpenNow(j) = OpenNow(job[t])
        BY <1>1, <1>3, <2>2 DEF TaskOf, Place, OpenNow, OneIf
      <3>2. Descriptors(t, job[t], fds[t], done[t].errors)
        BY <1>3 DEF TaskOf
      <3> QED
        BY <1>1, <1>5, <2>2, <3>1, <3>2 DEF Descriptors
    <2>8. fds' = [fds EXCEPT ![t] = fds[t]]
      BY <1>3, <1>7 DEF CopyTyped
    <2> QED
      BY <1>1, <1>3, <1>5, <1>7, <2>2, <2>3, <2>4, <2>5, <2>6, <2>7, <2>8, QuietStep
  <1> QED
    BY <1>2, <1>6, <1>7 DEF Copy!OpenSource, Copy!OpenFails

\* A step that changes one file.
LEMMA TellsOne ==
    ASSUME CopyOf, NEW t \in Copy!Tasks, NEW n \in Names, NEW x \in Bytes,
           file' = [file EXCEPT ![n] = x], disturbed' = disturbed \cup Copy!Sharing(t, n)
    PROVE  Tells(t, file', disturbed')
  <1>1. file \in [Names -> Bytes \cup {Absent}] /\ disturbed \subseteq Copy!Tasks
    BY DEF CopyOf, CopyTyped
  <1>2. file' \in [Names -> Bytes \cup {Absent}] /\ file'[n] = x
        /\ \A m \in Names \ {n} : file'[m] = file[m]
    BY <1>1
  <1>3. disturbed' \subseteq Copy!Tasks
    BY <1>1 DEF Copy!Sharing
  <1>4. \A m \in Names : file[m] \in Bytes => file'[m] \in Bytes
    BY <1>2
  <1>5. \A u \in Copy!Tasks \ {t}, m \in Names :
           u \notin disturbed' => u \notin disturbed /\ (file'[m] # file[m] => u \notin Copy!Sharing(t, m))
    <2> SUFFICES ASSUME NEW u \in Copy!Tasks \ {t}, NEW m \in Names, u \notin disturbed'
                 PROVE  u \notin disturbed /\ (file'[m] # file[m] => u \notin Copy!Sharing(t, m))
      OBVIOUS
    <2>1. u \notin disturbed /\ u \notin Copy!Sharing(t, n)
      OBVIOUS
    <2>2. file'[m] # file[m] => m = n
      BY <1>2
    <2> QED
      BY <2>1, <2>2, Zenon
  <1> QED
    BY <1>2, <1>3, <1>4, <1>5 DEF Tells

LEMMA OpenTargetKeeps == ASSUME CopyOf, NEW t \in Copy!Tasks, Copy!OpenTarget(t) PROVE CopyOf'
  <1>1. job[t].pc = "open_target"
    BY DEF Copy!OpenTarget
  <1>2. CASE Copy!Fail(t) /\ UNCHANGED <<file, disturbed>>
    BY <1>1, <1>2, FailKeeps
  <1>3. /\ CopyTyped /\ job[t] \in JobType /\ TaskOf(t) /\ fds[t] \in Nat
        /\ done[t].errors \in Nat /\ job[t].dst \in Names /\ job[t].src \in Names
    BY <1>1, TaskTypes DEF CopyOf, JobType
  <1>4. /\ job[t].from # "none" /\ job[t].to = "none" /\ job[t].rpos = 0 /\ job[t].wpos = 0
        /\ job[t].buf = <<>> /\ Len(job[t].buf) = 0
    BY <1>1, <1>3 DEF TaskOf, Place, Early
  <1>5. CASE /\ job' = [job EXCEPT ![t] = [@ EXCEPT !.pc = "read", !.to = "open"]]
             /\ file' = [file EXCEPT ![job[t].dst] = <<>>]
             /\ fds' = [fds EXCEPT ![t] = @ + 1]
             /\ disturbed' = disturbed \cup Copy!Sharing(t, job[t].dst)
             /\ UNCHANGED <<limit, done>>
    <2>1. PICK j : j = [job[t] EXCEPT !.pc = "read", !.to = "open"]
      OBVIOUS
    <2>2. /\ j \in JobType /\ j.pc = "read" /\ j.to = "open" /\ j.from = job[t].from
          /\ j.src = job[t].src /\ j.dst = job[t].dst
          /\ j.rpos = 0 /\ j.wpos = 0 /\ j.buf = <<>> /\ j.lost = job[t].lost
      BY <1>3, <1>4, <2>1 DEF JobType, Late
    <2>3. job' = [job EXCEPT ![t] = j]
      BY <1>3, <1>5, <2>1 DEF CopyTyped
    <2>4. Place(t, j)
      BY <1>4, <2>2, TaskTypes DEF Place, Early, Late
    <2>5. <<>> \in Bytes /\ Len(<<>>) = 0
      BY DEF Bytes
    <2>6. Tells(t, file', disturbed')
      BY <1>3, <1>5, <2>5, TellsOne
    <2>7. /\ file'[j.dst] = <<>>
          /\ j.src # j.dst => file'[j.src] = file[j.src]
      BY <1>3, <1>5, <2>2 DEF CopyTyped
    <2>8. There(file', j)
      <3>1. j.from = "open" => file[j.src] \in Bytes
        BY <1>1, <1>3, <2>2 DEF TaskOf, There
      <3>2. j.src = j.dst \/ j.src # j.dst
        OBVIOUS
      <3> QED
        BY <2>5, <2>7, <3>1, <3>2 DEF There
    <2>9. SoFar(file', j)
      <3> SUFFICES ASSUME j.src # j.dst, j.from = "open" PROVE Halves(file'[j.src], file'[j.dst], j)
        BY DEF SoFar
      <3>1. file[j.src] \in Bytes /\ Len(file[j.src]) \in Nat
        BY <1>1, <1>3, <2>2 DEF TaskOf, There, Bytes
      <3> QED
        BY <2>2, <2>5, <2>7, <3>1 DEF Halves
    <2>10. Descriptors(t, j, fds[t] + 1, done[t].errors)
      <3>1. OpenNow(j) = OpenNow(job[t]) + 1
        BY <1>4, <2>2 DEF OpenNow, OneIf
      <3>2. Descriptors(t, job[t], fds[t], done[t].errors) /\ OpenNow(job[t]) \in 0 .. 2
        BY <1>3, OpenAtMost DEF TaskOf
      <3>3. Lost(t, done[t].errors) \in Nat
        BY <1>3 DEF Lost
      <3> QED
        BY <1>1, <1>3, <2>2, <3>1, <3>2, <3>3 DEF Descriptors
    <2>11. fds' = [fds EXCEPT ![t] = fds[t] + 1] /\ fds[t] + 1 \in Nat /\ j.pc # "idle" /\ job[t].pc # "idle"
      BY <1>1, <1>3, <1>5, <2>2
    <2> QED
      BY <1>5, <2>2, <2>3, <2>4, <2>6, <2>8, <2>9, <2>10, <2>11, QuietStep
  <1>6. CASE /\ t \in Callers
             /\ job' = [job EXCEPT ![t] = [@ EXCEPT !.pc = "read", !["to"] = "bad"]]
             /\ UNCHANGED <<file, disturbed, fds, limit, done>>
    <2>1. PICK j : j = [job[t] EXCEPT !.pc = "read", !["to"] = "bad"]
      OBVIOUS
    <2>2. /\ j \in JobType /\ j.pc = "read" /\ j.to = "bad" /\ j.from = job[t].from
          /\ j.src = job[t].src /\ j.dst = job[t].dst /\ j.buf = <<>>
      BY <1>3, <1>4, <2>1 DEF JobType, Late
    <2>3. job' = [job EXCEPT ![t] = j]
      BY <1>3, <1>6, <2>1 DEF CopyTyped
    <2>4. Place(t, j)
      BY <1>4, <2>2, TaskTypes DEF Place, Early, Late
    <2>5. There(file, j)
      BY <1>1, <1>3, <2>2 DEF There, TaskOf
    <2>6. SoFar(file, j)
      BY <2>2 DEF SoFar
    <2>7. Descriptors(t, j, fds[t], done[t].errors)
      <3>1. OpenNow(j) = OpenNow(job[t])
        BY <1>4, <2>2 DEF OpenNow, OneIf
      <3>2. Descriptors(t, job[t], fds[t], done[t].errors)
        BY <1>3 DEF TaskOf
      <3> QED
        BY <1>1, <2>2, <3>1, <3>2 DEF Descriptors
    <2>8. /\ fds' = [fds EXCEPT ![t] = fds[t]] /\ j.pc # "idle" /\ job[t].pc # "idle"
      BY <1>1, <1>3, <1>6, <2>2 DEF CopyTyped
    <2>9. Tells(t, file', disturbed')
      BY <1>6, TellsNone
    <2> QED
      BY <1>3, <1>6, <2>2, <2>3, <2>4, <2>5, <2>6, <2>7, <2>8, <2>9, QuietStep
  <1> QED
    BY <1>2, <1>5, <1>6 DEF Copy!OpenTarget, Copy!OpenFails

\* The module of the copiers and this one count with the same definition.
LEMMA CopyCardinality == ASSUME NEW S PROVE Copy!Cardinality(S) = Cardinality(S)
  BY DEF Copy!Cardinality, Cardinality

LEMMA CloseKeeps == ASSUME CopyOf, NEW t \in Copy!Tasks, Copy!Close(t) PROVE CopyOf'
  <1>1. /\ job[t].pc = "close" /\ UNCHANGED <<file, done, disturbed>>
        /\ job' = [job EXCEPT ![t].pc = "idle", ![t].ret = "ok"]
        /\ fds' = [fds EXCEPT ![t] = @ - Cardinality(Copy!OpenEnds(t))]
        /\ limit' = [limit EXCEPT ![t] = "user"]
    <2>1. job[t].pc = "close" /\ UNCHANGED <<file, done, disturbed>>
      BY DEF Copy!Close
    <2>2. job' = [job EXCEPT ![t].pc = "idle", ![t].ret = "ok"]
      BY Zenon DEF Copy!Close
    <2>3. fds' = [fds EXCEPT ![t] = @ - Cardinality(Copy!OpenEnds(t))]
      <3>1. fds' = [fds EXCEPT ![t] = @ - Copy!Cardinality(Copy!OpenEnds(t))]
        BY Zenon DEF Copy!Close
      <3> QED
        BY <3>1, CopyCardinality
    <2>4. limit' = [limit EXCEPT ![t] = "user"]
      BY Zenon DEF Copy!Close
    <2> QED
      BY <2>1, <2>2, <2>3, <2>4
  <1>2. /\ CopyTyped /\ job[t] \in JobType /\ TaskOf(t) /\ fds[t] \in Nat
        /\ done[t].errors \in Nat /\ done[t].calls \in Nat
    BY <1>1, TaskTypes DEF CopyOf
  <1>3. PICK j : j = [job[t] EXCEPT !.pc = "idle", !.ret = "ok"]
    OBVIOUS
  <1>4. j \in JobType /\ j.pc = "idle" /\ Place(t, j) /\ There(file, j) /\ SoFar(file, j)
    BY <1>1, <1>3, Over
  <1>5. Cardinality(Copy!OpenEnds(t)) = OpenNow(job[t])
    <2>9. PICK S : S = Copy!OpenEnds(t)
      OBVIOUS
    <2>1. /\ Cardinality({}) = 0
          /\ \A x : Cardinality({x}) = 1
      BY FS_EmptySet, FS_Singleton
    <2>2. Cardinality({"from", "to"}) = 2
      <3>1. IsFiniteSet({"from"}) /\ Cardinality({"from"}) = 1 /\ "to" \notin {"from"}
        BY FS_Singleton
      <3>2. Cardinality({"from"} \cup {"to"}) = 2
        BY <3>1, FS_AddElement
      <3>3. {"from"} \cup {"to"} = {"from", "to"}
        OBVIOUS
      <3> QED
        BY <2>9, <3>2, <3>3
    <2>3. CASE job[t].from = "open" /\ job[t].to = "open"
      <3>1. S = {"from", "to"}
        BY <2>3, <2>9 DEF Copy!OpenEnds
      <3> QED
        BY <2>2, <2>3, <2>9, <3>1 DEF OpenNow, OneIf
    <2>4. CASE job[t].from = "open" /\ job[t].to # "open"
      <3>1. S = {"from"}
        BY <2>4, <2>9 DEF Copy!OpenEnds
      <3>2. Cardinality(S) = 1
        BY ONLY <2>1, <3>1
      <3>3. OpenNow(job[t]) = 1
        BY ONLY <2>4 DEF OpenNow, OneIf
      <3> QED
        BY <2>9, <3>2, <3>3
    <2>5. CASE job[t].from # "open" /\ job[t].to = "open"
      <3>1. S = {"to"}
        BY <2>5, <2>9 DEF Copy!OpenEnds
      <3>2. Cardinality(S) = 1
        BY ONLY <2>1, <3>1
      <3>3. OpenNow(job[t]) = 1
        BY ONLY <2>5 DEF OpenNow, OneIf
      <3> QED
        BY <2>9, <3>2, <3>3
    <2>6. CASE job[t].from # "open" /\ job[t].to # "open"
      <3>1. S = {}
        BY <2>6, <2>9 DEF Copy!OpenEnds
      <3> QED
        BY <2>1, <2>6, <2>9, <3>1 DEF OpenNow, OneIf
    <2> QED
      BY <2>3, <2>4, <2>5, <2>6
  <1>6. PICK n : n = fds[t] - OpenNow(job[t])
    OBVIOUS
  <1>7. n \in Nat /\ Descriptors(t, j, n, done[t].errors)
    <2>1. /\ OpenNow(job[t]) <= fds[t] /\ fds[t] <= Lost(t, done[t].errors) + OpenNow(job[t])
          /\ OpenNow(job[t]) \in 0 .. 2 /\ Lost(t, done[t].errors) \in Nat
      BY <1>1, <1>2, OpenAtMost DEF TaskOf, Descriptors, Lost
    <2> QED
      BY <1>2, <1>4, <1>6, <2>1 DEF Descriptors
  <1>8. /\ job' = [job EXCEPT ![t] = j] /\ fds' = [fds EXCEPT ![t] = n]
    BY <1>1, <1>2, <1>3, <1>5, <1>6 DEF CopyTyped
  <1>9. done' = [done EXCEPT ![t] = [calls |-> done[t].calls, errors |-> done[t].errors]]
    <2>1. done[t] \in [calls : Nat, errors : Nat] /\ done \in [Copy!Tasks -> [calls : Nat, errors : Nat]]
      BY <1>2 DEF CopyTyped
    <2>2. done[t] = [calls |-> done[t].calls, errors |-> done[t].errors]
      BY <2>1
    <2> QED
      BY <1>1, <2>1, <2>2
  <1>10. Tells(t, file', disturbed')
    BY <1>1, TellsNone
  <1> QED
    BY <1>1, <1>2, <1>4, <1>7, <1>8, <1>9, <1>10, TaskStep

LEMMA StartKeeps ==
    ASSUME CopyOf, NEW t \in Copy!Tasks, NEW s \in Names, NEW d \in Names, Copy!Start(t, s, d)
    PROVE  CopyOf'
  <1>1. PICK j : j = [pc |-> "names", ret |-> "none", src |-> s, dst |-> d,
                      from |-> "none", to |-> "none", rpos |-> 0, wpos |-> 0,
                      buf |-> <<>>, lost |-> FALSE]
    OBVIOUS
  <1>2. /\ job[t].pc = "idle" /\ job' = [job EXCEPT ![t] = j]
        /\ limit' = [limit EXCEPT ![t] = IF t \in Callers THEN "kernel" ELSE "user"]
        /\ done' = [done EXCEPT ![t].calls = @ + 1]
        /\ disturbed' = disturbed \ {t} /\ UNCHANGED <<file, fds>>
    BY <1>1 DEF Copy!Start, Copy!Running
  <1>3. /\ CopyTyped /\ TaskOf(t) /\ fds[t] \in Nat /\ done[t].errors \in Nat /\ done[t].calls \in Nat
    BY TaskTypes DEF CopyOf
  <1>4. <<>> \in Bytes /\ Len(<<>>) = 0
    BY DEF Bytes
  <1>5. j \in JobType
    BY <1>1, <1>4 DEF JobType, Early
  <1>6. /\ j.pc = "names" /\ j.from = "none" /\ j.to = "none" /\ j.rpos = 0 /\ j.wpos = 0
        /\ j.buf = <<>>
    BY <1>1
  <1>7. ~j.lost
    BY <1>1
  <1>8. Place(t, j)
    BY <1>4, <1>6, <1>7, TaskTypes DEF Place, Early, Late
  <1>9. There(file, j) /\ SoFar(file, j)
    BY <1>6 DEF There, SoFar, Late
  <1>10. Descriptors(t, j, fds[t], done[t].errors)
    <2>1. fds[t] <= Lost(t, done[t].errors)
      BY <1>2, <1>3 DEF TaskOf, Descriptors
    <2>2. OpenNow(j) = 0 /\ Lost(t, done[t].errors) \in Nat
      BY <1>3, <1>6 DEF OpenNow, OneIf, Lost
    <2> QED
      BY <1>3, <1>6, <2>1, <2>2 DEF Descriptors
  <1>11. done' = [done EXCEPT ![t] = [calls |-> done[t].calls + 1, errors |-> done[t].errors]]
    <2>1. done[t] \in [calls : Nat, errors : Nat]
      BY <1>3 DEF CopyTyped
    <2>2. [done[t] EXCEPT !.calls = done[t].calls + 1]
             = [calls |-> done[t].calls + 1, errors |-> done[t].errors]
      BY <2>1
    <2>3. done' = [done EXCEPT ![t] = [done[t] EXCEPT !.calls = done[t].calls + 1]]
      BY <1>2
    <2> QED
      BY <2>2, <2>3
  <1>12. fds' = [fds EXCEPT ![t] = fds[t]]
    BY <1>2, <1>3 DEF CopyTyped
  <1>13. Tells(t, file', disturbed')
    <2>1. disturbed' \subseteq Copy!Tasks /\ file' = file /\ file \in [Names -> Bytes \cup {Absent}]
      BY <1>2, <1>3 DEF CopyTyped
    <2>2. \A u \in Copy!Tasks \ {t} : u \notin disturbed' => u \notin disturbed
      BY <1>2
    <2> QED
      BY <2>1, <2>2 DEF Tells
  <1>14. done[t].calls + 1 \in Nat /\ j.pc # "idle"
    BY <1>3, <1>6
  <1> QED
    BY <1>2, <1>3, <1>5, <1>8, <1>9, <1>10, <1>11, <1>12, <1>13, <1>14, TaskStep

(***************************************************************************)
(* The loop.                                                               *)
(***************************************************************************)
\* The part of a sequence that is there.
LEMMA PartOf ==
    ASSUME NEW s \in Bytes, NEW a \in Nat, NEW n \in Nat, a + n <= Len(s)
    PROVE  /\ SubSeq(s, a + 1, a + n) \in Bytes /\ Len(SubSeq(s, a + 1, a + n)) = n
           /\ \A i \in 1 .. n : SubSeq(s, a + 1, a + n)[i] = s[a + i]
  <1>1. a + 1 \in Int /\ a + n \in Int /\ \A i \in (a + 1) .. (a + n) : i \in 1 .. Len(s)
    BY DEF Bytes
  <1>2. \A i \in (a + 1) .. (a + n) : s[i] \in Nat
    BY <1>1 DEF Bytes
  <1>3. /\ SubSeq(s, a + 1, a + n) \in Seq(Nat)
        /\ Len(SubSeq(s, a + 1, a + n)) = IF a + 1 <= a + n THEN (a + n) - (a + 1) + 1 ELSE 0
        /\ \A i \in 1 .. (a + n) - (a + 1) + 1 : SubSeq(s, a + 1, a + n)[i] = s[(a + 1) + i - 1]
    BY ONLY <1>1, <1>2, SubSeqProperties
  <1>4. Len(SubSeq(s, a + 1, a + n)) = n
    BY ONLY <1>3
  <1>5. ASSUME NEW i \in 1 .. n PROVE SubSeq(s, a + 1, a + n)[i] = s[a + i]
    <2>1. i \in 1 .. (a + n) - (a + 1) + 1 /\ (a + 1) + i - 1 = a + i
      OBVIOUS
    <2> QED
      BY <1>3, <2>1
  <1> QED
    BY <1>3, <1>4, <1>5 DEF Bytes

LEMMA FirstPart ==
    ASSUME NEW s \in Bytes, NEW n \in Nat, n <= Len(s)
    PROVE  /\ SubSeq(s, 1, n) \in Bytes /\ Len(SubSeq(s, 1, n)) = n
           /\ \A i \in 1 .. n : SubSeq(s, 1, n)[i] = s[i]
  <1>1. PICK z \in Nat : z = 0
    OBVIOUS
  <1>2. z + n <= Len(s)
    BY <1>1
  <1>3. /\ SubSeq(s, z + 1, z + n) \in Bytes /\ Len(SubSeq(s, z + 1, z + n)) = n
        /\ \A i \in 1 .. n : SubSeq(s, z + 1, z + n)[i] = s[z + i]
    BY ONLY <1>2, PartOf
  <1>4. z + 1 = 1 /\ z + n = n /\ \A i \in 1 .. n : z + i = i
    BY <1>1
  <1> QED
    BY ONLY <1>3, <1>4

\* What a write leaves is a file; behind the end of the old one, it is longer by
\* what was written.
LEMMA StoredFile ==
    ASSUME NEW old \in Bytes, NEW pos \in Nat, NEW b \in Bytes
    PROVE  /\ Copy!Stored(old, pos, b) \in Bytes
           /\ pos = Len(old) =>
                 /\ Len(Copy!Stored(old, pos, b)) = pos + Len(b)
                 /\ \A i \in 1 .. pos : Copy!Stored(old, pos, b)[i] = old[i]
                 /\ \A i \in 1 .. Len(b) : Copy!Stored(old, pos, b)[pos + i] = b[i]
  <1>1. PICK o \in Nat, l \in Nat : o = Len(old) /\ l = Len(b)
    BY DEF Bytes
  <1> DEFINE m == IF pos + l > o THEN pos + l ELSE o
             g == [i \in 1 .. m |-> IF i > pos /\ i <= pos + l THEN b[i - pos]
                                    ELSE IF i <= o THEN old[i] ELSE 0]
  <1>2. Copy!Stored(old, pos, b) = g
    BY <1>1 DEF Copy!Stored
  <1>3. m \in Nat
    OBVIOUS
  <1>4. ASSUME NEW i \in 1 .. m PROVE g[i] \in Nat
    <2>1. CASE i > pos /\ i <= pos + l
      <3>1. i - pos \in 1 .. Len(b)
        BY <1>1, <2>1
      <3>2. b[i - pos] \in Nat
        BY <3>1 DEF Bytes
      <3> QED
        BY <2>1, <3>2
    <2>2. CASE ~(i > pos /\ i <= pos + l) /\ i <= o
      <3>1. i \in 1 .. Len(old)
        BY <1>1, <2>2
      <3>2. old[i] \in Nat
        BY <3>1 DEF Bytes
      <3> QED
        BY <2>2, <3>2
    <2>3. CASE ~(i > pos /\ i <= pos + l) /\ ~(i <= o)
      BY <2>3
    <2> QED
      BY <2>1, <2>2, <2>3
  <1> HIDE DEF m
  <1>5. g \in [1 .. m -> Nat]
    BY <1>4
  <1>6. g \in Seq(Nat) /\ Len(g) = m
    BY <1>3, <1>5
  <1>7. ASSUME pos = o
        PROVE  /\ m = pos + l
               /\ \A i \in 1 .. pos : g[i] = old[i]
               /\ \A i \in 1 .. l : g[pos + i] = b[i]
    <2>1. m = pos + l
      BY <1>7 DEF m
    <2>2. ASSUME NEW i \in 1 .. pos PROVE g[i] = old[i]
      <3>1. i \in 1 .. m /\ ~(i > pos) /\ i <= o
        BY <1>7, <2>1
      <3> QED
        BY <3>1
    <2>3. ASSUME NEW i \in 1 .. l PROVE g[pos + i] = b[i]
      <3>1. pos + i \in 1 .. m /\ pos + i > pos /\ pos + i <= pos + l /\ (pos + i) - pos = i
        BY <2>1
      <3> QED
        BY <3>1
    <2> QED
      BY <2>1, <2>2, <2>3
  <1> QED
    BY <1>1, <1>2, <1>6, <1>7 DEF Bytes

\* A read goes on where the last one ended.
LEMMA ReadHalves ==
    ASSUME NEW s \in Bytes, NEW d \in Bytes, NEW j \in JobType, j.pc = "read", j.buf = <<>>,
           Halves(s, d, j), NEW n \in Nat, j.rpos + n <= Len(s),
           NEW k \in JobType, k.pc = "write", k.wpos = j.wpos, k.rpos = j.rpos + n,
           k.buf = SubSeq(s, j.rpos + 1, j.rpos + n)
    PROVE  Halves(s, d, k)
  <1>1. /\ j.rpos \in Nat /\ j.wpos \in Nat /\ Len(s) \in Nat /\ Len(j.buf) = 0
    BY DEF JobType, Bytes
  <1>2. j.wpos = j.rpos /\ Len(d) = j.wpos /\ \A i \in 1 .. j.wpos : d[i] = s[i]
    BY <1>1 DEF Halves
  <1>3. Len(k.buf) = n /\ \A i \in 1 .. n : k.buf[i] = s[j.rpos + i]
    <2>1. PICK r \in Nat : r = j.rpos
      BY <1>1
    <2>2. r + n <= Len(s) /\ k.buf = SubSeq(s, r + 1, r + n)
      BY <2>1
    <2>3. Len(k.buf) = n /\ \A i \in 1 .. n : k.buf[i] = s[r + i]
      BY ONLY <2>2, PartOf
    <2> QED
      BY ONLY <2>1, <2>3
  <1>4. k.wpos + Len(k.buf) = k.rpos /\ k.rpos <= Len(s) /\ Len(d) = k.wpos
    BY <1>1, <1>2, <1>3
  <1>5. \A i \in 1 .. Len(k.buf) : k.buf[i] = s[k.wpos + i]
    BY <1>2, <1>3
  <1>6. \A i \in 1 .. k.wpos : d[i] = s[i]
    BY <1>2
  <1> QED
    BY <1>4, <1>5, <1>6 DEF Halves

LEMMA ReadKeeps == ASSUME CopyOf, NEW t \in Copy!Tasks, Copy!Read(t) PROVE CopyOf'
  <1>1. job[t].pc = "read" /\ UNCHANGED <<file, disturbed>>
    BY DEF Copy!Read
  <1>2. CASE Copy!Fail(t)
    BY <1>1, <1>2, FailKeeps
  <1>3. /\ CopyTyped /\ job[t] \in JobType /\ TaskOf(t) /\ fds[t] \in Nat /\ job[t].buf = <<>>
        /\ Tells(t, file', disturbed') /\ done[t].errors \in Nat /\ BufLen \in Nat \ {0}
        /\ job[t].rpos \in Nat /\ job[t].wpos \in Nat /\ job[t].from # "none" /\ job[t].to # "none"
    BY <1>1, TaskTypes, TellsNone DEF CopyOf, JobType, TaskOf, Place, Late
  <1>4. PICK s : s = file[job[t].src]
    OBVIOUS
  <1>5. job[t].from = "open" => s \in Bytes /\ Len(s) \in Nat
    BY <1>1, <1>3, <1>4 DEF TaskOf, There, Bytes
  <1>6. Copy!Left(t) = Len(s) - job[t].rpos
    BY <1>4 DEF Copy!Left
  <1>7. ASSUME job[t].from = "open", UNCHANGED <<fds, limit, done>>, NEW j \in JobType, j.pc \in Late,
               job' = [job EXCEPT ![t] = j], Place(t, j),
               j.from = job[t].from, j.to = job[t].to, j.src = job[t].src, j.dst = job[t].dst,
               ASSUME t \notin disturbed, ~j.lost, j.src # j.dst, j.to = "open"
               PROVE  Halves(s, file[j.dst], j)
        PROVE  CopyOf'
    <2>1. There(file', j)
      BY <1>1, <1>3, <1>7 DEF There, TaskOf
    <2>2. t \notin disturbed' => SoFar(file', j)
      BY <1>1, <1>4, <1>7 DEF SoFar
    <2>3. Descriptors(t, j, fds[t], done[t].errors)
      <3>1. OpenNow(j) = OpenNow(job[t])
        BY <1>7 DEF OpenNow
      <3>2. Descriptors(t, job[t], fds[t], done[t].errors)
        BY <1>3 DEF TaskOf
      <3>3. j.pc # "idle"
        BY <1>7 DEF Late
      <3> QED
        BY <1>1, <3>1, <3>2, <3>3 DEF Descriptors
    <2>4. /\ fds' = [fds EXCEPT ![t] = fds[t]] /\ j.pc # "idle" /\ job[t].pc # "idle"
      BY <1>1, <1>3, <1>7 DEF CopyTyped, Late
    <2> QED
      BY <1>3, <1>7, <2>1, <2>2, <2>3, <2>4, QuietStep
  <1>8. ASSUME job[t].from = "open", UNCHANGED <<fds, limit, done>>, NEW n \in 1 .. BufLen, n <= Copy!Left(t),
               job' = [job EXCEPT ![t] = [job[t] EXCEPT
                         !.pc = "write", !.rpos = job[t].rpos + n,
                         !.buf = SubSeq(file[job[t].src], job[t].rpos + 1, job[t].rpos + n)]]
        PROVE  CopyOf'
    <2>1. PICK b : b = SubSeq(s, job[t].rpos + 1, job[t].rpos + n)
      OBVIOUS
    <2>2. n \in Nat /\ n <= BufLen /\ job[t].rpos + n <= Len(s)
      BY <1>3, <1>5, <1>6, <1>8
    <2>3. b \in Bytes /\ Len(b) = n
      <3>1. PICK a \in Nat : a = job[t].rpos
        BY <1>3
      <3>2. s \in Bytes
        BY <1>5, <1>8
      <3>3. a + n <= Len(s) /\ b = SubSeq(s, a + 1, a + n)
        BY ONLY <1>4, <2>1, <2>2, <3>1
      <3> QED
        BY ONLY <2>2, <3>2, <3>3, PartOf
    <2>9. PICK r \in Nat : r = job[t].rpos + n
      BY <1>3, <2>2
    <2>4. PICK j : j = [job[t] EXCEPT !.pc = "write", !.rpos = r, !.buf = b]
      OBVIOUS
    <2>5. /\ j \in JobType /\ j.pc = "write" /\ j.rpos = job[t].rpos + n /\ j.buf = b
          /\ j.wpos = job[t].wpos /\ j.lost = job[t].lost /\ j.from = job[t].from
          /\ j.to = job[t].to /\ j.src = job[t].src /\ j.dst = job[t].dst
      BY ONLY <1>3, <2>3, <2>4, <2>9 DEF JobType, Late
    <2>6. job' = [job EXCEPT ![t] = j]
      <3> DEFINE next == [job[t] EXCEPT !.pc = "write", !.rpos = job[t].rpos + n,
                            !.buf = SubSeq(file[job[t].src], job[t].rpos + 1, job[t].rpos + n)]
      <3>1. job' = [job EXCEPT ![t] = next]
        BY ONLY <1>8, Zenon
      <3>2. j = next
        BY ONLY <1>4, <2>1, <2>4, <2>9, Zenon
      <3> HIDE DEF next
      <3> QED
        BY ONLY <3>1, <3>2, Zenon
    <2>7. Place(t, j)
      BY <1>3, <1>8, <2>2, <2>3, <2>5 DEF Place, Early, Late
    <2>8. ASSUME t \notin disturbed, ~j.lost, j.src # j.dst, j.to = "open"
          PROVE  Halves(s, file[j.dst], j)
      <3>1. Halves(s, file[job[t].dst], job[t])
        BY <1>1, <1>3, <1>4, <1>8, <2>5, <2>8 DEF TaskOf, SoFar, Late
      <3>2. file[job[t].dst] \in Bytes /\ s \in Bytes
        BY <1>1, <1>3, <1>5, <1>8, <2>5, <2>8 DEF TaskOf, There
      <3> QED
        BY <1>1, <1>3, <2>1, <2>2, <2>5, <3>1, <3>2, ReadHalves
    <2> QED
      BY <1>7, <1>8, <2>5, <2>6, <2>7, <2>8 DEF Late
  <1>9. CASE job[t].from = "open" /\ Copy!Left(t) <= 0 /\ Copy!Go(t, "close") /\ UNCHANGED <<fds, limit, done>>
    <2>1. PICK j : j = [job[t] EXCEPT !.pc = "close"]
      OBVIOUS
    <2>2. /\ j \in JobType /\ j.pc = "close" /\ j.rpos = job[t].rpos /\ j.buf = job[t].buf
          /\ j.wpos = job[t].wpos /\ j.lost = job[t].lost /\ j.from = job[t].from
          /\ j.to = job[t].to /\ j.src = job[t].src /\ j.dst = job[t].dst
      BY <1>3, <2>1 DEF JobType, Late
    <2>3. job' = [job EXCEPT ![t] = j]
      BY <1>9, <2>1 DEF Copy!Go
    <2>4. Place(t, j)
      BY <1>1, <1>3, <1>9, <2>2 DEF TaskOf, Place, Early, Late
    <2>5. ASSUME t \notin disturbed, ~j.lost, j.src # j.dst, j.to = "open"
          PROVE  Halves(s, file[j.dst], j)
      <3>1. Halves(s, file[job[t].dst], job[t])
        BY <1>1, <1>3, <1>4, <1>9, <2>2, <2>5 DEF TaskOf, SoFar, Late
      <3>2. job[t].rpos = Len(s)
        BY <1>3, <1>5, <1>6, <1>9, <3>1 DEF Halves
      <3> QED
        BY <1>3, <2>2, <3>1, <3>2 DEF Halves
    <2> QED
      BY <1>7, <1>9, <2>2, <2>3, <2>4, <2>5 DEF Late
  <1> QED
    BY <1>2, <1>8, <1>9 DEF Copy!Read

\* A write of the whole buffer goes on where the last one ended.
LEMMA WriteHalves ==
    ASSUME NEW s \in Bytes, NEW d \in Bytes, NEW j \in JobType, Halves(s, d, j),
           NEW e, e = Copy!Stored(d, j.wpos, SubSeq(j.buf, 1, Len(j.buf))),
           NEW k \in JobType, k.pc = "read", k.wpos = j.wpos + Len(j.buf), k.rpos = j.rpos,
           k.buf = <<>>
    PROVE  Halves(s, e, k)
  <1>1. PICK l : l = Len(j.buf)
    OBVIOUS
  <1>2. /\ j.buf \in Bytes /\ l \in Nat /\ j.wpos \in Nat /\ j.rpos \in Nat /\ Len(s) \in Nat
        /\ Len(k.buf) = 0
    BY <1>1 DEF JobType, Bytes
  <1>3. PICK b : b = SubSeq(j.buf, 1, l)
    OBVIOUS
  <1>4. b \in Bytes /\ Len(b) = l /\ \A i \in 1 .. l : b[i] = j.buf[i]
    BY <1>1, <1>2, <1>3, FirstPart
  <1>5. e = Copy!Stored(d, j.wpos, b)
    BY <1>1, <1>2, <1>3
  <1>6. /\ j.wpos + l = j.rpos /\ j.rpos <= Len(s) /\ Len(d) = j.wpos
        /\ \A i \in 1 .. j.wpos : d[i] = s[i]
        /\ \A i \in 1 .. l : j.buf[i] = s[j.wpos + i]
    BY <1>1 DEF Halves
  <1>7. /\ Len(e) = j.wpos + l
        /\ \A i \in 1 .. j.wpos : e[i] = d[i]
        /\ \A i \in 1 .. l : e[j.wpos + i] = b[i]
    <2>1. PICK w \in Nat : w = j.wpos
      BY <1>2
    <2>2. e = Copy!Stored(d, w, b) /\ Len(d) = w
      BY <1>5, <1>6, <2>1
    <2>3. /\ Len(e) = w + Len(b)
          /\ \A i \in 1 .. w : e[i] = d[i]
          /\ \A i \in 1 .. Len(b) : e[w + i] = b[i]
      <3>1. /\ Copy!Stored(d, w, b) \in Bytes
            /\ w = Len(d) =>
                  /\ Len(Copy!Stored(d, w, b)) = w + Len(b)
                  /\ \A i \in 1 .. w : Copy!Stored(d, w, b)[i] = d[i]
                  /\ \A i \in 1 .. Len(b) : Copy!Stored(d, w, b)[w + i] = b[i]
        BY ONLY d \in Bytes, w \in Nat, <1>4, StoredFile
      <3> QED
        BY ONLY <2>2, <3>1
    <2> QED
      BY ONLY <1>4, <2>1, <2>3
  <1>8. ASSUME NEW i \in 1 .. k.wpos PROVE e[i] = s[i]
    <2>1. CASE i \in 1 .. j.wpos
      BY <1>6, <1>7, <2>1
    <2>2. CASE i \notin 1 .. j.wpos
      <3>1. PICK h \in 1 .. l : i = j.wpos + h
        <4>1. i - j.wpos \in 1 .. l /\ i = j.wpos + (i - j.wpos)
          BY <1>1, <1>2, <2>2
        <4> QED
          BY <4>1
      <3>2. b[h] = j.buf[h]
        BY <1>2, <1>4, <3>1
      <3> QED
        BY <1>6, <1>7, <3>1, <3>2
    <2> QED
      BY <2>1, <2>2
  <1>9. k.wpos + Len(k.buf) = k.rpos /\ k.rpos <= Len(s) /\ Len(e) = k.wpos
    BY <1>1, <1>2, <1>6, <1>7
  <1>10. \A i \in 1 .. Len(k.buf) : k.buf[i] = s[k.wpos + i]
    BY <1>2
  <1> QED
    BY <1>8, <1>9, <1>10 DEF Halves

LEMMA WriteKeeps == ASSUME CopyOf, NEW t \in Copy!Tasks, Copy!Write(t) PROVE CopyOf'
  <1>1. PICK n \in 0 .. Len(job[t].buf) :
          /\ job[t].to = "bad" => n = 0
          /\ file' = IF n = 0 THEN file
                     ELSE [file EXCEPT ![job[t].dst] =
                             Copy!Stored(@, job[t].wpos, SubSeq(job[t].buf, 1, n))]
          /\ job' = [job EXCEPT ![t] = [job[t] EXCEPT
                       !.pc = "read", !.wpos = job[t].wpos + n, !.buf = <<>>,
                       !.lost = job[t].lost \/ n < Len(job[t].buf)]]
          /\ disturbed' = disturbed \cup (IF n = 0 THEN {} ELSE Copy!Sharing(t, job[t].dst))
    BY DEF Copy!Write
  <1>2. job[t].pc = "write" /\ UNCHANGED <<fds, limit, done>>
    BY DEF Copy!Write
  <1>3. /\ CopyTyped /\ job[t] \in JobType /\ TaskOf(t) /\ fds[t] \in Nat
        /\ done[t].errors \in Nat /\ BufLen \in Nat \ {0}
        /\ job[t].rpos \in Nat /\ job[t].wpos \in Nat /\ job[t].from = "open" /\ job[t].to # "none"
        /\ job[t].buf \in Bytes /\ Len(job[t].buf) \in Nat
        /\ job[t].dst \in Names /\ job[t].src \in Names
    BY <1>2, TaskTypes DEF CopyOf, JobType, TaskOf, Place, Late, Bytes
  <1>4. PICK b \in BOOLEAN : b = (job[t].lost \/ n < Len(job[t].buf))
    <2>1. (job[t].lost \/ n < Len(job[t].buf)) \in BOOLEAN
      BY Zenon
    <2> QED
      BY <2>1, Zenon
  <1>5. PICK w \in Nat : w = job[t].wpos + n
    BY <1>1, <1>3
  <1>6. PICK j : j = [job[t] EXCEPT !.pc = "read", !.wpos = w, !.buf = <<>>, !.lost = b]
    OBVIOUS
  <1>7. n \in Nat /\ <<>> \in Bytes /\ Len(<<>>) = 0 /\ job[t].wpos + n \in Nat
    BY <1>1, <1>3 DEF Bytes
  <1>8. /\ j \in JobType /\ j.pc = "read" /\ j.rpos = job[t].rpos /\ j.buf = <<>>
        /\ j.wpos = job[t].wpos + n /\ j.lost = b /\ j.from = job[t].from
        /\ j.to = job[t].to /\ j.src = job[t].src /\ j.dst = job[t].dst
    BY ONLY <1>3, <1>5, <1>6, <1>7 DEF JobType, Late
  <1>9. job' = [job EXCEPT ![t] = j]
    <2> DEFINE next == [job[t] EXCEPT !.pc = "read", !.wpos = job[t].wpos + n, !.buf = <<>>,
                          !.lost = job[t].lost \/ n < Len(job[t].buf)]
    <2>1. job' = [job EXCEPT ![t] = next]
      BY ONLY <1>1, Zenon
    <2>2. j = next
      BY ONLY <1>4, <1>5, <1>6, Zenon
    <2> HIDE DEF next
    <2> QED
      BY ONLY <2>1, <2>2, Zenon
  <1>10. Place(t, j)
    BY <1>3, <1>7, <1>8 DEF Place, Early, Late
  <1>11. Descriptors(t, j, fds[t], done[t].errors)
    <2>1. OpenNow(j) = OpenNow(job[t])
      BY <1>8 DEF OpenNow
    <2>2. Descriptors(t, job[t], fds[t], done[t].errors)
      BY <1>3 DEF TaskOf
    <2> QED
      BY <1>2, <1>8, <2>1, <2>2 DEF Descriptors
  <1>12. /\ fds' = [fds EXCEPT ![t] = fds[t]] /\ j.pc # "idle" /\ job[t].pc # "idle"
    BY <1>2, <1>3, <1>8 DEF CopyTyped
  <1>13. /\ job[t].to = "open" => file[job[t].dst] \in Bytes
         /\ file[job[t].src] \in Bytes
    BY <1>2, <1>3 DEF TaskOf, There
  \* All was stored when nothing is lost.
  <1>14. ~j.lost => ~job[t].lost /\ n = Len(job[t].buf)
    <2>1. ~j.lost => ~job[t].lost /\ ~(n < Len(job[t].buf))
      BY <1>4, <1>8, Zenon
    <2>2. ~(n < Len(job[t].buf)) => n = Len(job[t].buf)
      BY <1>1, <1>3
    <2> QED
      BY <2>1, <2>2, Zenon
  <1>15. CASE n = 0
    <2>1. file' = file /\ disturbed' = disturbed
      BY <1>1, <1>15
    <2>2. Tells(t, file', disturbed')
      BY <2>1, TellsNone
    <2>3. There(file', j)
      BY <1>8, <1>13, <2>1 DEF There
    <2>4. ASSUME t \notin disturbed' PROVE SoFar(file', j)
      <3> SUFFICES ASSUME ~j.lost, j.src # j.dst, j.to = "open"
                   PROVE  Halves(file[j.src], file[j.dst], j)
        BY <2>1 DEF SoFar
      <3>1. Halves(file[j.src], file[j.dst], job[t])
        BY <1>2, <1>3, <1>8, <1>14, <2>1, <2>4 DEF TaskOf, SoFar, Late
      <3>2. n = Len(job[t].buf)
        BY <1>14
      <3>3. Len(file[j.src]) \in Nat
        BY <1>8, <1>13 DEF Bytes
      <3> QED
        BY <1>3, <1>7, <1>8, <1>15, <3>1, <3>2, <3>3 DEF Halves
    <2> QED
      BY <1>2, <1>3, <1>8, <1>9, <1>10, <1>11, <1>12, <2>2, <2>3, <2>4, QuietStep
  <1>16. CASE n # 0
    <2>1. job[t].to = "open"
      BY <1>1, <1>3, <1>16 DEF JobType
    <2>2. PICK x : x = Copy!Stored(file[job[t].dst], job[t].wpos, SubSeq(job[t].buf, 1, n))
      OBVIOUS
    <2>3. /\ file' = [file EXCEPT ![job[t].dst] = x]
          /\ disturbed' = disturbed \cup Copy!Sharing(t, job[t].dst)
      BY <1>1, <1>16, <2>2
    <2>4. x \in Bytes
      <3>2. SubSeq(job[t].buf, 1, n) \in Bytes
        BY <1>1, <1>3, <1>7, FirstPart
      <3> QED
        BY <1>3, <1>13, <2>1, <2>2, <3>2, StoredFile
    <2>5. Tells(t, file', disturbed')
      BY <1>3, <2>3, <2>4, TellsOne
    <2>6. /\ file'[j.dst] = x
          /\ j.src # j.dst => file'[j.src] = file[j.src]
      BY <1>3, <1>8, <2>3 DEF CopyTyped
    <2>7. There(file', j)
      <3>1. j.src = j.dst \/ j.src # j.dst
        OBVIOUS
      <3> QED
        BY <1>8, <1>13, <2>4, <2>6, <3>1 DEF There
    <2>8. ASSUME t \notin disturbed' PROVE SoFar(file', j)
      <3> SUFFICES ASSUME ~j.lost, j.src # j.dst
                   PROVE  Halves(file'[j.src], file'[j.dst], j)
        BY DEF SoFar
      <3>1. t \notin disturbed
        BY <2>3, <2>8
      <3>2. Halves(file[j.src], file[j.dst], job[t])
        BY <1>2, <1>3, <1>8, <1>14, <2>1, <3>1 DEF TaskOf, SoFar, Late
      <3>3. n = Len(job[t].buf)
        BY <1>14
      <3>4. x = Copy!Stored(file[j.dst], job[t].wpos, SubSeq(job[t].buf, 1, Len(job[t].buf)))
        BY <1>8, <2>2, <3>3
      <3>5. Halves(file[j.src], x, j)
        BY <1>3, <1>8, <1>13, <2>1, <3>2, <3>3, <3>4, WriteHalves
      <3> QED
        BY <2>6, <3>5
    <2> QED
      BY <1>2, <1>3, <1>8, <1>9, <1>10, <1>11, <1>12, <2>5, <2>7, <2>8, QuietStep
  <1> QED
    BY <1>15, <1>16

-----------------------------------------------------------------------------
LEMMA CopyStep == CopyOf /\ [Copy!Next]_(Copy!vars) => CopyOf'
  <1> SUFFICES ASSUME CopyOf, [Copy!Next]_(Copy!vars) PROVE CopyOf'
    OBVIOUS
  <1>1. CASE UNCHANGED Copy!vars
    BY <1>1 DEF Copy!vars, CopyOf, CopyTyped, TaskOf, Copy!Running
  <1>2. ASSUME NEW t \in Copy!Tasks, Copy!Step(t) PROVE CopyOf'
    BY <1>2, NamesKeeps, StatKeeps, OpenSourceKeeps, OpenTargetKeeps, ReadKeeps, WriteKeeps,
       CloseKeeps DEF Copy!Step
  <1>3. ASSUME NEW t \in Copy!Tasks, NEW s \in Names, NEW d \in Names, Copy!Start(t, s, d)
        PROVE  CopyOf'
    BY <1>3, StartKeeps
  <1> QED
    BY <1>1, <1>2, <1>3 DEF Copy!Next

\* However many tasks copy between the same files, and however the reads are cut:
\* where no write was short and nobody else came, the target is the source.
THEOREM CopiesAgree == Copy!Spec => []FaultlessCopies
  <1>1. CopyOf => FaultlessCopies
    <2> SUFFICES ASSUME CopyOf, NEW t \in Copy!Tasks \ disturbed, job[t].pc = "close", ~job[t].lost,
                        job[t].to = "open", job[t].src # job[t].dst
                 PROVE  file[job[t].dst] = file[job[t].src]
      BY DEF FaultlessCopies, Copy!FaultlessCopies
    <2>1. job[t] \in JobType /\ TaskOf(t)
      BY TaskTypes
    <2>2. PICK s, d : s = file[job[t].src] /\ d = file[job[t].dst]
      OBVIOUS
    <2>3. job[t].from = "open"
      BY <2>1 DEF TaskOf, Place
    <2>4. s \in Seq(Nat) /\ d \in Seq(Nat)
      BY <2>1, <2>2, <2>3 DEF TaskOf, There, Bytes
    <2>5. Halves(s, d, job[t])
      BY <2>1, <2>2, <2>3 DEF TaskOf, SoFar, Late
    <2>6. Len(d) = Len(s) /\ \A i \in 1 .. Len(d) : d[i] = s[i]
      <3>1. job[t].buf = <<>> /\ Len(job[t].buf) = 0
        BY <2>5 DEF Halves
      <3>2. job[t].wpos \in Nat /\ Len(s) \in Nat
        BY <2>1, <2>4 DEF JobType
      <3> QED
        BY <2>5, <3>1, <3>2 DEF Halves
    <2>7. s = d
      BY ONLY <2>4, <2>6, SeqEqual
    <2> QED
      BY <2>2, <2>7
  <1> QED
    BY <1>1, CopyInit, CopyStep, PTL DEF Copy!Spec

\* Whichever way out of a copy is taken: the address limit is put back, and only
\* calls that failed leave a descriptor open.
THEOREM WaysOutClean == Copy!Spec => []WaysOut
  <1>1. CopyOf => WaysOut
    <2> SUFFICES ASSUME CopyOf PROVE WaysOut
      OBVIOUS
    <2>1. ASSUME NEW t \in Copy!Tasks
          PROVE  /\ Copy!Running(t) => /\ {job[t].src, job[t].dst} \subseteq Names
                                       /\ {job[t].rpos, job[t].wpos} \subseteq Nat
                                       /\ Len(job[t].buf) <= BufLen
                 /\ fds[t] \in Nat /\ limit[t] \in {"user", "kernel"}
      BY TaskTypes DEF TaskOf, Place, Copy!Running, JobType
    <2>2. Copy!TypeOK
      BY <2>1 DEF Copy!TypeOK, CopyOf, CopyTyped
    <2>3. Copy!LimitLifted
      BY TaskTypes DEF TaskOf, Copy!LimitLifted, Copy!Running
    <2>4. Copy!OnlyErrorsLeak
      <3> SUFFICES ASSUME NEW t \in Copy!Tasks, job[t].pc = "idle"
                   PROVE  fds[t] <= IF t \in Callers THEN 2 * done[t].errors ELSE 0
        BY DEF Copy!OnlyErrorsLeak, Copy!Running
      <3> QED
        BY TaskTypes DEF TaskOf, Descriptors, Lost
    <2> QED
      BY <2>2, <2>3, <2>4 DEF WaysOut, Copy!WaysOut
  <1> QED
    BY <1>1, CopyInit, CopyStep, PTL DEF Copy!Spec

=============================================================================
