----------------------------- MODULE LoadMeters -----------------------------
(***************************************************************************)
(* The CPU and the Memory page of the system monitor (sysmonitor.c): the   *)
(* timers, the two meters and the two curves.  One loop runs every         *)
(* callback, one after another: a timer that fires once in a second, the   *)
(* six of main in the order main adds them, and the expose events of the   *)
(* page on top whenever the window system sends one.  The first expose     *)
(* event of a curve adds the timer that redraws it from then on.           *)
(***************************************************************************)
EXTENDS Integers, Sequences

CONSTANTS
    Curves,     \* the curves looked at, of "cpu" and "mem"
    Points,     \* 120: how many samples a curve holds
    Cycle,      \* the kernel's counters are kept modulo this: differences count
    Advances,   \* what a second may add to them: [idle |-> i, busy |-> b]
    MemTotal,   \* MemTotal of /proc/meminfo
    NaN         \* the result of 0/0

ASSUME MetersAssumption ==
    /\ Curves \subseteq {"cpu", "mem"}
    /\ Points \in Nat \ {0, 1}
    /\ MemTotal \in Nat \ {0}
    /\ Cycle \in Nat \ {0}
    /\ \A a \in Advances : a.idle \in Nat /\ a.busy \in Nat /\ a.idle + a.busy \in 1 .. Cycle - 1
    /\ NaN \notin Int

VARIABLES
    running,    \* gtk_main has not been left
    page,       \* the page of the notebook on top
    turn,       \* which timer of main fires next
    due,        \* the curves whose timer has not fired in this second
    stat,       \* /proc/stat: the idle and the total time
    cpu,        \* the statics of get_cpu_usage: flag, old_idle, old_total
    mem,        \* mem_total and mem_free
    usage,      \* cpu_usage and mem_usage
    curve       \* each curve: its data, now_pos, start, and its timer's flag

vars == <<running, page, turn, due, stat, cpu, mem, usage, curve>>

Timers == <<"cpu_usage", "cpu_mhz", "mem_used", "mem_usage", "mem_info", "local_info">>
Percent == 0 .. 100
Samples == Percent \cup {NaN}
Index == 0 .. Points - 1

-----------------------------------------------------------------------------
(* The curve: a ring of samples, drawn from the oldest on.                 *)

\* A slip: the place is reset one sample too late.
AroundLate(p) == IF p > Points THEN 0 ELSE p

\* A slip: the last place is not used again.
AroundEarly(p) == IF p >= Points - 1 THEN 0 ELSE p

Around(p) == IF p = Points THEN 0 ELSE p

\* What the lines join, from left to right: draw_pos runs on from now_pos.
Ring(d) ==
    [i \in 1 .. Points |->
        d.data[IF d.now_pos + i - 1 < Points THEN d.now_pos + i - 1
               ELSE d.now_pos + i - 1 - Points]]
Shown(c) == Ring(curve[c])

NextStart(start) == IF start - 4 = 0 THEN 20 ELSE start - 4

\* A slip: the place moves on before the sample is stored.
DrawnLater(d, sample) ==
    LET cleared == IF d.flag THEN d.data ELSE [i \in Index |-> 0]
    IN  [d EXCEPT !.flag = TRUE, !.data = [cleared EXCEPT ![Around(d.now_pos + 1)] = sample],
                  !.now_pos = Around(d.now_pos + 1), !.start = NextStart(d.start)]

\* draw_cpu_curve, draw_mem_curve: the first call clears the data.
Drawn(d, sample) ==
    LET cleared == IF d.flag THEN d.data ELSE [i \in Index |-> 0]
    IN  [d EXCEPT !.flag = TRUE, !.data = [cleared EXCEPT ![d.now_pos] = sample],
                  !.now_pos = Around(d.now_pos + 1), !.start = NextStart(d.start)]

DrawTimer(c) ==
    /\ running /\ c \in due
    /\ curve' = [curve EXCEPT ![c] = Drawn(@, usage[c])]
    /\ due' = due \ {c}
    /\ UNCHANGED <<running, page, turn, stat, cpu, mem, usage>>

\* cpu_curve_callback, mem_curve_callback.
Expose(c) ==
    /\ running /\ page = c
    /\ curve' = [curve EXCEPT ![c] = [Drawn(@, usage[c]) EXCEPT !.timer = TRUE]]
    /\ UNCHANGED <<running, page, turn, due, stat, cpu, mem, usage>>

-----------------------------------------------------------------------------
(* The meters.                                                             *)

NextTurn ==
    /\ running
    /\ turn \in 1 .. Len(Timers)
    /\ turn' = turn + 1
    /\ UNCHANGED <<running, page, due, curve>>

\* A second has passed: the timers that are set fire once more.
NextSecond ==
    /\ running
    /\ turn > Len(Timers) /\ due = {}
    /\ turn' = 1
    /\ due' = {c \in Curves : curve[c].timer}
    /\ \E a \in Advances :
          stat' = [idle |-> (stat.idle + a.idle) % Cycle,
                   total |-> (stat.total + a.idle + a.busy) % Cycle]
    /\ UNCHANGED <<running, page, cpu, mem, usage, curve>>

\* A slip: old_idle is set by the first call only.
get_cpu_usageOldIdle ==
    /\ NextTurn /\ Timers[turn] = "cpu_usage"
    /\ cpu' = [cpu EXCEPT !.flag = TRUE, !.old_total = stat.total]
    /\ LET total_diff == (stat.total - cpu.old_total) % Cycle
           idle_diff == (stat.idle - cpu.old_idle) % Cycle
       IN  usage' = [usage EXCEPT !["cpu"] =
                       IF ~cpu.flag THEN 0
                       ELSE IF total_diff = 0 THEN NaN
                       ELSE (100 * (total_diff - idle_diff)) \div total_diff]
    /\ UNCHANGED <<stat, mem>>

get_cpu_usage ==
    /\ NextTurn /\ Timers[turn] = "cpu_usage"
    /\ cpu' = [flag |-> TRUE, old_idle |-> stat.idle, old_total |-> stat.total]
    /\ LET total_diff == (stat.total - cpu.old_total) % Cycle
           idle_diff == (stat.idle - cpu.old_idle) % Cycle
       IN  usage' = [usage EXCEPT !["cpu"] =
                       IF ~cpu.flag THEN 0
                       ELSE IF total_diff = 0 THEN NaN
                       ELSE (100 * (total_diff - idle_diff)) \div total_diff]
    /\ UNCHANGED <<stat, mem>>

\* A slip: the quotient is turned round.
get_mem_usageInverted ==
    /\ NextTurn /\ Timers[turn] = "mem_usage"
    /\ usage' = [usage EXCEPT !["mem"] = IF mem.free = 0 THEN NaN
                                         ELSE 100 - (100 * mem.total) \div mem.free]
    /\ UNCHANGED <<stat, cpu, mem>>

get_mem_usage ==
    /\ NextTurn /\ Timers[turn] = "mem_usage"
    /\ usage' = [usage EXCEPT !["mem"] = IF mem.total = 0 THEN NaN
                                         ELSE 100 - (100 * mem.free) \div mem.total]
    /\ UNCHANGED <<stat, cpu, mem>>

get_mem_info ==
    /\ NextTurn /\ Timers[turn] = "mem_info"
    /\ \E free \in 0 .. MemTotal : mem' = [total |-> MemTotal, free |-> free]
    /\ UNCHANGED <<stat, cpu, usage>>

\* get_cpu_mhz, get_mem_used, get_local_info: they only show what they read.
ShowOnly ==
    /\ NextTurn /\ Timers[turn] \in {"cpu_mhz", "mem_used", "local_info"}
    /\ UNCHANGED <<stat, cpu, mem, usage>>

-----------------------------------------------------------------------------
(* The user, and the whole.                                                *)

\* The page comes up, and with it the expose event of its curve.
SwitchPage(p) ==
    /\ running /\ page # p
    /\ page' = p
    /\ UNCHANGED <<running, turn, due, stat, cpu, mem, usage, curve>>

Quit ==
    /\ running
    /\ running' = FALSE
    /\ UNCHANGED <<page, turn, due, stat, cpu, mem, usage, curve>>

NewCurve == [data |-> [i \in Index |-> 0], now_pos |-> 0, start |-> 20,
             flag |-> FALSE, timer |-> FALSE]

Init ==
    /\ running = TRUE /\ page = "processes"
    /\ turn = 1 /\ due = {}
    /\ stat \in [idle : {0}, total : {0}]
    /\ cpu = [flag |-> FALSE, old_idle |-> 0, old_total |-> 0]
    /\ mem = [total |-> 0, free |-> 0]
    /\ usage = [c \in {"cpu", "mem"} |-> 0]
    /\ curve = [c \in Curves |-> NewCurve]

Timer ==
    \/ get_cpu_usage \/ get_mem_usage \/ get_mem_info \/ ShowOnly
    \/ NextSecond
    \/ \E c \in Curves : DrawTimer(c)

Next ==
    \/ Timer
    \/ \E c \in Curves : Expose(c)
    \/ \E p \in Curves \cup {"processes"} : SwitchPage(p)
    \/ Quit

\* The loop serves every timer that is due, and every second ends.
Spec == Init /\ [][Next]_vars /\ WF_vars(Timer)

-----------------------------------------------------------------------------
TypeOK ==
    /\ running \in BOOLEAN /\ page \in Curves \cup {"processes"}
    /\ turn \in 1 .. Len(Timers) + 1 /\ due \subseteq Curves
    /\ stat \in [idle : 0 .. Cycle - 1, total : 0 .. Cycle - 1]
    /\ cpu \in [flag : BOOLEAN, old_idle : 0 .. Cycle - 1, old_total : 0 .. Cycle - 1]
    /\ mem \in [total : {0, MemTotal}, free : 0 .. MemTotal]
    /\ usage \in [{"cpu", "mem"} -> Samples]
    /\ curve \in [Curves -> [data : [Index -> Samples], now_pos : Index,
                             start : {4, 8, 12, 16, 20}, flag : BOOLEAN, timer : BOOLEAN]]

\* Whatever the counters do, the CPU curve holds shares of a second, from 0 to
\* 100: the two differences are of the same two readings.
CpuSampled ==
    "cpu" \in Curves => \A i \in Index : curve["cpu"].data[i] \in Percent

\* The meters, the rings and what is in them.
MetersInv == TypeOK /\ CpuSampled

\* However exposes and timers fall between each other, what each curve shows is
\* a window that slides over the samples.
CpuWindow == INSTANCE LoadWindow WITH window <- Shown("cpu")
MemWindow == INSTANCE LoadWindow WITH window <- Shown("mem")
CpuSlides == CpuWindow!Spec
MemSlides == MemWindow!Spec
CurvesSlide == CpuSlides /\ MemSlides

\* The sample of the first second, 0/0, leaves the Memory curve for good.
MemSettles ==
    <>~running \/ <>[](\A i \in Index : curve["mem"].data[i] # NaN)
=============================================================================
