----------------------------- MODULE CharDriver -----------------------------
(***************************************************************************)
(* The calls of EXP3-Device_Driver/myw_dev/myw_dev.c on the buffer mem.    *)
(* Threads of any number of processes call at once and nothing is locked:  *)
(* memset and the copies go byte by byte, and so do the calls between each *)
(* other.  The kernel hands a call a copy of the file's position and       *)
(* stores it back when the call succeeds; threads may share an open file.  *)
(* A step outside mem sets wild, and nothing is claimed afterwards.        *)
(***************************************************************************)
EXTENDS Integers, Sequences

CONSTANTS
    MemSize,    \* sizeof(mem)
    SizeMod,    \* 2 to the width of size_t
    Greeting,   \* the text mem starts with
    NUL,
    Files,      \* open files
    Callers,    \* threads
    Data,       \* what a thread may write: sequences of bytes
    Counts,     \* how much a read may ask for
    Offsets,    \* what llseek is called with
    MaxSeek     \* the furthest position a seek of the users goes to

ASSUME SizeAssumption ==
    /\ MemSize \in Nat \ {0} /\ SizeMod \in Nat /\ MemSize < SizeMod
    /\ Greeting \in Seq(STRING) /\ Len(Greeting) <= MemSize
    /\ Counts \subseteq Nat /\ \A k \in Counts : k < SizeMod
    /\ Offsets \subseteq Int
    /\ MaxSeek \in Nat /\ MaxSeek < SizeMod
    /\ Data \subseteq Seq(STRING) /\ \A d \in Data : Len(d) < SizeMod
    /\ NUL \in STRING

VARIABLES
    mem,   \* the buffer
    fpos,  \* filep->f_pos of each open file
    call,  \* what each thread is in
    mixed, \* the threads whose write ran beside another's (history)
    wild

vars == <<mem, fpos, call, mixed, wild>>

Index == 0 .. MemSize - 1
Idle == [op |-> "none"]

Call == {Idle} \cup
    [op : {"llseek", "read", "memset", "write"}, file : Files, pos : Nat,
     n : Nat,          \* how many bytes this copy or memset takes
     at : Nat,         \* how many it has done
     data : Seq(STRING)]

\* A slip: the difference is not taken against the end of mem.
AvailWhole(pos) == MemSize
Avail(pos) == (MemSize - pos) % SizeMod

Least(a, b) == IF a <= b THEN a ELSE b

\* A call that the kernel starts on a file.
Begin(c, f, op, pos, n, data) ==
    /\ call[c] = Idle
    /\ call' = [call EXCEPT ![c] = [op |-> op, file |-> f, pos |-> pos, n |-> n,
                                    at |-> 0, data |-> data]]

mywdriver_read(c, f, count) ==
    /\ Begin(c, f, "read", fpos[f], Least(count, Avail(fpos[f])), <<>>)
    /\ UNCHANGED <<mem, fpos, mixed, wild>>

\* A slip: no more is cleared than will be copied.
mywdriver_writeClearsOwn(c, f, data) ==
    LET others == {d \in Callers \ {c} : call[d].op \in {"memset", "write"}}
    IN  /\ Begin(c, f, "memset", fpos[f], Least(Len(data), Avail(fpos[f])), data)
        /\ mixed' = IF others = {} THEN mixed \ {c} ELSE mixed \cup others \cup {c}
        /\ UNCHANGED <<mem, fpos, wild>>

\* First the buffer is cleared from the position on.
mywdriver_write(c, f, data) ==
    LET others == {d \in Callers \ {c} : call[d].op \in {"memset", "write"}}
    IN  /\ Begin(c, f, "memset", fpos[f], Avail(fpos[f]), data)
        /\ mixed' = IF others = {} THEN mixed \ {c} ELSE mixed \cup others \cup {c}
        /\ UNCHANGED <<mem, fpos, wild>>

NewPos(f, off, whence) ==
    CASE whence = 0 -> off
      [] whence = 1 -> fpos[f] + off
      [] whence = 2 -> MemSize + off

\* A slip: a position below 0 is not refused.
mywdriver_llseekBelow(c, f, off, whence) ==
    /\ NewPos(f, off, whence) <= MaxSeek
    /\ Begin(c, f, "llseek", NewPos(f, off, whence), 0, <<>>)
    /\ UNCHANGED <<mem, fpos, mixed, wild>>

\* Refused below 0; no limit above but what the users ask for.
mywdriver_llseek(c, f, off, whence) ==
    LET newpos == NewPos(f, off, whence)
    IN  /\ newpos >= 0
        /\ newpos <= MaxSeek
        /\ Begin(c, f, "llseek", newpos, 0, <<>>)
        /\ UNCHANGED <<mem, fpos, mixed, wild>>

\* One byte of a call's loop, inside mem or not.
Byte(c, b) ==
    LET i == call[c].pos + call[c].at
    IN  /\ call[c].at < call[c].n
        /\ call' = [call EXCEPT ![c].at = @ + 1]
        /\ wild' = (i \notin Index)
        /\ mem' = IF i \in Index THEN [mem EXCEPT ![i] = b] ELSE mem
        /\ UNCHANGED <<fpos, mixed>>

\* memset.
Clear(c) == call[c].op = "memset" /\ Byte(c, NUL)

\* Cleared: as much of the data as fits is copied.
CopyFrom(c) ==
    /\ call[c].op = "memset" /\ call[c].at = call[c].n
    /\ call' = [call EXCEPT ![c] = [@ EXCEPT !.op = "write", !.at = 0,
                                             !.n = Least(Len(call[c].data), call[c].n)]]
    /\ UNCHANGED <<mem, fpos, mixed, wild>>

copy_from_user(c) == call[c].op = "write" /\ Byte(c, call[c].data[call[c].at + 1])
copy_to_user(c) == call[c].op = "read" /\ Byte(c, mem[call[c].pos + call[c].at])

\* EFAULT, the position stays.  External: copy_from_user clears what it could
\* not copy.
Fault(c) ==
    /\ call[c].op \in {"read", "write"} /\ call[c].at < call[c].n
    /\ call' = [call EXCEPT ![c] = Idle]
    /\ LET from == call[c].pos + call[c].at
           to == call[c].pos + call[c].n
       IN  mem' = IF call[c].op = "write"
                  THEN [i \in Index |-> IF i \in from .. to - 1 THEN NUL ELSE mem[i]]
                  ELSE mem
    /\ UNCHANGED <<fpos, mixed, wild>>

\* A slip: a read does not move on.
ReturnInPlace(c) ==
    /\ call[c].op \in {"llseek", "read", "write"} /\ call[c].at = call[c].n
    /\ call' = [call EXCEPT ![c] = Idle]
    /\ fpos' = [fpos EXCEPT ![call[c].file] =
                   IF call[c].op = "read" THEN @ ELSE call[c].pos + call[c].n]
    /\ UNCHANGED <<mem, mixed, wild>>

\* A slip: a write does not.
ReturnWriteInPlace(c) ==
    /\ call[c].op \in {"llseek", "read", "write"} /\ call[c].at = call[c].n
    /\ call' = [call EXCEPT ![c] = Idle]
    /\ fpos' = [fpos EXCEPT ![call[c].file] =
                   IF call[c].op = "write" THEN @ ELSE call[c].pos + call[c].n]
    /\ UNCHANGED <<mem, mixed, wild>>

\* The kernel stores the position the call leaves.
Return(c) ==
    /\ call[c].op \in {"llseek", "read", "write"} /\ call[c].at = call[c].n
    /\ call' = [call EXCEPT ![c] = Idle]
    /\ fpos' = [fpos EXCEPT ![call[c].file] = call[c].pos + call[c].n]
    /\ UNCHANGED <<mem, mixed, wild>>

\* release and open: the file is opened anew, when no call is on it.
mywdriver_open(f) ==
    /\ \A c \in Callers : call[c] # Idle => call[c].file # f
    /\ fpos' = [fpos EXCEPT ![f] = 0]
    /\ UNCHANGED <<mem, call, mixed, wild>>

Step(c) == Clear(c) \/ CopyFrom(c) \/ copy_from_user(c) \/ copy_to_user(c) \/ Return(c)

Enter(c) ==
    \E f \in Files :
        \/ \E count \in Counts : mywdriver_read(c, f, count)
        \/ \E data \in Data : mywdriver_write(c, f, data)
        \/ \E off \in Offsets, whence \in 0 .. 2 : mywdriver_llseek(c, f, off, whence)

Init ==
    /\ mem = [i \in Index |-> IF i < Len(Greeting) THEN Greeting[i + 1] ELSE NUL]
    /\ fpos = [f \in Files |-> 0]
    /\ call = [c \in Callers |-> Idle]
    /\ mixed = {}
    /\ wild = FALSE

Next ==
    /\ ~wild
    /\ \/ \E c \in Callers : Enter(c) \/ Step(c) \/ Fault(c)
       \/ \E f \in Files : mywdriver_open(f)

Spec == Init /\ [][Next]_vars

-----------------------------------------------------------------------------
TypeOK ==
    /\ mem \in [Index -> STRING]
    /\ fpos \in [Files -> Nat]
    /\ call \in [Callers -> Call]
    /\ mixed \subseteq Callers
    /\ wild \in BOOLEAN

\* Lengths are unsigned differences and positions are stored back by whoever
\* returns last: as long as nobody seeks past the end, no call of any thread
\* leaves the buffer, whatever it raced with.
StaysInside == MaxSeek <= MemSize => ~wild

\* A write that ran beside no other leaves its data at its position and
\* nothing behind it, however many writes before it were given up half way,
\* and whoever moved the file meanwhile.
LoneWriteStands ==
    \A c \in Callers \ mixed :
        call[c].op = "write" /\ call[c].at = call[c].n =>
            \A i \in Index : i >= call[c].pos =>
                mem[i] = IF i < call[c].pos + call[c].n
                         THEN call[c].data[i - call[c].pos + 1] ELSE NUL
=============================================================================
