------------------------------- MODULE HostName ------------------------------
(***************************************************************************)
(* The names of the machine (kernel sys.c): sethostname stores one,        *)
(* gethostname, uname and olduname read it, under uts_sem, byte by byte.   *)
(* setdomainname is the same code on another name.  A copy from or to the  *)
(* caller's memory may fail, at any byte.                                  *)
(***************************************************************************)
EXTENDS Integers, FiniteSets

CONSTANTS
    Tasks,
    Admin,      \* those with CAP_SYS_ADMIN
    NEW_UTS_LEN,
    OLD_UTS_LEN,
    Names,      \* the names given: the bytes of the caller's memory
    Lens,       \* the lengths given
    NUL,
    Nobody

\* What the constants must be.
HostNameAssumption ==
    /\ Admin \subseteq Tasks /\ Nobody \notin Tasks
    /\ OLD_UTS_LEN \in Nat /\ NEW_UTS_LEN \in Nat /\ OLD_UTS_LEN <= NEW_UTS_LEN
    /\ \A n \in Names : DOMAIN n = 1 .. NEW_UTS_LEN + 1
    /\ Lens \subseteq Int

VARIABLES
    nodename,
    uts_sem,    \* who writes, and who reads
    call        \* the call each task is in

vars == <<nodename, uts_sem, call>>

Field == 1 .. NEW_UTS_LEN + 1
Blank == [i \in Field |-> NUL]
\* was: the name when the lock was taken; the code never reads it.
Idle == [pc |-> "idle", op |-> "get", name |-> Blank, len |-> 0, size |-> 0, i |-> 1, out |-> Blank, was |-> Blank]
At(t, pc) == call[t].pc = pc
Free == uts_sem = [writer |-> Nobody, readers |-> {}]
strlen(n) == CHOOSE k \in 0 .. NEW_UTS_LEN : n[k + 1] = NUL /\ \A j \in 1 .. k : n[j] # NUL
Least(a, b) == IF a < b THEN a ELSE b

-----------------------------------------------------------------------------
(* sethostname.                                                            *)

\* A slip: the length is compared with that of the array, which has room for the end.
LenFitsArray(len) == 0 <= len /\ len <= NEW_UTS_LEN + 1

LenFits(len) == 0 <= len /\ len <= NEW_UTS_LEN

sethostname(t) ==
    /\ At(t, "idle") /\ t \in Admin
    /\ \E n \in Names, len \in Lens :
          /\ LenFits(len)
          /\ call' = [call EXCEPT ![t] = [Idle EXCEPT !.pc = "down", !.op = "set", !.name = n, !.len = len]]
    /\ UNCHANGED <<nodename, uts_sem>>

DownWrite(t) ==
    /\ At(t, "down") /\ call[t].op = "set" /\ Free
    /\ uts_sem' = [uts_sem EXCEPT !.writer = t]
    /\ call' = [call EXCEPT ![t].pc = "write", ![t].was = nodename]
    /\ UNCHANGED nodename

\* A slip: the bytes come right from the caller's memory, until one fails.
FaultInPlace(t) ==
    /\ At(t, "write") /\ call[t].len > 0
    /\ call' = [call EXCEPT ![t].pc = "fault"]
    /\ UNCHANGED <<nodename, uts_sem>>

\* copy_from_user fails before a byte of nodename is touched.
Fault(t) ==
    /\ At(t, "write") /\ call[t].i = 1 /\ call[t].len > 0
    /\ call' = [call EXCEPT ![t].pc = "fault"]
    /\ UNCHANGED <<nodename, uts_sem>>

\* A slip: one NUL behind the name is taken to be enough.
StoredOne(t) == call[t].i > Least(call[t].len + 1, NEW_UTS_LEN + 1)

\* memcpy of tmp and memset of all that is behind it.
Stored(t) == call[t].i > NEW_UTS_LEN + 1

StoreByte(t) ==
    /\ At(t, "write") /\ ~Stored(t)
    /\ LET i == call[t].i
       IN  nodename' = [nodename EXCEPT ![i] = IF i <= call[t].len THEN call[t].name[i] ELSE NUL]
    /\ call' = [call EXCEPT ![t].i = @ + 1]
    /\ UNCHANGED uts_sem

\* A slip: a call that failed returns at once.
UpWriteStored(t) ==
    /\ \/ At(t, "write") /\ Stored(t) /\ uts_sem' = [uts_sem EXCEPT !.writer = Nobody]
       \/ At(t, "fault") /\ uts_sem' = uts_sem
    /\ call' = [call EXCEPT ![t] = Idle]
    /\ UNCHANGED nodename

UpWrite(t) ==
    /\ (At(t, "write") /\ Stored(t)) \/ At(t, "fault")
    /\ uts_sem' = [uts_sem EXCEPT !.writer = Nobody]
    /\ call' = [call EXCEPT ![t] = Idle]
    /\ UNCHANGED nodename

-----------------------------------------------------------------------------
(* gethostname, uname and olduname.                                        *)

Read(t, op, len) ==
    /\ At(t, "idle")
    /\ call' = [call EXCEPT ![t] = [Idle EXCEPT !.pc = "down", !.op = op, !.size = len]]
    /\ UNCHANGED <<nodename, uts_sem>>

gethostname(t) == \E len \in Lens : len >= 0 /\ Read(t, "get", len)
newuname(t) == Read(t, "uname", NEW_UTS_LEN + 1)
olduname(t) == Read(t, "old", OLD_UTS_LEN)

\* A slip: a name that the buffer holds but for its end is given without it.
LengthExact(op, len) == IF op = "get" THEN Least(strlen(nodename), len) ELSE len

\* gethostname gives the name with its end, or as much as the buffer holds.
Length(op, len) == IF op = "get" THEN Least(1 + strlen(nodename), len) ELSE len

DownRead(t) ==
    /\ At(t, "down") /\ call[t].op # "set" /\ uts_sem.writer = Nobody
    /\ uts_sem' = [uts_sem EXCEPT !.readers = @ \cup {t}]
    /\ call' = [call EXCEPT ![t].pc = "read", ![t].was = nodename,
                            ![t].len = Length(call[t].op, call[t].size)]
    /\ UNCHANGED nodename

ReadByte(t) ==
    /\ At(t, "read") /\ call[t].i <= call[t].len
    /\ call' = [call EXCEPT ![t].i = @ + 1, ![t].out[call[t].i] = nodename[call[t].i]]
    /\ UNCHANGED <<nodename, uts_sem>>

\* All was copied, and olduname has put a NUL behind it; or a byte failed.
UpRead(t) ==
    /\ At(t, "read")
    /\ uts_sem' = [uts_sem EXCEPT !.readers = @ \ {t}]
    /\ call' = [call EXCEPT ![t].pc = IF call[t].i > call[t].len THEN "done" ELSE "failed"]
    /\ UNCHANGED nodename

Return(t) ==
    /\ At(t, "done") \/ At(t, "failed")
    /\ call' = [call EXCEPT ![t] = Idle]
    /\ UNCHANGED <<nodename, uts_sem>>

Init ==
    /\ nodename = Blank /\ uts_sem = [writer |-> Nobody, readers |-> {}]
    /\ call = [t \in Tasks |-> Idle]

Step(t) ==
    \/ DownWrite(t) \/ Fault(t) \/ StoreByte(t) \/ UpWrite(t)
    \/ DownRead(t) \/ ReadByte(t) \/ UpRead(t) \/ Return(t)

Next == \E t \in Tasks :
    Step(t) \/ sethostname(t) \/ gethostname(t) \/ newuname(t) \/ olduname(t)

\* A call goes on, and uts_sem, which queues its readers and writers, comes to each.
Spec ==
    /\ Init /\ [][Next]_vars
    /\ \A t \in Tasks : WF_vars(Step(t)) /\ SF_vars(DownWrite(t)) /\ SF_vars(DownRead(t))

-----------------------------------------------------------------------------
\* The name always ends within its array, also while it is being written, which
\* strlen and everybody who prints it rely on.
TypeOK ==
    /\ DOMAIN nodename = Field /\ nodename[NEW_UTS_LEN + 1] = NUL
    /\ uts_sem.writer \in Tasks \cup {Nobody} /\ uts_sem.readers \subseteq Tasks
    /\ \A t \in Tasks : call[t].i \in 1 .. NEW_UTS_LEN + 2

\* The names that calls gave, cut at their length, and none.
Whole == {Blank} \cup {[i \in Field |-> IF i <= len THEN n[i] ELSE NUL] :
                          n \in Names, len \in {l \in Lens : LenFits(l)}}

\* What a reader gets is one name that a call gave as a whole, as far as its
\* buffer goes: no mixture of two, and nothing left from a longer one before.
ReadsOneName ==
    \A t \in Tasks : At(t, "done") =>
        \E n \in Whole : \A i \in 1 .. call[t].len : call[t].out[i] = n[i]

\* gethostname gives a buffer that has room for it the end of the name as well.
GetsItsEnd ==
    \A t \in Tasks : At(t, "done") /\ call[t].op = "get" /\ call[t].size > strlen(call[t].was) =>
        \E i \in 1 .. call[t].len : call[t].out[i] = NUL

\* A call that fails leaves the name that was there.
FaultKeepsName == \A t \in Tasks : At(t, "fault") => nodename = call[t].was

\* What uts_sem is for.
NameInv == TypeOK /\ ReadsOneName /\ GetsItsEnd /\ FaultKeepsName

\* Everybody who calls comes back, faults or not.
CallsEnd == \A t \in Tasks : ~At(t, "idle") ~> At(t, "idle")
=============================================================================
