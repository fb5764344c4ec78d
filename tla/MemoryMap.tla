------------------------------ MODULE MemoryMap ------------------------------
(***************************************************************************)
(* prctl(PR_SET_MM) of the threads of one process (kernel sys.c): the      *)
(* fields that say where code, data, heap and arguments are, the auxiliary *)
(* vector, and the file the process is said to run.  The fields change     *)
(* under mmap_sem; the file is exchanged, and the vector written, without. *)
(* RLIMIT_DATA is read without the lock under which do_prlimit (Limits)    *)
(* sets it.  open, close, mmap and munmap are from the rest of the kernel. *)
(***************************************************************************)
EXTENDS Integers, FiniteSets

CONSTANTS
    Threads,
    Resource,   \* those with CAP_SYS_RESOURCE
    Admin,      \* those with CAP_SYS_ADMIN
    Files, NoFile,
    MinAddr, TaskSize,
    Infinity,   \* RLIM_INFINITY: no limit
    FirstMap,   \* the map after exec
    Requests,   \* the prctl_mm_map given: [map |-> .., auxv |-> .., exe |-> ..]
    Options,    \* the fields that PR_SET_MM_... name
    Vectors,    \* the auxiliary vectors given
    AuxWords,   \* AT_VECTOR_SIZE, in pairs: the last one is AuxWords
    Nobody

Fields == {"start_code", "end_code", "start_data", "end_data", "start_brk", "brk",
           "start_stack", "arg_start", "arg_end", "env_start", "env_end"}
Map == [Fields -> 0 .. TaskSize]
NULL == 0           \* AT_NULL
NoVector == << >>
Pairs == 1 .. AuxWords

\* validate_prctl_map: the fields within the address space, and in order.
Ordered(m) ==
    /\ \A f \in Fields : m[f] \in MinAddr .. TaskSize - 1
    /\ m["start_code"] < m["end_code"] /\ m["start_data"] < m["end_data"]
    /\ m["start_brk"] <= m["brk"]
    /\ m["arg_start"] <= m["arg_end"] /\ m["env_start"] <= m["env_end"]
    /\ m["start_brk"] > m["end_data"] /\ m["brk"] > m["end_data"]

\* check_data_rlimit: heap and data together, unless there is no limit.
DataSize(m) == (m["brk"] - m["start_brk"]) + (m["end_data"] - m["start_data"])
WithinLimit(m, most) == most >= Infinity \/ DataSize(m) <= most

\* What the constants must be.
MapAssumption ==
    /\ Resource \subseteq Threads /\ Admin \subseteq Threads
    /\ NoFile \notin Files /\ Nobody \notin Threads /\ IsFiniteSet(Threads)
    /\ MinAddr \in Nat /\ TaskSize \in Nat /\ Infinity \in Nat
    /\ AuxWords \in Nat \ {0} /\ Options \subseteq Fields
    /\ FirstMap \in Map /\ Ordered(FirstMap)
    /\ \A r \in Requests : r.map \in Map /\ r.exe \in Files \cup {NoFile}
                           /\ r.auxv \in Vectors \cup {NoVector}
    /\ Vectors \subseteq [Pairs -> Nat]

VARIABLES
    map,      \* the fields of mm
    auxv,     \* mm->saved_auxv
    exe,      \* mm->exe_file
    mapped,   \* the files that some vma of mm maps
    fds,      \* the files open in the process
    refs,     \* f_count of each file
    sem,      \* who holds mmap_sem for writing
    call,     \* the prctl each thread is in
    limit,    \* RLIMIT_DATA of the process, the soft limit
    peak      \* the highest it has been: history, the code never reads it

limits == <<limit, peak>>
vars == <<map, auxv, exe, mapped, fds, refs, sem, call, limits>>

Idle == [pc |-> "idle", map |-> FirstMap, sets |-> FALSE, vec |-> NoVector, next |-> 1,
         len |-> 0, new |-> NoFile, old |-> NoFile]
At(t, pc) == call[t].pc = pc
Return(t) == call' = [call EXCEPT ![t] = Idle]

\* get_file and fput.
Taken(r, f) == IF f = NoFile THEN r ELSE [r EXCEPT ![f] = @ + 1]
Put(r, f) == IF f = NoFile THEN r ELSE [r EXCEPT ![f] = @ - 1]

-----------------------------------------------------------------------------
(* The vector.                                                             *)

\* A slip: the end is put after the last pair that was given.
EndedAfter(v, len) == IF len < AuxWords THEN [v EXCEPT ![len + 1] = NULL] ELSE v

\* "Last entry must be AT_NULL".
Ended(v, len) == [v EXCEPT ![AuxWords] = NULL]

\* PR_SET_MM_AUXV: the first len pairs of a vector; the rest of it stays.
SetAuxv(t) ==
    /\ At(t, "idle") /\ t \in Resource
    /\ \E v \in Vectors, len \in 0 .. AuxWords :
          call' = [call EXCEPT ![t] = [Idle EXCEPT !.pc = "copy", !.vec = Ended(v, len), !.len = len]]
    /\ UNCHANGED <<map, auxv, exe, mapped, fds, refs, sem, limits>>

\* memcpy, a pair at a time; task_lock(current) keeps no other thread out.
CopyPair(t) ==
    /\ At(t, "copy") /\ call[t].next <= call[t].len
    /\ auxv' = [auxv EXCEPT ![call[t].next] = call[t].vec[call[t].next]]
    /\ call' = [call EXCEPT ![t].next = @ + 1]
    /\ UNCHANGED <<map, exe, mapped, fds, refs, sem, limits>>

\* A slip: mmap_sem is not let go of after the copy.
CopiedLocked(t) ==
    /\ At(t, "copy") /\ call[t].next > call[t].len
    /\ Return(t)
    /\ UNCHANGED <<map, auxv, exe, mapped, fds, refs, sem, limits>>

Copied(t) ==
    /\ At(t, "copy") /\ call[t].next > call[t].len
    /\ sem' = IF sem = t THEN Nobody ELSE sem
    /\ Return(t)
    /\ UNCHANGED <<map, auxv, exe, mapped, fds, refs, limits>>

-----------------------------------------------------------------------------
(* The executable.                                                         *)

\* PR_SET_MM_EXE_FILE of a descriptor that is open.
SetExe(t) ==
    /\ At(t, "idle") /\ t \in Resource
    /\ \E f \in fds : /\ call' = [call EXCEPT ![t] = [Idle EXCEPT !.pc = "check", !.new = f]]
                      /\ refs' = Taken(refs, f)
    /\ UNCHANGED <<map, auxv, exe, mapped, fds, sem, limits>>

\* A slip: the descriptor is given back on the way to exit, and there again.
NotExecutableTwice(t) ==
    /\ At(t, "check") /\ Return(t)
    /\ refs' = Put(Put(refs, call[t].new), call[t].new)
    /\ UNCHANGED <<map, auxv, exe, mapped, fds, sem, limits>>

\* It is no regular file, or not to be executed.
NotExecutable(t) ==
    /\ At(t, "check") /\ Return(t)
    /\ refs' = Put(refs, call[t].new)
    /\ UNCHANGED <<map, auxv, exe, mapped, fds, sem, limits>>

\* get_mm_exe_file.
GetOld(t) ==
    /\ At(t, "check")
    /\ call' = [call EXCEPT ![t].pc = IF exe = NoFile THEN "exchange" ELSE "scan",
                            ![t].old = exe]
    /\ refs' = Taken(refs, exe)
    /\ UNCHANGED <<map, auxv, exe, mapped, fds, sem, limits>>

\* A slip: the old file is given back only when the scan finds it mapped.
ScanKeepsOld(t) ==
    /\ At(t, "scan") /\ sem = Nobody
    /\ IF call[t].old \in mapped
       THEN Return(t) /\ refs' = Put(Put(refs, call[t].old), call[t].new)
       ELSE /\ call' = [call EXCEPT ![t].pc = "exchange", ![t].old = NoFile]
            /\ refs' = refs
    /\ UNCHANGED <<map, auxv, exe, mapped, fds, sem, limits>>

\* The loop over the vmas, under mmap_sem for reading.
Scan(t) ==
    /\ At(t, "scan") /\ sem = Nobody
    /\ IF call[t].old \in mapped
       THEN Return(t) /\ refs' = Put(Put(refs, call[t].old), call[t].new)
       ELSE /\ call' = [call EXCEPT ![t].pc = "exchange", ![t].old = NoFile]
            /\ refs' = Put(refs, call[t].old)
    /\ UNCHANGED <<map, auxv, exe, mapped, fds, sem, limits>>

\* "set the new file, lockless": get_file and xchg, then fput of what was there
\* and fdput.
Exchange(t) ==
    /\ At(t, "exchange")
    /\ exe' = call[t].new
    /\ refs' = Put(Put(Taken(refs, call[t].new), exe), call[t].new)
    /\ IF call[t].sets
       THEN call' = [call EXCEPT ![t].pc = "lock", ![t].new = NoFile]
       ELSE Return(t)
    /\ UNCHANGED <<map, auxv, mapped, fds, sem, limits>>

-----------------------------------------------------------------------------
(* The fields.                                                             *)

\* A slip: the limit is not asked for.
SetMapUnlimited(t) ==
    /\ At(t, "idle")
    /\ \E r \in Requests :
          /\ Ordered(r.map)
          /\ r.exe = NoFile /\ r.auxv = NoVector
          /\ call' = [call EXCEPT ![t] = [Idle EXCEPT !.pc = "lock", !.map = r.map, !.sets = TRUE]]
    /\ UNCHANGED <<map, auxv, exe, mapped, fds, refs, sem, limits>>

\* PR_SET_MM_MAP: all fields at once, with a vector and a file or without.
SetMap(t) ==
    /\ At(t, "idle")
    /\ \E r \in Requests :
          /\ Ordered(r.map) /\ WithinLimit(r.map, limit)
          /\ r.exe # NoFile => t \in Admin /\ r.exe \in fds
          /\ call' = [call EXCEPT ![t] =
                [Idle EXCEPT !.pc = IF r.exe = NoFile THEN "lock" ELSE "check",
                             !.map = r.map, !.sets = TRUE, !.new = r.exe,
                             !.vec = IF r.auxv = NoVector THEN NoVector ELSE Ended(r.auxv, AuxWords),
                             !.len = IF r.auxv = NoVector THEN 0 ELSE AuxWords]]
          /\ refs' = Taken(refs, r.exe)
    /\ UNCHANGED <<map, auxv, exe, mapped, fds, sem, limits>>

\* down_write, and the fields; the vector is copied, and the lock let go of,
\* by CopyPair and Copied.
WriteMap(t) ==
    /\ At(t, "lock") /\ sem = Nobody
    /\ sem' = t
    /\ map' = call[t].map
    /\ call' = [call EXCEPT ![t].pc = "copy"]
    /\ UNCHANGED <<auxv, exe, mapped, fds, refs, limits>>

\* A slip: only the address that was given is looked at.
SetFieldAlone(t) ==
    /\ At(t, "idle") /\ t \in Resource /\ sem = Nobody
    /\ \E o \in Options, a \in MinAddr .. TaskSize - 1 :
          call' = [call EXCEPT ![t] = [Idle EXCEPT !.pc = "store", !.map = [map EXCEPT ![o] = a]]]
    /\ sem' = t
    /\ UNCHANGED <<map, auxv, exe, mapped, fds, refs, limits>>

\* PR_SET_MM_START_CODE and the others: under mmap_sem one field is put among the
\* others of the time and all are checked (that a stack or an argument must lie
\* in a mapping only makes the call fail more often).
SetField(t) ==
    /\ At(t, "idle") /\ t \in Resource /\ sem = Nobody
    /\ \E o \in Options, a \in MinAddr .. TaskSize - 1 :
          LET m == [map EXCEPT ![o] = a]
          IN  /\ Ordered(m) /\ WithinLimit(m, limit)
              /\ call' = [call EXCEPT ![t] = [Idle EXCEPT !.pc = "store", !.map = m]]
    /\ sem' = t
    /\ UNCHANGED <<map, auxv, exe, mapped, fds, refs, limits>>

\* mm->start_code = prctl_map.start_code and so on, and up_write.
StoreFields(t) ==
    /\ At(t, "store")
    /\ map' = call[t].map /\ sem' = Nobody
    /\ Return(t)
    /\ UNCHANGED <<auxv, exe, mapped, fds, refs, limits>>

-----------------------------------------------------------------------------
(* The rest of the kernel.                                                 *)

Open(f) ==
    /\ f \notin fds /\ fds' = fds \cup {f} /\ refs' = Taken(refs, f)
    /\ UNCHANGED <<map, auxv, exe, mapped, sem, call, limits>>
Close(f) ==
    /\ f \in fds /\ fds' = fds \ {f} /\ refs' = Put(refs, f)
    /\ UNCHANGED <<map, auxv, exe, mapped, sem, call, limits>>
Mmap(f) ==
    /\ sem = Nobody /\ f \in fds \ mapped
    /\ mapped' = mapped \cup {f} /\ refs' = Taken(refs, f)
    /\ UNCHANGED <<map, auxv, exe, fds, sem, call, limits>>
Munmap(f) ==
    /\ sem = Nobody /\ f \in mapped
    /\ mapped' = mapped \ {f} /\ refs' = Put(refs, f)
    /\ UNCHANGED <<map, auxv, exe, fds, sem, call, limits>>

\* do_prlimit stores another soft limit, at any time.
SetLimit ==
    /\ limit' \in Nat /\ peak' = IF limit' > peak THEN limit' ELSE peak
    /\ UNCHANGED <<map, auxv, exe, mapped, fds, refs, sem, call>>

\* After exec: the file is mapped, and nothing else is open.
Init ==
    /\ map = FirstMap /\ auxv = [i \in Pairs |-> NULL]
    /\ exe \in Files /\ mapped = {exe} /\ fds = {}
    /\ refs = [f \in Files |-> IF f = exe THEN 2 ELSE 0]
    /\ sem = Nobody /\ call = [t \in Threads |-> Idle]
    /\ limit \in Nat /\ peak = limit

Step(t) ==
    \/ CopyPair(t) \/ Copied(t) \/ NotExecutable(t) \/ GetOld(t) \/ Scan(t)
    \/ Exchange(t) \/ WriteMap(t) \/ StoreFields(t)

Calls ==
    \/ \E t \in Threads : Step(t) \/ SetAuxv(t) \/ SetExe(t) \/ SetMap(t) \/ SetField(t)
    \/ \E f \in Files : Open(f) \/ Close(f) \/ Mmap(f) \/ Munmap(f)

Next == Calls \/ SetLimit

\* A call goes on, and mmap_sem is given in turn to those who wait for it.
Spec ==
    /\ Init /\ [][Next]_vars
    /\ \A t \in Threads : WF_vars(Step(t)) /\ SF_vars(WriteMap(t)) /\ SF_vars(Scan(t))

-----------------------------------------------------------------------------
TypeOK ==
    /\ map \in Map /\ auxv \in [Pairs -> Nat]
    /\ exe \in Files \cup {NoFile} /\ mapped \subseteq Files /\ fds \subseteq Files
    /\ refs \in [Files -> Nat] /\ sem \in Threads \cup {Nobody}
    /\ \A t \in Threads :
          /\ call[t].pc \in {"idle", "copy", "check", "scan", "exchange", "lock", "store"}
          /\ call[t].next \in 1 .. AuxWords + 1 /\ call[t].len \in 0 .. AuxWords
          /\ {call[t].new, call[t].old} \subseteq Files \cup {NoFile}
    /\ limit \in Nat /\ peak \in Nat

\* Whoever sets whole maps and single fields, and whatever becomes of the limit
\* meanwhile - a whole map is checked long before it is written -, the map is in
\* order, and but for the one exec left, no larger than some limit there was: no
\* two calls that each keep to it put together what neither may.
Allowed(m, most) == Ordered(m) /\ (m = FirstMap \/ WithinLimit(m, most))
MapInOrder == Allowed(map, peak)

\* Each file is held once for every descriptor, mapping, call and for being the
\* executable: on every way out of prctl_set_mm_exe_file and however exchanges
\* overtake each other none is lost, and none is freed while in use.
Holds(f) ==
    LET one(b) == IF b THEN 1 ELSE 0
    IN  one(f \in fds) + one(f \in mapped) + one(f = exe)
        + Cardinality({t \in Threads : call[t].new = f})
        + Cardinality({t \in Threads : call[t].old = f})
FilesHeld == \A f \in Files : refs[f] = Holds(f)

\* "Make sure the last entry is always AT_NULL": of the vector in mm, which is
\* written a piece at a time, by several threads, and not always to its end.
VectorEnds == auxv[AuxWords] = NULL

\* What mmap_sem is for, and what holds without it.
MapInv == TypeOK /\ MapInOrder /\ FilesHeld /\ VectorEnds

\* Every call comes to its end, though two of them wait for mmap_sem.
CallsEnd == \A t \in Threads : ~At(t, "idle") ~> At(t, "idle")
=============================================================================
