-------------------------- MODULE CharDriverProofs --------------------------
(***************************************************************************)
(* The driver's buffer for every size, every text and any number of        *)
(* threads and files.  Where a call ends follows from where it is          *)
(* (CallInv); what a write that no other write joined has done so far is   *)
(* in the buffer at each of its bytes (LoneInv), which no invariant about  *)
(* finished writes would carry over the steps in between.                  *)
(***************************************************************************)
EXTENDS Driver, TLAPS

Writing(c) == call[c].op \in {"memset", "write"}

CallInv(k) ==
    k # Idle =>
        /\ k.at <= k.n
        /\ k.op = "memset" => k.n = Avail(k.pos)
        /\ k.op = "write" => k.n = Least(Len(k.data), Avail(k.pos))
        /\ MaxSeek <= MemSize => k.pos + k.n <= MemSize

LoneInv(k) ==
    /\ k.op = "memset" =>
          \A i \in Index : i >= k.pos /\ i < k.pos + k.at => mem[i] = NUL
    /\ k.op = "write" =>
          \A i \in Index : i >= k.pos =>
              mem[i] = IF i < k.pos + k.at THEN k.data[i - k.pos + 1] ELSE NUL

Inside == MaxSeek <= MemSize => ~wild /\ \A f \in Files : fpos[f] <= MemSize

Apart == \A c, d \in Callers : c # d /\ Writing(c) /\ Writing(d) => c \in mixed

IInv ==
    /\ TypeOK
    /\ Inside
    /\ \A c \in Callers : CallInv(call[c])
    /\ Apart
    /\ \A c \in Callers \ mixed : LoneInv(call[c])

-----------------------------------------------------------------------------
LEMMA AvailFact ==
    ASSUME NEW pos \in Nat
    PROVE  /\ Avail(pos) \in Nat
           /\ pos <= MemSize => Avail(pos) = MemSize - pos
  <1>1. MemSize \in Nat /\ SizeMod \in Nat /\ MemSize < SizeMod
    BY SizeAssumption
  <1>2. (MemSize - pos) % SizeMod \in Nat
    BY <1>1
  <1>3. \A x \in Nat : x < SizeMod => x % SizeMod = x
    BY <1>1
  <1>4. ASSUME pos <= MemSize PROVE Avail(pos) = MemSize - pos
    <2>1. MemSize - pos \in Nat /\ MemSize - pos < SizeMod
      BY <1>1, <1>4
    <2> QED
      BY <1>3, <2>1 DEF Avail
  <1> QED
    BY <1>2, <1>4 DEF Avail

LEMMA IdleFact ==
    /\ Idle.op = "none" /\ Idle \in Call /\ CallInv(Idle) /\ LoneInv(Idle)
    /\ \A k \in Call : k # Idle =>
          /\ k.op \in {"llseek", "read", "memset", "write"} /\ k.file \in Files
          /\ k.pos \in Nat /\ k.n \in Nat /\ k.at \in Nat /\ k.data \in Seq(STRING)
    /\ \A k \in Call : k.op # "none" => k # Idle
  BY DEF Idle, Call, CallInv, LoneInv

LEMMA InitInv == Init => IInv
  <1> SUFFICES ASSUME Init PROVE IInv
    OBVIOUS
  <1>1. /\ call = [c \in Callers |-> Idle] /\ mixed = {} /\ wild = FALSE
        /\ fpos = [f \in Files |-> 0]
        /\ mem = [i \in Index |-> IF i < Len(Greeting) THEN Greeting[i + 1] ELSE NUL]
    BY DEF Init
  <1>2. \A c \in Callers : call[c] = Idle
    BY <1>1
  <1>3. mem \in [Index -> STRING]
    <2>1. ASSUME NEW i \in Index, i < Len(Greeting) PROVE Greeting[i + 1] \in STRING
      <3>1. i \in Nat /\ Len(Greeting) \in Nat /\ i + 1 \in 1 .. Len(Greeting)
        BY <2>1, SizeAssumption DEF Index
      <3> QED
        BY <3>1, SizeAssumption
    <2> QED
      BY <1>1, <2>1, SizeAssumption
  <1>4. TypeOK
    BY <1>1, <1>3, IdleFact DEF TypeOK
  <1>5. Inside
    BY <1>1, SizeAssumption DEF Inside
  <1>6. Apart
    BY <1>2, IdleFact DEF Apart, Writing
  <1> QED
    BY <1>2, <1>4, <1>5, <1>6, IdleFact DEF IInv

\* What a call that starts must be like, and what its step leaves alone.
LEMMA BeginInv ==
    ASSUME IInv, NEW c \in Callers, NEW f \in Files, NEW op \in {"llseek", "read", "memset"},
           NEW pos \in Nat, NEW n \in Nat, NEW data \in Seq(STRING),
           Begin(c, f, op, pos, n, data), UNCHANGED <<mem, fpos, wild>>,
           op = "memset" => n = Avail(pos),
           MaxSeek <= MemSize => pos + n <= MemSize,
           mixed' \subseteq Callers, op # "memset" => mixed' = mixed,
           op = "memset" => mixed \ {c} \subseteq mixed',
           op = "memset" => \A d \in Callers \ {c} : Writing(d) => {c, d} \subseteq mixed'
    PROVE  IInv'
  <1> DEFINE k == [op |-> op, file |-> f, pos |-> pos, n |-> n, at |-> 0, data |-> data]
  <1>1. k \in Call
    BY DEF Call
  <1>2. /\ k.op = op /\ k.pos = pos /\ k.n = n /\ k.at = 0 /\ k.data = data
        /\ call' = [call EXCEPT ![c] = k] /\ call[c] = Idle
    BY DEF Begin
  <1> HIDE DEF k
  <1>3. call'[c] = k /\ \A d \in Callers \ {c} : call'[d] = call[d]
    BY <1>2 DEF IInv, TypeOK
  <1>4. TypeOK'
    BY <1>1, <1>2 DEF IInv, TypeOK
  <1>5. Inside'
    BY DEF IInv, Inside
  <1>6. CallInv(k)
    BY <1>2 DEF CallInv
  <1>7. \A d \in Callers : CallInv(call'[d])
    BY <1>3, <1>6 DEF IInv
  <1>8. ASSUME NEW d \in Callers, NEW e \in Callers, d # e, Writing(d)', Writing(e)'
        PROVE  d \in mixed'
    <2>1. CASE d = c \/ e = c
      BY <1>2, <1>3, <1>8, <2>1 DEF Writing
    <2>2. CASE d # c /\ e # c
      <3>1. d \in mixed
        BY <1>3, <1>8, <2>2 DEF Writing, IInv, Apart
      <3> QED
        BY <2>2, <3>1
    <2> QED
      BY <2>1, <2>2
  <1>9. ASSUME NEW d \in Callers \ mixed' PROVE LoneInv(call[d])'
    <2>1. CASE d = c
      <3>1. MemSize \in Nat
        BY SizeAssumption
      <3> QED
        BY <1>2, <1>3, <2>1, <3>1 DEF LoneInv, Index
    <2>2. CASE d # c
      <3>1. d \notin mixed
        BY <2>2
      <3>2. call'[d] = call[d] /\ mem' = mem
        BY <1>3, <2>2
      <3> QED
        BY <3>1, <3>2 DEF IInv, LoneInv
    <2> QED
      BY <2>1, <2>2
  <1>10. Apart'
    BY <1>8 DEF Apart
  <1>11. \A d \in Callers : CallInv(call[d])'
    BY <1>7 DEF CallInv
  <1> QED
    BY <1>4, <1>5, <1>9, <1>10, <1>11 DEF IInv

\* A step of one call that changes no position: what it must keep.
LEMMA CallSuffices ==
    ASSUME IInv, NEW c \in Callers, NEW k \in Call, CallInv(k),
           call' = [call EXCEPT ![c] = k], UNCHANGED <<fpos, mixed>>,
           mem' \in [Index -> STRING], wild' \in BOOLEAN, MaxSeek <= MemSize => ~wild',
           k.op \in {"memset", "write"} => Writing(c),
           \A d \in Callers \ mixed : LoneInv(call[d])'
    PROVE  IInv'
  <1>1. call'[c] = k /\ \A d \in Callers \ {c} : call'[d] = call[d]
    BY DEF IInv, TypeOK
  <1>2. TypeOK'
    BY DEF IInv, TypeOK
  <1>3. Inside'
    BY DEF IInv, Inside
  <1>4. \A d \in Callers : CallInv(call'[d])
    BY <1>1 DEF IInv
  <1>5. \A d \in Callers : CallInv(call[d])'
    BY <1>4 DEF CallInv
  <1>6. \A d \in Callers : Writing(d)' => Writing(d)
    BY <1>1 DEF Writing
  <1>7. Apart'
    BY <1>6 DEF Apart, IInv
  <1> QED
    BY <1>2, <1>3, <1>5, <1>7 DEF IInv

\* A byte stored by one call is not in the way of another's that runs alone:
\* only writes store anything else than what is there.
LEMMA ByteInv ==
    ASSUME IInv, NEW c \in Callers, NEW b, Byte(c, b),
           call[c].op \in {"memset", "read", "write"},
           call[c].pos + call[c].at \in Index => b \in STRING,
           call[c].op = "memset" => b = NUL,
           call[c].op = "read" => b = mem[call[c].pos + call[c].at],
           call[c].op = "write" => b = call[c].data[call[c].at + 1]
    PROVE  IInv'
  <1> DEFINE old == call[c]
             k == [old EXCEPT !.at = old.at + 1]
             i == old.pos + old.at
  <1>1. old \in Call /\ old # Idle
    BY IdleFact DEF IInv, TypeOK
  <1>2. /\ old.op \in {"llseek", "read", "memset", "write"} /\ old.file \in Files
        /\ old.pos \in Nat /\ old.n \in Nat /\ old.at \in Nat /\ old.data \in Seq(STRING)
    BY <1>1, IdleFact
  <1>3. /\ old.at < old.n /\ wild' = (i \notin Index)
        /\ mem' = IF i \in Index THEN [mem EXCEPT ![i] = b] ELSE mem
        /\ call' = [call EXCEPT ![c] = k] /\ fpos' = fpos /\ mixed' = mixed
    BY DEF Byte
  <1>4. /\ k \in Call /\ k.op = old.op /\ k.pos = old.pos /\ k.n = old.n
        /\ k.at = old.at + 1 /\ k.data = old.data /\ k # Idle
    <2>1. /\ k \in Call /\ k.op = old.op /\ k.pos = old.pos /\ k.n = old.n
          /\ k.at = old.at + 1 /\ k.data = old.data
      BY <1>1, <1>2 DEF Call, Idle
    <2> QED
      BY <1>2, <2>1, IdleFact
  <1> HIDE DEF k
  <1>5. CallInv(old)
    BY DEF IInv
  <1>6. CallInv(k)
    BY <1>1, <1>2, <1>3, <1>4, <1>5 DEF CallInv
  <1>7. mem' \in [Index -> STRING]
    BY <1>3 DEF IInv, TypeOK
  <1>8. wild' \in BOOLEAN
    BY <1>3
  <1>9. MaxSeek <= MemSize => ~wild'
    <2>1. MaxSeek <= MemSize => old.pos + old.n <= MemSize
      BY <1>1, <1>5 DEF CallInv
    <2>2. MaxSeek <= MemSize => i \in Index
      BY <1>2, <1>3, <2>1, SizeAssumption DEF Index
    <2> QED
      BY <1>3, <2>2
  <1>10. call'[c] = k /\ \A d \in Callers \ {c} : call'[d] = call[d]
    BY <1>3 DEF IInv, TypeOK
  <1>11. ASSUME NEW d \in Callers \ mixed PROVE LoneInv(call[d])'
    <2>1. LoneInv(call[d])
      BY DEF IInv
    <2>2. CASE d = c
      <3>1. /\ mem \in [Index -> STRING]
            /\ \A j \in Index : j \in Nat /\ mem'[j] = IF j = i THEN b ELSE mem[j]
        BY <1>3, SizeAssumption DEF IInv, TypeOK, Index
      <3>2. CASE old.op = "memset"
        <4>1. \A j \in Index : j >= k.pos /\ j < k.pos + k.at => mem'[j] = NUL
          <5>1. \A j \in Index : j >= old.pos /\ j < old.pos + old.at => mem[j] = NUL
            BY <2>1, <2>2, <3>2 DEF LoneInv
          <5>2. b = NUL
            BY <3>2
          <5> SUFFICES ASSUME NEW j \in Index, j >= old.pos, j < old.pos + old.at + 1
                       PROVE  mem'[j] = NUL
            BY <1>2, <1>4
          <5>3. j = i \/ j < old.pos + old.at
            BY <1>2, <3>1
          <5> QED
            BY <3>1, <5>1, <5>2, <5>3
        <4> QED
          BY <1>4, <1>10, <2>2, <3>2, <4>1 DEF LoneInv
      <3>3. CASE old.op = "write"
        <4>1. \A j \in Index : j >= old.pos =>
                mem[j] = IF j < old.pos + old.at THEN old.data[j - old.pos + 1] ELSE NUL
          BY <2>1, <2>2, <3>3 DEF LoneInv
        <4>2. \A j \in Index : j >= k.pos =>
                mem'[j] = IF j < k.pos + k.at THEN k.data[j - k.pos + 1] ELSE NUL
          <5> SUFFICES ASSUME NEW j \in Index, j >= old.pos
                       PROVE  mem'[j] = IF j < old.pos + old.at + 1
                                        THEN old.data[j - old.pos + 1] ELSE NUL
            BY <1>2, <1>4
          <5>1. j \in Nat
            BY <3>1
          <5>2. CASE j = i
            <6>1. j - old.pos + 1 = old.at + 1 /\ j < old.pos + old.at + 1
              BY <1>2, <5>1, <5>2
            <6> QED
              BY <3>1, <3>3, <5>2, <6>1
          <5>3. CASE j # i
            <6>1. j < old.pos + old.at <=> j < old.pos + old.at + 1
              BY <1>2, <5>1, <5>3
            <6> QED
              BY <3>1, <4>1, <5>3, <6>1
          <5> QED
            BY <5>2, <5>3
        <4> QED
          BY <1>4, <1>10, <2>2, <3>3, <4>2 DEF LoneInv
      <3>4. CASE old.op = "read"
        BY <1>4, <1>10, <2>2, <3>4 DEF LoneInv
      <3> QED
        BY <3>2, <3>3, <3>4
    <2>3. CASE d # c /\ ~Writing(d)
      BY <1>10, <2>3 DEF LoneInv, Writing
    <2>4. CASE d # c /\ Writing(d)
      <3>1. old.op = "read"
        BY <2>4 DEF IInv, Apart, Writing
      <3>2. mem' = mem
        BY <1>3, <3>1 DEF IInv, TypeOK
      <3>3. call'[d] = call[d]
        BY <1>10, <2>4
      <3> QED
        BY <2>1, <3>2, <3>3 DEF LoneInv
    <2> QED
      BY <2>2, <2>3, <2>4
  <1>12. k.op \in {"memset", "write"} => Writing(c)
    BY <1>4 DEF Writing
  <1> QED
    BY <1>3, <1>4, <1>6, <1>7, <1>8, <1>9, <1>11, <1>12, CallSuffices

LEMMA CopyFromInv ==
    ASSUME IInv, NEW c \in Callers, CopyFrom(c)
    PROVE  IInv'
  <1> DEFINE old == call[c]
             n == Least(Len(old.data), old.n)
             k == [old EXCEPT !.op = "write", !.at = 0, !.n = n]
  <1>1. old \in Call /\ old.op = "memset" /\ old.at = old.n
    BY DEF IInv, TypeOK, CopyFrom
  <1>2. /\ old.file \in Files /\ old.pos \in Nat /\ old.n \in Nat
        /\ old.data \in Seq(STRING) /\ old # Idle
    BY <1>1, IdleFact
  <1>3. n \in Nat /\ n <= old.n
    BY <1>2 DEF Least
  <1>4. old.n = Avail(old.pos) /\ (MaxSeek <= MemSize => old.pos + old.n <= MemSize)
    BY <1>1, <1>2 DEF IInv, CallInv
  <1>5. n = Least(Len(old.data), Avail(old.pos))
    BY <1>4
  <1>6. call' = [call EXCEPT ![c] = k] /\ mem' = mem /\ UNCHANGED <<fpos, mixed, wild>>
    BY DEF CopyFrom
  <1> HIDE DEF n
  <1>7. /\ k \in Call /\ k.op = "write" /\ k.pos = old.pos /\ k.n = n /\ k.at = 0
        /\ k.data = old.data
    BY <1>1, <1>2, <1>3 DEF Call, Idle
  <1> HIDE DEF k
  <1>8. CallInv(k)
    <2>1. k.at <= k.n
      BY <1>3, <1>7
    <2>2. MaxSeek <= MemSize => k.pos + k.n <= MemSize
      BY <1>2, <1>3, <1>4, <1>7, SizeAssumption
    <2>3. k.op # "memset" /\ k.n = Least(Len(k.data), Avail(k.pos))
      BY <1>5, <1>7
    <2> QED
      BY <2>1, <2>2, <2>3 DEF CallInv
  <1>9. call'[c] = k /\ \A d \in Callers \ {c} : call'[d] = call[d]
    BY <1>6 DEF IInv, TypeOK
  <1>10. ASSUME NEW d \in Callers \ mixed PROVE LoneInv(call[d])'
    <2>1. LoneInv(call[d])
      BY DEF IInv
    <2>2. CASE d # c
      BY <1>6, <1>9, <2>1, <2>2 DEF LoneInv
    <2>3. CASE d = c
      <3>1. \A i \in Index : i >= old.pos => i < old.pos + old.n
        <4>1. MemSize \in Nat /\ (old.pos <= MemSize => old.n = MemSize - old.pos)
          BY <1>2, <1>4, AvailFact, SizeAssumption
        <4> QED
          BY <1>2, <4>1 DEF Index
      <3>2. \A i \in Index : i >= old.pos => mem[i] = NUL
        BY <1>1, <2>1, <2>3, <3>1 DEF LoneInv
      <3>3. \A i \in Index : i >= k.pos => mem'[i] = NUL /\ ~(i < k.pos + k.at)
        BY <1>2, <1>6, <1>7, <3>2, SizeAssumption DEF Index
      <3> QED
        BY <1>7, <1>9, <2>3, <3>3 DEF LoneInv
    <2> QED
      BY <2>2, <2>3
  <1>11. Writing(c)
    BY <1>1 DEF Writing
  <1>12. mem' \in [Index -> STRING] /\ wild' \in BOOLEAN /\ (MaxSeek <= MemSize => ~wild')
    BY <1>6 DEF IInv, TypeOK, Inside
  <1> QED
    BY <1>6, <1>7, <1>8, <1>10, <1>11, <1>12, CallSuffices

LEMMA FaultInv ==
    ASSUME IInv, NEW c \in Callers, Fault(c)
    PROVE  IInv'
  <1> DEFINE old == call[c]
  <1>1. call' = [call EXCEPT ![c] = Idle] /\ UNCHANGED <<fpos, mixed, wild>>
    BY DEF Fault
  <1>2. mem' \in [Index -> STRING] /\ (~Writing(c) => mem' = mem)
    BY SizeAssumption DEF IInv, TypeOK, Fault, Writing
  <1>3. call'[c] = Idle /\ \A d \in Callers \ {c} : call'[d] = call[d]
    BY <1>1 DEF IInv, TypeOK
  <1>4. ASSUME NEW d \in Callers \ mixed PROVE LoneInv(call[d])'
    <2>1. LoneInv(call[d])
      BY DEF IInv
    <2>2. CASE d = c
      BY <1>3, <2>2, IdleFact DEF LoneInv
    <2>3. CASE d # c /\ ~Writing(d)
      BY <1>3, <2>3 DEF LoneInv, Writing
    <2>4. CASE d # c /\ Writing(d)
      <3>1. ~Writing(c)
        BY <2>4 DEF IInv, Apart
      <3>2. mem' = mem /\ call'[d] = call[d]
        BY <1>2, <1>3, <2>4, <3>1
      <3> QED
        BY <2>1, <3>2 DEF LoneInv
    <2> QED
      BY <2>2, <2>3, <2>4
  <1>5. wild' \in BOOLEAN /\ (MaxSeek <= MemSize => ~wild')
    BY <1>1 DEF IInv, TypeOK, Inside
  <1>6. Idle.op \notin {"memset", "write"}
    BY IdleFact
  <1> QED
    BY <1>1, <1>2, <1>4, <1>5, <1>6, IdleFact, CallSuffices

LEMMA ReturnInv ==
    ASSUME IInv, NEW c \in Callers, Return(c)
    PROVE  IInv'
  <1> DEFINE old == call[c]
             p == old.pos + old.n
  <1>1. old \in Call /\ old # Idle
    BY IdleFact DEF IInv, TypeOK, Return
  <1>2. old.file \in Files /\ old.pos \in Nat /\ old.n \in Nat
    BY <1>1, IdleFact
  <1>3. p \in Nat /\ (MaxSeek <= MemSize => p <= MemSize)
    BY <1>1, <1>2 DEF IInv, CallInv
  <1>4. /\ call' = [call EXCEPT ![c] = Idle] /\ fpos' = [fpos EXCEPT ![old.file] = p]
        /\ UNCHANGED <<mem, mixed, wild>>
    BY DEF Return
  <1> HIDE DEF p
  <1>5. call'[c] = Idle /\ \A d \in Callers \ {c} : call'[d] = call[d]
    BY <1>4 DEF IInv, TypeOK
  <1>6. TypeOK'
    BY <1>3, <1>4, IdleFact DEF IInv, TypeOK
  <1>7. Inside'
    <2>1. fpos \in [Files -> Nat]
      BY DEF IInv, TypeOK
    <2> QED
      BY <1>3, <1>4, <2>1 DEF IInv, Inside
  <1>8. \A d \in Callers : CallInv(call'[d])
    BY <1>5, IdleFact DEF IInv
  <1>9. \A d \in Callers : CallInv(call[d])'
    BY <1>8 DEF CallInv
  <1>10. \A d \in Callers : Writing(d)' => Writing(d)
    BY <1>5, IdleFact DEF Writing
  <1>11. Apart'
    BY <1>4, <1>10 DEF IInv, Apart
  <1>12. ASSUME NEW d \in Callers \ mixed' PROVE LoneInv(call[d])'
    <2>1. LoneInv(call[d]) /\ mem' = mem
      BY <1>4 DEF IInv
    <2>2. CASE d = c
      BY <1>5, <2>2, IdleFact DEF LoneInv
    <2>3. CASE d # c
      BY <1>5, <2>1, <2>3 DEF LoneInv
    <2> QED
      BY <2>2, <2>3
  <1> QED
    BY <1>6, <1>7, <1>9, <1>11, <1>12 DEF IInv

LEMMA OpenInv ==
    ASSUME IInv, NEW f \in Files, mywdriver_open(f)
    PROVE  IInv'
  <1>1. fpos' = [fpos EXCEPT ![f] = 0] /\ UNCHANGED <<mem, call, mixed, wild>>
    BY DEF mywdriver_open
  <1>2. TypeOK'
    BY <1>1 DEF IInv, TypeOK
  <1>3. Inside'
    BY <1>1, SizeAssumption DEF IInv, TypeOK, Inside
  <1>4. \A d \in Callers : CallInv(call[d])'
    BY <1>1 DEF IInv, CallInv
  <1>5. Apart' /\ \A d \in Callers \ mixed' : LoneInv(call[d])'
    BY <1>1 DEF IInv, Apart, Writing, LoneInv
  <1> QED
    BY <1>2, <1>3, <1>4, <1>5 DEF IInv

-----------------------------------------------------------------------------
LEMMA EnterInv ==
    ASSUME IInv, NEW c \in Callers, Enter(c)
    PROVE  IInv'
  <1>1. PICK f \in Files :
            \/ \E count \in Counts : mywdriver_read(c, f, count)
            \/ \E data \in Data : mywdriver_write(c, f, data)
            \/ \E off \in Offsets, whence \in 0 .. 2 : mywdriver_llseek(c, f, off, whence)
    BY DEF Enter
  <1>2. fpos[f] \in Nat /\ mixed \subseteq Callers /\ (MaxSeek <= MemSize => fpos[f] <= MemSize)
    BY DEF IInv, TypeOK, Inside
  <1>3. /\ Avail(fpos[f]) \in Nat
        /\ fpos[f] <= MemSize => Avail(fpos[f]) = MemSize - fpos[f]
    BY <1>2, AvailFact
  <1>4. MemSize \in Nat /\ MaxSeek \in Nat /\ Counts \subseteq Nat /\ Data \subseteq Seq(STRING)
    BY SizeAssumption
  <1>5. <<>> \in Seq(STRING)
    OBVIOUS
  <1>6. MaxSeek <= MemSize => fpos[f] + Avail(fpos[f]) <= MemSize
    BY <1>2, <1>3, <1>4
  <1>7. ASSUME NEW count \in Counts, mywdriver_read(c, f, count) PROVE IInv'
    <2> DEFINE n == Least(count, Avail(fpos[f]))
    <2>1. n \in Nat /\ n <= Avail(fpos[f])
      BY <1>3, <1>4 DEF Least
    <2>2. Begin(c, f, "read", fpos[f], n, <<>>) /\ UNCHANGED <<mem, fpos, mixed, wild>>
      BY <1>7 DEF mywdriver_read
    <2> HIDE DEF n
    <2>3. MaxSeek <= MemSize => fpos[f] + n <= MemSize
      BY <1>2, <1>3, <1>4, <1>6, <2>1
    <2> QED
      BY <1>2, <1>5, <2>1, <2>2, <2>3, BeginInv
  <1>8. ASSUME NEW data \in Data, mywdriver_write(c, f, data) PROVE IInv'
    <2>1. /\ Begin(c, f, "memset", fpos[f], Avail(fpos[f]), data)
          /\ UNCHANGED <<mem, fpos, wild>>
      BY <1>8 DEF mywdriver_write
    <2>2. /\ mixed' \subseteq Callers /\ mixed \ {c} \subseteq mixed'
          /\ \A d \in Callers \ {c} : Writing(d) => {c, d} \subseteq mixed'
      BY <1>2, <1>8 DEF mywdriver_write, Writing
    <2> QED
      BY <1>2, <1>3, <1>4, <1>6, <2>1, <2>2, BeginInv
  <1>9. ASSUME NEW off \in Offsets, NEW whence \in 0 .. 2, mywdriver_llseek(c, f, off, whence)
        PROVE  IInv'
    <2> DEFINE p == NewPos(f, off, whence)
    <2>1. p >= 0 /\ p <= MaxSeek /\ Begin(c, f, "llseek", p, 0, <<>>)
          /\ UNCHANGED <<mem, fpos, mixed, wild>>
      BY <1>9 DEF mywdriver_llseek
    <2>2. p \in Int
      BY <1>2, <1>4, SizeAssumption DEF NewPos
    <2> HIDE DEF p
    <2>3. p \in Nat /\ (MaxSeek <= MemSize => p + 0 <= MemSize)
      BY <1>4, <2>1, <2>2
    <2> QED
      BY <1>2, <1>5, <2>1, <2>3, BeginInv
  <1> QED
    BY <1>1, <1>7, <1>8, <1>9

LEMMA StepInv ==
    ASSUME IInv, NEW c \in Callers, Step(c)
    PROVE  IInv'
  <1> DEFINE old == call[c]
             i == old.pos + old.at
  <1>1. mem \in [Index -> STRING] /\ NUL \in STRING
    BY SizeAssumption DEF IInv, TypeOK
  <1>2. CASE Clear(c)
    BY <1>1, <1>2, ByteInv DEF Clear
  <1>3. CASE copy_to_user(c)
    BY <1>1, <1>3, ByteInv DEF copy_to_user
  <1>4. CASE copy_from_user(c)
    <2>1. old.op = "write" /\ Byte(c, old.data[old.at + 1]) /\ old.at < old.n
      BY <1>4 DEF copy_from_user, Byte
    <2>2. /\ old # Idle /\ old.pos \in Nat /\ old.n \in Nat /\ old.at \in Nat
          /\ old.data \in Seq(STRING)
      BY <2>1, IdleFact DEF IInv, TypeOK
    <2>3. old.n = Least(Len(old.data), Avail(old.pos))
      BY <2>1, <2>2 DEF IInv, CallInv
    <2>4. old.n <= Len(old.data)
      BY <2>2, <2>3, AvailFact DEF Least
    <2>5. old.at + 1 \in 1 .. Len(old.data)
      BY <2>1, <2>2, <2>4
    <2>6. old.data[old.at + 1] \in STRING
      BY <2>2, <2>5
    <2> QED
      BY <2>1, <2>6, ByteInv
  <1>5. CASE CopyFrom(c)
    BY <1>5, CopyFromInv
  <1>6. CASE Return(c)
    BY <1>6, ReturnInv
  <1> QED
    BY <1>2, <1>3, <1>4, <1>5, <1>6 DEF Step

LEMMA NextInv == IInv /\ [Next]_vars => IInv'
  <1> SUFFICES ASSUME IInv, [Next]_vars PROVE IInv'
    OBVIOUS
  <1>1. CASE UNCHANGED vars
    <2>1. UNCHANGED <<mem, fpos, call, mixed, wild>>
      BY <1>1 DEF vars
    <2>2. TypeOK' /\ Inside' /\ Apart'
      BY <2>1 DEF IInv, TypeOK, Inside, Apart, Writing
    <2>3. \A c \in Callers : CallInv(call[c])'
      BY <2>1 DEF IInv, CallInv
    <2>4. \A c \in Callers \ mixed' : LoneInv(call[c])'
      BY <2>1 DEF IInv, LoneInv
    <2> QED
      BY <2>2, <2>3, <2>4 DEF IInv
  <1>2. CASE Next
    BY <1>2, EnterInv, StepInv, FaultInv, OpenInv DEF Next
  <1> QED
    BY <1>1, <1>2

LEMMA Invariance == Spec => []IInv
  BY InitInv, NextInv, PTL DEF Spec

\* Positions and lengths of every call are numbers, never negative.
THEOREM TypeCorrect == Spec => []TypeOK
  <1>1. IInv => TypeOK
    BY DEF IInv
  <1> QED
    BY <1>1, Invariance, PTL

\* While nobody seeks past the end, no byte of any call is outside mem.
THEOREM NeverOutside == Spec => []StaysInside
  <1>1. IInv => StaysInside
    BY DEF IInv, Inside, StaysInside
  <1> QED
    BY <1>1, Invariance, PTL

\* A write that ran beside no other write leaves its text and nothing after it.
THEOREM LoneWrites == Spec => []LoneWriteStands
  <1>1. IInv => LoneWriteStands
    <2> SUFFICES ASSUME IInv, NEW c \in Callers \ mixed, call[c].op = "write",
                        call[c].at = call[c].n, NEW i \in Index, i >= call[c].pos
                 PROVE  mem[i] = IF i < call[c].pos + call[c].n
                                 THEN call[c].data[i - call[c].pos + 1] ELSE NUL
      BY DEF LoneWriteStands
    <2>1. LoneInv(call[c])
      BY DEF IInv
    <2> QED
      BY <2>1 DEF LoneInv
  <1> QED
    BY <1>1, Invariance, PTL

-----------------------------------------------------------------------------
(***************************************************************************)
(* The test program.  How far a run is says where its file stands and what *)
(* its call is (RunInv).  A byte that differs from the text's is one some  *)
(* run has still to store (Will): runs clear and copy over each other, but *)
(* each leaves a place for the last time with the text's own byte.         *)
(***************************************************************************)
\* Where the first k texts end, and where a file stands after them.
EndOf(k) == CASE k = 0 -> 0
              [] k = 1 -> Len(Texts[1])
              [] k = 2 -> Len(Texts[1]) + Len(Texts[2])
              [] k = 3 -> Len(Texts[1]) + Len(Texts[2]) + Len(Texts[3])
Clip(k) == Least(EndOf(k), MemSize)

\* Between two calls: the run's file stands where the texts written so far end.
PlaceInv(p) ==
    /\ pc[p] \in 1 .. 6
    /\ pc[p] \in {1, 2} => fpos[p] <= MemSize
    /\ pc[p] \in 3 .. 6 => fpos[p] = Clip(pc[p] - 3)

\* In a call.
InCall(p, k) ==
    /\ k.file = p /\ k.at <= k.n
    /\ pc[p] = 1 => k.op = "read" /\ k.pos = fpos[p] /\ k.n <= 1 /\ k.pos + k.n <= MemSize
    /\ pc[p] = 2 => k.op = "llseek" /\ k.pos = 0 /\ k.n = 0
    /\ pc[p] \in 3 .. 5 =>
          /\ k.op \in {"memset", "write"}
          /\ k.pos = fpos[p] /\ k.data = Texts[pc[p] - 2]
          /\ k.n = IF k.op = "memset" THEN MemSize - k.pos
                   ELSE Least(Len(k.data), MemSize - k.pos)
    /\ pc[p] # 6

RunInv(p) == PlaceInv(p) /\ (call[p] # Idle => InCall(p, call[p]))

\* What may be at a place of the device, and in a run's buffer.
Known(i, b) == \/ b = NUL
               \/ i < Len(Greeting) /\ b = Greeting[i + 1]
               \/ i < Len(Text) /\ b = TextAt(i)

\* The run has still to store the text's byte at i.
Will(p, i) ==
    /\ pc[p] \in 3 .. 5
    /\ IF i < Len(Text)
       THEN i >= fpos[p] + (IF call[p].op = "write" THEN call[p].at ELSE 0)
       ELSE pc[p] = 3 /\ (call[p] # Idle => call[p].op = "memset" /\ i >= call[p].at)

Started == \E p \in Callers : pc[p] \in 3 .. 6
StandsInv == Started => \A i \in Index : mem[i] = TextAt(i) \/ \E p \in Callers : Will(p, i)

TestTyped == /\ pc \in [Callers -> 1 .. 6] /\ buf \in [Callers -> STRING]
             /\ printed \in [Callers -> SUBSET (Nat \X STRING)]
BufInv(p) == call[p].op = "read" /\ call[p].at > 0 => Known(call[p].pos, buf[p])

TestInv ==
    /\ IInv /\ TestTyped
    /\ \A p \in Callers : RunInv(p) /\ BufInv(p)
    /\ \A i \in Index : Known(i, mem[i])
    /\ PrintsKnown
    /\ StandsInv

LEMMA TextFacts ==
    /\ Text \in Seq(STRING) /\ Len(Text) = EndOf(3)
    /\ \A k \in 0 .. 3 : EndOf(k) \in Nat /\ EndOf(k) <= EndOf(3) /\ Clip(k) \in Nat
                         /\ Clip(k) <= MemSize /\ Clip(k) <= EndOf(k)
    /\ \A k \in 1 .. 3 :
          /\ EndOf(k) = EndOf(k - 1) + Len(Texts[k])
          /\ \A j \in 0 .. (Len(Texts[k]) - 1) : TextAt(EndOf(k - 1) + j) = Texts[k][j + 1]
  <1>1. Texts[1] \in Seq(STRING) /\ Texts[2] \in Seq(STRING) /\ Texts[3] \in Seq(STRING)
    BY TestAssumption
  <1>2. /\ Len(Texts[1]) \in Nat /\ Len(Texts[2]) \in Nat /\ Len(Texts[3]) \in Nat
        /\ MemSize \in Nat
    BY <1>1, SizeAssumption
  <1>3. EndOf(0) = 0 /\ EndOf(1) = Len(Texts[1]) /\ EndOf(2) = Len(Texts[1]) + Len(Texts[2])
        /\ EndOf(3) = Len(Texts[1]) + Len(Texts[2]) + Len(Texts[3])
    BY DEF EndOf
  <1> DEFINE u == Texts[1]
             v == Texts[2]
             w == Texts[3]
  <1> HIDE DEF u, v, w
  <1>4. /\ u \in Seq(STRING) /\ v \in Seq(STRING) /\ w \in Seq(STRING)
        /\ Len(u) \in Nat /\ Len(v) \in Nat /\ Len(w) \in Nat
        /\ EndOf(0) = 0 /\ EndOf(1) = Len(u) /\ EndOf(2) = Len(u) + Len(v)
        /\ EndOf(3) = Len(u) + Len(v) + Len(w)
    BY <1>1, <1>2, <1>3 DEF u, v, w
  <1>5. /\ u \o v \in Seq(STRING) /\ Len(u \o v) = Len(u) + Len(v)
        /\ \A i \in 1 .. Len(u) : (u \o v)[i] = u[i]
        /\ \A i \in 1 .. Len(v) : (u \o v)[Len(u) + i] = v[i]
    BY <1>4
  <1> DEFINE x == u \o v
  <1> HIDE DEF x
  <1>6. /\ x \o w \in Seq(STRING) /\ Len(x \o w) = Len(x) + Len(w)
        /\ \A i \in 1 .. Len(x) : (x \o w)[i] = x[i]
        /\ \A i \in 1 .. Len(w) : (x \o w)[Len(x) + i] = w[i]
    BY <1>4, <1>5 DEF x
  <1>7. Text = x \o w
    BY DEF Text, u, v, w, x
  <1>8. /\ Text \in Seq(STRING) /\ Len(Text) = EndOf(3) /\ Len(x) = EndOf(2)
        /\ Len(Text) = Len(x) + Len(w)
        /\ Len(x) \in Nat
    BY <1>4, <1>5, <1>6, <1>7 DEF x
  <1>9. \A k \in 0 .. 3 : EndOf(k) \in Nat /\ EndOf(k) <= EndOf(3)
    <2>1. \A k \in 0 .. 3 : k = 0 \/ k = 1 \/ k = 2 \/ k = 3
      OBVIOUS
    <2> QED
      BY <1>4, <2>1
  <1>10. \A k \in 0 .. 3 : Clip(k) \in Nat /\ Clip(k) <= MemSize /\ Clip(k) <= EndOf(k)
    BY <1>2, <1>9 DEF Clip, Least
  <1>11. ASSUME NEW k \in 1 .. 3
         PROVE  /\ EndOf(k) = EndOf(k - 1) + Len(Texts[k])
                /\ \A j \in 0 .. (Len(Texts[k]) - 1) : TextAt(EndOf(k - 1) + j) = Texts[k][j + 1]
    <2>1. CASE k = 1
      <3>1. k - 1 = 0 /\ Texts[k] = u
        BY <2>1 DEF u
      <3>2. ASSUME NEW j \in 0 .. (Len(u) - 1) PROVE TextAt(0 + j) = u[j + 1]
        <4>1. j + 1 \in 1 .. Len(u) /\ j + 1 \in 1 .. Len(x) /\ j < Len(Text) /\ 0 + j = j
          BY <1>4, <1>5, <1>6, <1>8 DEF x
        <4> QED
          BY <1>5, <1>6, <1>7, <4>1 DEF TextAt, x
      <3> QED
        BY <1>4, <2>1, <3>1, <3>2
    <2>2. CASE k = 2
      <3>1. k - 1 = 1 /\ Texts[k] = v
        BY <2>2 DEF v
      <3>2. ASSUME NEW j \in 0 .. (Len(v) - 1) PROVE TextAt(Len(u) + j) = v[j + 1]
        <4>1. /\ j + 1 \in 1 .. Len(v) /\ Len(u) + j + 1 \in 1 .. Len(x)
              /\ Len(u) + j < Len(Text) /\ Len(u) + j + 1 = Len(u) + (j + 1)
          BY <1>4, <1>5, <1>6, <1>8 DEF x
        <4> QED
          BY <1>5, <1>6, <1>7, <4>1 DEF TextAt, x
      <3> QED
        BY <1>4, <2>2, <3>1, <3>2
    <2>3. CASE k = 3
      <3>1. k - 1 = 2 /\ Texts[k] = w
        BY <2>3 DEF w
      <3>2. ASSUME NEW j \in 0 .. (Len(w) - 1) PROVE TextAt(Len(x) + j) = w[j + 1]
        <4>1. /\ j + 1 \in 1 .. Len(w) /\ Len(x) + j < Len(Text)
              /\ Len(x) + j + 1 = Len(x) + (j + 1)
          BY <1>4, <1>6, <1>7, <1>8
        <4> QED
          BY <1>6, <1>7, <4>1 DEF TextAt
      <3> QED
        BY <1>4, <1>8, <2>3, <3>1, <3>2
    <2> QED
      BY <2>1, <2>2, <2>3
  <1> QED
    BY <1>8, <1>9, <1>10, <1>11

\* The place before text s, and the text's bytes from there on.
LEMMA PlaceFacts ==
    ASSUME NEW s \in 1 .. 3
    PROVE  /\ EndOf(s - 1) \in Nat /\ EndOf(s) = EndOf(s - 1) + Len(Texts[s])
           /\ EndOf(s) <= Len(Text) /\ Len(Text) \in Nat
           /\ Clip(s - 1) = Least(EndOf(s - 1), MemSize)
           /\ \A j \in 0 .. (Len(Texts[s]) - 1) : TextAt(EndOf(s - 1) + j) = Texts[s][j + 1]
  <1>1. s \in 0 .. 3 /\ s - 1 \in 0 .. 3 /\ 3 \in 0 .. 3
    OBVIOUS
  <1>2. EndOf(s - 1) \in Nat /\ EndOf(s) <= EndOf(3) /\ Len(Text) = EndOf(3) /\ EndOf(3) \in Nat
    BY <1>1, TextFacts, Zenon
  <1>3. /\ EndOf(s) = EndOf(s - 1) + Len(Texts[s])
        /\ \A j \in 0 .. (Len(Texts[s]) - 1) : TextAt(EndOf(s - 1) + j) = Texts[s][j + 1]
    BY TextFacts, Zenon
  <1> QED
    BY <1>2, <1>3 DEF Clip

\* The types behind one run, and the bytes of its text.
LEMMA RunFacts ==
    ASSUME TestInv, NEW p \in Callers
    PROVE  /\ pc[p] \in 1 .. 6 /\ fpos[p] \in Nat /\ fpos[p] <= MemSize
           /\ call[p] \in Call /\ CallInv(call[p]) /\ p \in Files
           /\ call[p] # Idle =>
                /\ call[p].op \in {"llseek", "read", "memset", "write"}
                /\ call[p].pos \in Nat /\ call[p].n \in Nat /\ call[p].at \in Nat
                /\ call[p].data \in Seq(STRING) /\ InCall(p, call[p])
                /\ call[p].pos + call[p].n <= MemSize
           /\ call[p].op # "none" => call[p] # Idle
  <1>1. pc[p] \in 1 .. 6 /\ fpos[p] \in Nat /\ call[p] \in Call /\ CallInv(call[p])
    BY TestAssumption DEF TestInv, TestTyped, IInv, TypeOK
  <1>2. p \in Files /\ RunInv(p)
    BY TestAssumption DEF TestInv
  <1>3. fpos[p] <= MemSize
    <2>1. /\ pc[p] \in {1, 2} => fpos[p] <= MemSize
          /\ pc[p] \in 3 .. 6 => fpos[p] = Clip(pc[p] - 3)
      BY <1>2, Zenon DEF RunInv, PlaceInv
    <2>2. CASE pc[p] \in {1, 2}
      BY <2>1, <2>2
    <2>3. CASE pc[p] \in 3 .. 6
      <3>1. PICK k \in 0 .. 3 : k = pc[p] - 3
        BY <2>3
      <3> QED
        BY ONLY <2>1, <2>3, <3>1, TextFacts
    <2> QED
      BY <1>1, <2>2, <2>3
  <1>4. ASSUME call[p] # Idle
        PROVE  /\ call[p].op \in {"llseek", "read", "memset", "write"}
               /\ call[p].pos \in Nat /\ call[p].n \in Nat /\ call[p].at \in Nat
               /\ call[p].data \in Seq(STRING) /\ InCall(p, call[p])
    BY <1>1, <1>2, <1>4, IdleFact DEF RunInv
  <1>5. ASSUME call[p] # Idle PROVE call[p].pos + call[p].n <= MemSize
    <2>1. MemSize \in Nat /\ Len(call[p].data) \in Nat
      BY <1>4, <1>5, SizeAssumption
    <2> QED
      BY <1>1, <1>3, <1>4, <1>5, <2>1 DEF InCall, Least
  <1> QED
    BY <1>1, <1>2, <1>3, <1>4, <1>5, IdleFact

\* What a step of one run leaves of the others.
LEMMA OthersStay ==
    ASSUME TestInv, NEW p, NEW q \in Callers \ {p},
           call'[q] = call[q], fpos'[q] = fpos[q], pc'[q] = pc[q], buf'[q] = buf[q]
    PROVE  /\ RunInv(q)' /\ BufInv(q)'
           /\ \A i \in Index : Will(q, i)' <=> Will(q, i)
  <1>1. RunInv(q) /\ BufInv(q)
    BY DEF TestInv
  <1>2. RunInv(q)'
    BY <1>1 DEF RunInv, PlaceInv, InCall
  <1>3. BufInv(q)'
    BY <1>1 DEF BufInv, Known
  <1> QED
    BY <1>2, <1>3 DEF Will

(***************************************************************************)
(* A step of run p keeps the invariant when it leaves the others alone and *)
(* stores, at each place, the text's byte or one it will store over.       *)
(***************************************************************************)
LEMMA RunStep ==
    ASSUME TestInv, NEW p \in Callers, IInv', TestTyped',
           \A q \in Callers \ {p} : /\ call'[q] = call[q] /\ fpos'[q] = fpos[q]
                                    /\ pc'[q] = pc[q] /\ buf'[q] = buf[q],
           RunInv(p)', BufInv(p)', PrintsKnown',
           \A i \in Index : Known(i, mem'[i]),
           Started' => Started \/ \A i \in Index : Will(p, i)',
           \A i \in Index : mem'[i] = mem[i] \/ mem'[i] = TextAt(i) \/ Will(p, i)',
           \A i \in Index : Will(p, i) => Will(p, i)' \/ mem'[i] = TextAt(i)
    PROVE  TestInv'
  <1>1. \A q \in Callers \ {p} : /\ RunInv(q)' /\ BufInv(q)'
                                 /\ \A i \in Index : Will(q, i)' <=> Will(q, i)
    BY OthersStay
  <1>2. \A q \in Callers : RunInv(q)' /\ BufInv(q)'
    BY <1>1
  <1>3. StandsInv'
    <2> SUFFICES ASSUME Started', NEW i \in Index
                 PROVE  mem'[i] = TextAt(i) \/ \E q \in Callers : Will(q, i)'
      BY DEF StandsInv, TextAt, Text
    <2>1. CASE Started
      <3>1. mem[i] = TextAt(i) \/ \E q \in Callers : Will(q, i)
        BY <2>1 DEF StandsInv, TestInv
      <3>2. ASSUME NEW q \in Callers, Will(q, i)
            PROVE  mem'[i] = TextAt(i) \/ \E r \in Callers : Will(r, i)'
        BY <1>1, <3>2
      <3> QED
        BY <3>1, <3>2
    <2>2. CASE ~Started
      BY <2>2
    <2> QED
      BY <2>1, <2>2
  <1>4. (\A i \in Index : Known(i, mem[i]))'
    BY DEF Known, TextAt, Text
  <1> QED
    BY <1>2, <1>3, <1>4 DEF TestInv

LEMMA EnterCallInv ==
    ASSUME TestInv, NEW p \in Callers, EnterCall(p)
    PROVE  TestInv'
  <1> DEFINE op == CASE pc[p] = 1 -> "read" [] pc[p] = 2 -> "llseek" [] OTHER -> "memset"
             pos == IF pc[p] = 2 THEN 0 ELSE fpos[p]
             n == CASE pc[p] = 1 -> Least(1, Avail(fpos[p])) [] pc[p] = 2 -> 0
                    [] OTHER -> Avail(fpos[p])
             data == IF pc[p] \in {1, 2} THEN <<>> ELSE Texts[pc[p] - 2]
             k == [op |-> op, file |-> p, pos |-> pos, n |-> n, at |-> 0, data |-> data]
  <1>1. /\ pc[p] \in 1 .. 6 /\ fpos[p] \in Nat /\ fpos[p] <= MemSize /\ p \in Files
        /\ PlaceInv(p) /\ IInv
    BY RunFacts DEF TestInv, RunInv
  <1>2. MemSize \in Nat /\ Avail(fpos[p]) = MemSize - fpos[p]
    BY <1>1, AvailFact, SizeAssumption
  <1>3. Script[1] = "read" /\ Script[2] = "lseek" /\ Script[3] = "write" /\ Script[4] = "write"
        /\ Script[5] = "write" /\ Script[6] = "done"
    BY DEF Script
  <1>4. pc[p] \in 1 .. 5
    BY <1>1, <1>3 DEF EnterCall, At
  <1>5. pc[p] = 1 => mywdriver_read(p, p, 1)
    BY <1>3 DEF EnterCall, At
  <1>6. pc[p] = 2 => mywdriver_llseek(p, p, 0, 0)
    BY <1>3 DEF EnterCall, At
  <1>7. pc[p] \in 3 .. 5 => mywdriver_write(p, p, Texts[pc[p] - 2])
    BY <1>3 DEF EnterCall, At
  <1>8. Begin(p, p, op, pos, n, data) /\ UNCHANGED <<mem, fpos, wild>>
    <2>1. CASE pc[p] = 1
      BY <1>5, <2>1 DEF mywdriver_read
    <2>2. CASE pc[p] = 2
      BY <1>6, <2>2 DEF mywdriver_llseek, NewPos
    <2>3. CASE pc[p] \in 3 .. 5
      BY <1>7, <2>3 DEF mywdriver_write
    <2> QED
      BY <1>4, <2>1, <2>2, <2>3
  <1>9. /\ op \in {"llseek", "read", "memset"} /\ pos \in Nat /\ n \in Nat
        /\ pos + n <= MemSize
    BY <1>1, <1>2, <1>4 DEF Least
  <1>10. data \in Seq(STRING)
    <2>1. CASE pc[p] \in {1, 2}
      BY <2>1
    <2>2. CASE pc[p] \in 3 .. 5
      <3>1. pc[p] - 2 \in 1 .. 3 /\ data = Texts[pc[p] - 2]
        BY <2>2
      <3> HIDE DEF data
      <3> QED
        BY <3>1, TestAssumption
    <2> QED
      BY <1>4, <2>1, <2>2
  <1>11. /\ mixed' \subseteq Callers /\ (op # "memset" => mixed' = mixed)
         /\ op = "memset" => mixed \ {p} \subseteq mixed'
         /\ op = "memset" => \A d \in Callers \ {p} : Writing(d) => {p, d} \subseteq mixed'
    <2>1. mixed \subseteq Callers
      BY <1>1 DEF IInv, TypeOK
    <2>2. CASE pc[p] = 1
      BY <1>5, <2>1, <2>2 DEF mywdriver_read
    <2>3. CASE pc[p] = 2
      BY <1>6, <2>1, <2>3 DEF mywdriver_llseek
    <2>4. CASE pc[p] \in 3 .. 5
      BY <1>7, <2>1, <2>4 DEF mywdriver_write, Writing
    <2> QED
      BY <1>4, <2>2, <2>3, <2>4
  <1>12. op = "memset" => n = Avail(pos)
    BY <1>4
  <1>13. IInv'
    BY <1>1, <1>8, <1>9, <1>10, <1>11, <1>12, BeginInv
  <1>14. UNCHANGED <<pc, buf, printed>>
    BY DEF EnterCall
  <1>15. TestTyped'
    BY <1>14 DEF TestInv, TestTyped
  <1>16. /\ call' = [call EXCEPT ![p] = k] /\ call[p] = Idle
         /\ k.op = op /\ k.file = p /\ k.pos = pos /\ k.n = n /\ k.at = 0 /\ k.data = data
    BY <1>8 DEF Begin
  <1>17. InCall(p, k)
    <2>1. pc[p] = 1 => n <= 1 /\ pos = fpos[p]
      BY <1>1, <1>2 DEF Least
    <2>2. pc[p] \in 3 .. 5 => n = MemSize - pos /\ op = "memset" /\ data = Texts[pc[p] - 2]
                              /\ pos = fpos[p]
      BY <1>2
    <2>3. pc[p] = 1 => op = "read"
      OBVIOUS
    <2>4. pc[p] = 2 => op = "llseek" /\ pos = 0 /\ n = 0
      OBVIOUS
    <2> HIDE DEF k, n, op, data, pos
    <2> QED
      BY <1>4, <1>9, <1>16, <2>1, <2>2, <2>3, <2>4 DEF InCall
  <1> HIDE DEF k, n, op, data, pos
  <1>18. call'[p] = k /\ \A q \in Callers \ {p} : call'[q] = call[q]
    BY <1>1, <1>16 DEF IInv, TypeOK
  <1>19. RunInv(p)'
    BY <1>1, <1>8, <1>14, <1>17, <1>18 DEF RunInv, PlaceInv, InCall
  <1>20. BufInv(p)'
    BY <1>16, <1>18 DEF BufInv
  <1>21. PrintsKnown' /\ (\A i \in Index : Known(i, mem'[i])) /\ (Started' => Started)
    BY <1>8, <1>14 DEF TestInv, PrintsKnown, Started, TextAt, Text
  <1>22. \A i \in Index : Will(p, i) => Will(p, i)'
    <2> SUFFICES ASSUME NEW i \in Index, Will(p, i) PROVE Will(p, i)'
      OBVIOUS
    <2>1. k.op = "memset" /\ k.at = 0 /\ i >= 0
      BY <1>16, SizeAssumption DEF Will, op, Index
    <2> QED
      BY <1>8, <1>14, <1>16, <1>18, <2>1, IdleFact DEF Will, Text
  <1> QED
    BY <1>8, <1>13, <1>14, <1>15, <1>18, <1>19, <1>20, <1>21, <1>22, RunStep

\* A byte goes to the reader's buffer.
LEMMA ReadByteInv ==
    ASSUME TestInv, NEW p \in Callers, ReadByte(p)
    PROVE  TestInv'
  <1> DEFINE old == call[p]
             k == [old EXCEPT !.at = old.at + 1]
             i == old.pos + old.at
  <1>1. /\ old.op = "read" /\ Byte(p, mem[i]) /\ buf' = [buf EXCEPT ![p] = mem[old.pos]]
        /\ UNCHANGED <<pc, printed>>
    BY DEF ReadByte, copy_to_user
  <1>2. /\ old \in Call /\ old # Idle /\ old.pos \in Nat /\ old.n \in Nat /\ old.at \in Nat
        /\ InCall(p, old) /\ old.pos + old.n <= MemSize /\ pc[p] \in 1 .. 6 /\ IInv
    BY <1>1, RunFacts DEF TestInv
  <1>3. pc[p] = 1
    BY <1>1, <1>2 DEF InCall
  <1>4. old.at < old.n /\ old.n <= 1 /\ call' = [call EXCEPT ![p] = k] /\ UNCHANGED <<fpos, mixed>>
    BY <1>1, <1>2, <1>3 DEF Byte, InCall
  <1>5. old.at = 0 /\ i = old.pos /\ i \in Index
    <2>1. old.at = 0 /\ old.n = 1 /\ MemSize \in Nat
      BY <1>2, <1>4, SizeAssumption
    <2> QED
      BY <1>2, <2>1 DEF Index
  <1>6. mem' = mem
    BY <1>1, <1>2, <1>5 DEF Byte, IInv, TypeOK
  <1>7. IInv'
    BY <1>1, <1>2, StepInv DEF Step, copy_to_user
  <1>8. /\ k.op = "read" /\ k.pos = old.pos /\ k.n = old.n /\ k.at = old.at + 1
        /\ k.data = old.data /\ k.file = old.file
    BY <1>1, <1>2 DEF Call, Idle
  <1> HIDE DEF k
  <1>9. call'[p] = k /\ \A q \in Callers \ {p} : call'[q] = call[q] /\ buf'[q] = buf[q]
    BY <1>1, <1>2, <1>4 DEF IInv, TypeOK, TestInv, TestTyped
  <1>10. buf'[p] = mem[old.pos] /\ Known(old.pos, buf'[p]) /\ buf'[p] \in STRING
    BY <1>1, <1>2, <1>5 DEF TestInv, TestTyped, IInv, TypeOK
  <1>11. TestTyped'
    BY <1>1, <1>10 DEF TestInv, TestTyped
  <1>12. InCall(p, k)
    BY <1>2, <1>4, <1>3, <1>8 DEF InCall
  <1>13. RunInv(p)'
    BY <1>1, <1>4, <1>9, <1>12 DEF TestInv, RunInv, PlaceInv, InCall
  <1>14. BufInv(p)'
    BY <1>8, <1>9, <1>10 DEF BufInv, Known
  <1>15. PrintsKnown' /\ (Started' => Started)
    BY <1>1 DEF TestInv, PrintsKnown, Started, TextAt, Text
  <1>16. \A j \in Index : Known(j, mem'[j])
    BY <1>6 DEF TestInv
  <1>17. \A j \in Index : mem'[j] = mem[j] /\ ~Will(p, j)
    BY <1>3, <1>6 DEF Will
  <1> QED
    BY <1>1, <1>4, <1>7, <1>9, <1>11, <1>13, <1>14, <1>15, <1>16, <1>17, RunStep

\* A byte of a write: NUL on the way, the text's own byte at last.
LEMMA StoreByteInv ==
    ASSUME TestInv, NEW p \in Callers, Clear(p) \/ copy_from_user(p),
           UNCHANGED <<pc, buf, printed>>
    PROVE  TestInv'
  <1> DEFINE old == call[p]
             k == [old EXCEPT !.at = old.at + 1]
             b == IF old.op = "memset" THEN NUL ELSE old.data[old.at + 1]
             i == old.pos + old.at
  <1>1. old.op \in {"memset", "write"} /\ Byte(p, b)
    BY DEF Clear, copy_from_user
  <1>2. /\ old \in Call /\ old # Idle /\ old.pos \in Nat /\ old.n \in Nat /\ old.at \in Nat
        /\ old.data \in Seq(STRING)
        /\ InCall(p, old) /\ old.pos + old.n <= MemSize /\ pc[p] \in 1 .. 6 /\ IInv
        /\ fpos[p] \in Nat /\ RunInv(p)
    BY <1>1, RunFacts DEF TestInv
  <1>3. pc[p] \in 3 .. 5 /\ old.pos = fpos[p] /\ old.data = Texts[pc[p] - 2]
    BY <1>1, <1>2 DEF InCall
  <1>4. /\ old.at < old.n /\ call' = [call EXCEPT ![p] = k] /\ UNCHANGED <<fpos, mixed>>
        /\ mem' = IF i \in Index THEN [mem EXCEPT ![i] = b] ELSE mem
    BY <1>1 DEF Byte
  <1>5. i \in Index /\ MemSize \in Nat /\ mem \in [Index -> STRING]
    BY <1>2, <1>4, SizeAssumption DEF Index, IInv, TypeOK
  <1>6. IInv'
    BY <1>2, StepInv DEF Step
  <1>7. /\ k.op = old.op /\ k.pos = old.pos /\ k.n = old.n /\ k.at = old.at + 1
        /\ k.data = old.data /\ k.file = old.file /\ k # Idle
    <2>1. /\ k.op = old.op /\ k.pos = old.pos /\ k.n = old.n /\ k.at = old.at + 1
          /\ k.data = old.data /\ k.file = old.file
      BY <1>1, <1>2 DEF Call, Idle
    <2> QED
      BY <1>1, <2>1, IdleFact
  <1>8. /\ \A j \in Index : mem'[j] = IF j = i THEN b ELSE mem[j]
    BY <1>4, <1>5
  <1> HIDE DEF k
  <1>9. call'[p] = k /\ \A q \in Callers \ {p} : call'[q] = call[q]
    BY <1>2, <1>4 DEF IInv, TypeOK
  \* A byte copied is the text's at that place.
  <1>10. old.op = "write" => b = TextAt(i) /\ i < Len(Text)
    <2> SUFFICES ASSUME old.op = "write" PROVE b = TextAt(i) /\ i < Len(Text)
      OBVIOUS
    <2> DEFINE s == pc[p] - 2
    <2>1. s \in 1 .. 3 /\ pc[p] - 3 = s - 1 /\ s - 1 \in 0 .. 3
      BY <1>3
    <2>2. fpos[p] = Clip(s - 1)
      BY <1>2, <1>3, <2>1 DEF RunInv, PlaceInv
    <2>3. old.n = Least(Len(old.data), MemSize - old.pos)
      BY <1>2, <1>3 DEF InCall
    <2> HIDE DEF s
    <2>4. Len(old.data) \in Nat /\ old.data = Texts[s]
      BY <1>2, <1>3 DEF s
    <2>5. old.at < Len(old.data) /\ old.at < MemSize - old.pos
      BY <1>2, <1>4, <1>5, <2>3, <2>4 DEF Least
    <2>6. old.pos = EndOf(s - 1)
      <3>1. EndOf(s - 1) \in Nat /\ Clip(s - 1) = Least(EndOf(s - 1), MemSize)
        BY <2>1, PlaceFacts
      <3>2. old.pos < MemSize
        BY <1>2, <1>5, <2>5
      <3> QED
        BY <1>3, <1>5, <2>2, <2>1, <3>1, <3>2 DEF Least
    <2>7. TextAt(EndOf(s - 1) + old.at) = Texts[s][old.at + 1]
      <3>1. old.at \in 0 .. (Len(Texts[s]) - 1)
        BY <1>2, <2>4, <2>5
      <3> QED
        BY <2>1, <3>1, PlaceFacts
    <2>8. /\ EndOf(s) = EndOf(s - 1) + Len(Texts[s]) /\ EndOf(s) <= Len(Text)
          /\ Len(Text) \in Nat /\ EndOf(s - 1) \in Nat
      BY <2>1, PlaceFacts
    <2>9. b = old.data[old.at + 1]
      OBVIOUS
    <2> HIDE DEF b
    <2>10. b = TextAt(i)
      BY <2>4, <2>6, <2>7, <2>9
    <2>11. i < Len(Text)
      BY <1>2, <2>4, <2>5, <2>6, <2>8
    <2> QED
      BY <2>10, <2>11
  <1>11. old.op = "memset" => b = NUL
    OBVIOUS
  <1> HIDE DEF b
  <1>12. TestTyped'
    BY DEF TestInv, TestTyped
  <1>13. InCall(p, k)
    BY <1>2, <1>4, <1>3, <1>7 DEF InCall
  <1>14. RunInv(p)'
    BY <1>2, <1>4, <1>9, <1>13 DEF RunInv, PlaceInv, InCall
  <1>15. BufInv(p)'
    BY <1>1, <1>7, <1>9 DEF BufInv
  <1>16. PrintsKnown' /\ (Started' => Started)
    BY DEF TestInv, PrintsKnown, Started, TextAt, Text
  <1>17. \A j \in Index : Known(j, mem'[j])
    <2>1. Known(i, b)
      BY <1>1, <1>10, <1>11 DEF Known
    <2> QED
      BY <1>8, <2>1 DEF TestInv
  <1>18. Len(Text) \in Nat /\ \A j \in Index : j \in Nat
    BY <1>5, TextFacts DEF Index
  \* What is stored at i is the text's byte, or will be stored over.
  <1>19. ASSUME NEW j \in Index, j = i PROVE mem'[j] = TextAt(j) \/ Will(p, j)'
    <2>1. CASE old.op = "write"
      BY <1>8, <1>10, <1>19, <2>1
    <2>2. CASE old.op = "memset" /\ j < Len(Text)
      <3>1. j >= fpos[p] + 0
        BY <1>2, <1>3, <1>19
      <3> QED
        BY <1>3, <1>4, <1>7, <1>9, <2>2, <3>1 DEF Will, Text
    <2>3. CASE old.op = "memset" /\ ~(j < Len(Text))
      BY <1>8, <1>11, <1>19, <2>3 DEF TextAt
    <2> QED
      BY <1>1, <2>1, <2>2, <2>3
  <1>20. \A j \in Index : mem'[j] = mem[j] \/ mem'[j] = TextAt(j) \/ Will(p, j)'
    BY <1>8, <1>19
  <1>21. \A j \in Index : Will(p, j) => Will(p, j)' \/ mem'[j] = TextAt(j)
    <2> SUFFICES ASSUME NEW j \in Index, Will(p, j), j # i PROVE Will(p, j)'
      BY <1>19
    <2>1. CASE j < Len(Text)
      <3>1. j >= fpos[p] + (IF k.op = "write" THEN k.at ELSE 0)
        BY <1>2, <1>3, <1>7, <1>18, <2>1 DEF Will
      <3> QED
        BY <1>3, <1>4, <1>9, <2>1, <3>1 DEF Will, Text
    <2>2. CASE ~(j < Len(Text))
      <3>1. pc[p] = 3 /\ old.op = "memset" /\ j >= old.at
        BY <1>2, <2>2 DEF Will
      <3>2. old.pos = 0
        BY <1>2, <1>3, <3>1, TextFacts DEF RunInv, PlaceInv, Clip, Least, EndOf
      <3>3. j >= k.at
        BY <1>2, <1>7, <1>18, <3>1, <3>2
      <3> QED
        BY <1>3, <1>7, <1>9, <2>2, <3>1, <3>3 DEF Will, Text
    <2> QED
      BY <2>1, <2>2
  <1> QED
    BY <1>4, <1>6, <1>9, <1>12, <1>14, <1>15, <1>16, <1>17, <1>20, <1>21, RunStep

\* The whole rest of the device is cleared: the copy starts.
LEMMA StoreCopyInv ==
    ASSUME TestInv, NEW p \in Callers, CopyFrom(p), UNCHANGED <<pc, buf, printed>>
    PROVE  TestInv'
  <1> DEFINE old == call[p]
             n == Least(Len(old.data), old.n)
             k == [old EXCEPT !.op = "write", !.at = 0, !.n = n]
  <1>1. old.op = "memset" /\ old.at = old.n
    BY DEF CopyFrom
  <1>2. /\ old \in Call /\ old # Idle /\ old.pos \in Nat /\ old.n \in Nat /\ old.at \in Nat
        /\ old.data \in Seq(STRING)
        /\ InCall(p, old) /\ pc[p] \in 1 .. 6 /\ IInv /\ fpos[p] \in Nat /\ RunInv(p)
    BY <1>1, RunFacts DEF TestInv
  <1>3. /\ pc[p] \in 3 .. 5 /\ old.pos = fpos[p] /\ old.data = Texts[pc[p] - 2]
        /\ old.n = MemSize - old.pos
    BY <1>1, <1>2 DEF InCall
  <1>4. call' = [call EXCEPT ![p] = k] /\ UNCHANGED <<mem, fpos, mixed, wild>>
    BY DEF CopyFrom
  <1>5. MemSize \in Nat /\ \A j \in Index : j \in Nat /\ j < MemSize
    BY SizeAssumption DEF Index
  <1>6. IInv'
    BY <1>2, StepInv DEF Step
  <1>7. n \in Nat
    BY <1>2 DEF Least
  <1>8. n = Least(Len(old.data), MemSize - old.pos)
    BY <1>3
  <1> HIDE DEF n
  <1>9. /\ k.op = "write" /\ k.pos = old.pos /\ k.n = n /\ k.at = 0
        /\ k.data = old.data /\ k.file = old.file
    BY <1>1, <1>2 DEF Call, Idle
  <1> HIDE DEF k
  <1>10. call'[p] = k /\ k # Idle /\ \A q \in Callers \ {p} : call'[q] = call[q]
    BY <1>2, <1>4, <1>9, IdleFact DEF IInv, TypeOK
  <1>11. TestTyped'
    BY DEF TestInv, TestTyped
  <1>12. InCall(p, k)
    BY <1>2, <1>3, <1>7, <1>8, <1>9 DEF InCall
  <1>13. RunInv(p)'
    BY <1>2, <1>4, <1>10, <1>12 DEF RunInv, PlaceInv, InCall
  <1>14. BufInv(p)'
    BY <1>9, <1>10 DEF BufInv
  <1>15. PrintsKnown' /\ (Started' => Started)
    BY DEF TestInv, PrintsKnown, Started, TextAt, Text
  <1>16. \A j \in Index : Known(j, mem'[j])
    BY <1>4 DEF TestInv
  <1>17. ASSUME NEW j \in Index, Will(p, j) PROVE Will(p, j)'
    <2>1. CASE j < Len(Text)
      <3>1. j >= fpos[p] + 0
        BY <1>1, <1>17, <2>1 DEF Will
      <3> QED
        BY <1>3, <1>4, <1>9, <1>10, <2>1, <3>1 DEF Will, Text
    <2>2. CASE ~(j < Len(Text))
      <3>1. pc[p] = 3 /\ j >= old.at
        BY <1>2, <1>17, <2>2 DEF Will
      <3>2. old.pos = 0
        BY <1>2, <1>3, <3>1, SizeAssumption DEF RunInv, PlaceInv, Clip, Least, EndOf
      <3> QED
        BY <1>1, <1>3, <1>5, <3>1, <3>2
    <2> QED
      BY <2>1, <2>2
  <1>18. \A j \in Index : mem'[j] = mem[j]
    BY <1>4
  <1> QED
    BY <1>4, <1>6, <1>10, <1>11, <1>13, <1>14, <1>15, <1>16, <1>17, <1>18, RunStep

\* A call is over: the script goes on, or reads on.
LEMMA ReturnCallInv ==
    ASSUME TestInv, NEW p \in Callers, ReturnCall(p)
    PROVE  TestInv'
  <1> DEFINE old == call[p]
             to == old.pos + old.n
             more == At(p, "read") /\ old.n > 0 /\ buf[p] # NUL
             next == IF more THEN pc[p] ELSE pc[p] + 1
  <1>1. /\ Return(p) /\ old.op \in {"llseek", "read", "write"} /\ old.at = old.n
        /\ call' = [call EXCEPT ![p] = Idle] /\ fpos' = [fpos EXCEPT ![old.file] = to]
        /\ UNCHANGED <<mem, mixed, wild, buf>>
    BY DEF ReturnCall, Return
  <1>2. /\ old \in Call /\ old # Idle /\ old.pos \in Nat /\ old.n \in Nat /\ old.at \in Nat
        /\ InCall(p, old) /\ pc[p] \in 1 .. 6 /\ IInv /\ fpos[p] \in Nat /\ RunInv(p)
        /\ old.pos + old.n <= MemSize /\ p \in Files /\ old.data \in Seq(STRING)
    BY <1>1, RunFacts DEF TestInv
  <1>3. /\ pc' = [pc EXCEPT ![p] = next]
        /\ printed' = IF more THEN [printed EXCEPT ![p] = @ \cup {<<old.pos, buf[p]>>}]
                      ELSE printed
    BY DEF ReturnCall
  <1>4. /\ Script[1] = "read" /\ Script[2] = "lseek" /\ Script[3] = "write"
        /\ Script[4] = "write" /\ Script[5] = "write" /\ Script[6] = "done"
    BY DEF Script
  <1>5. /\ more => pc[p] = 1 /\ old.op = "read" /\ old.n = 1 /\ buf[p] # NUL
        /\ pc[p] \in 1 .. 5
    <2>1. pc[p] # 6
      BY <1>2 DEF InCall
    <2>2. ASSUME more PROVE pc[p] = 1
      <3>1. Script[pc[p]] = "read"
        BY <2>2 DEF At
      <3> QED
        BY <1>2, <1>4, <3>1
    <2>3. ASSUME more PROVE old.op = "read" /\ old.n = 1 /\ buf[p] # NUL
      BY <1>2, <2>2, <2>3 DEF InCall
    <2> QED
      BY <1>2, <2>1, <2>2, <2>3
  <1>6. IInv'
    BY <1>1, <1>2, StepInv DEF Step
  <1>7. next \in 1 .. 6 /\ (more => next = 1) /\ (~more => next = pc[p] + 1)
    BY <1>2, <1>5
  <1> HIDE DEF next, more
  <1>8. /\ call'[p] = Idle /\ fpos'[p] = to /\ pc'[p] = next
        /\ \A q \in Callers \ {p} : /\ call'[q] = call[q] /\ fpos'[q] = fpos[q]
                                    /\ pc'[q] = pc[q] /\ buf'[q] = buf[q]
    <2>1. old.file = p /\ Callers \subseteq Files
      BY <1>2, TestAssumption DEF InCall
    <2> QED
      BY <1>1, <1>2, <1>3, <2>1 DEF TestInv, TestTyped, IInv, TypeOK
  <1>9. to \in Nat /\ to <= MemSize /\ MemSize \in Nat
    BY <1>2, SizeAssumption
  <1>10. pc[p] \in 3 .. 5 => to = Clip(pc[p] - 2) /\ old.op = "write" /\ to = fpos[p] + old.at
    <2> SUFFICES ASSUME pc[p] \in 3 .. 5
                 PROVE to = Clip(pc[p] - 2) /\ old.op = "write" /\ to = fpos[p] + old.at
      OBVIOUS
    <2> DEFINE s == pc[p] - 2
    <2>1. s \in 1 .. 3 /\ pc[p] - 3 = s - 1
      OBVIOUS
    <2>2. /\ old.op = "write" /\ old.pos = fpos[p] /\ fpos[p] = Clip(s - 1)
          /\ old.n = Least(Len(old.data), MemSize - old.pos) /\ old.data = Texts[s]
      BY <1>1, <1>2, <2>1 DEF InCall, RunInv, PlaceInv
    <2> HIDE DEF s
    <2>3. /\ EndOf(s - 1) \in Nat /\ EndOf(s) = EndOf(s - 1) + Len(Texts[s])
          /\ Clip(s - 1) = Least(EndOf(s - 1), MemSize) /\ Clip(s) = Least(EndOf(s), MemSize)
      BY <2>1, PlaceFacts DEF Clip
    <2>4. Len(Texts[s]) \in Nat
      BY <1>2, <2>2
    <2>5. to = Least(EndOf(s), MemSize)
      BY <1>9, <2>2, <2>3, <2>4 DEF Least
    <2> QED
      BY <1>1, <2>2, <2>3, <2>5 DEF s
  <1>11. TestTyped'
    <2>1. more => <<old.pos, buf[p]>> \in Nat \X STRING
      BY <1>2 DEF TestInv, TestTyped
    <2> QED
      BY <1>1, <1>3, <1>7, <2>1 DEF TestInv, TestTyped
  <1>12. RunInv(p)'
    <2>1. next \in {1, 2} => to <= MemSize
      BY <1>9
    <2>2. next \in 3 .. 6 => to = Clip(next - 3)
      <3>1. CASE pc[p] \in 3 .. 5
        BY <1>5, <1>7, <1>10, <3>1
      <3>2. CASE pc[p] = 1
        BY <1>7, <3>2
      <3>3. CASE pc[p] = 2
        <4>1. to = 0 /\ next = 3
          BY <1>2, <1>5, <1>7, <3>3 DEF InCall
        <4> QED
          BY <1>9, <4>1 DEF Clip, EndOf, Least
      <3> QED
        BY <1>5, <3>1, <3>2, <3>3
    <2> QED
      BY <1>7, <1>8, <2>1, <2>2 DEF RunInv, PlaceInv, Clip, EndOf
  <1>13. BufInv(p)'
    BY <1>8, IdleFact DEF BufInv
  <1>14. PrintsKnown'
    <2>1. more => Known(old.pos, buf[p]) /\ buf[p] # NUL
      <3>1. more => old.at > 0
        BY <1>1, <1>5
      <3> QED
        BY <1>5, <3>1 DEF TestInv, BufInv
    <2>2. ASSUME NEW q \in Callers, NEW out \in printed'[q]
          PROVE  \/ out[1] < Len(Greeting) /\ out[2] = Greeting[out[1] + 1]
                 \/ out[1] < Len(Text) /\ out[2] = TextAt(out[1])
      <3>1. CASE out \in printed[q]
        BY <3>1 DEF TestInv, PrintsKnown
      <3>2. CASE out \notin printed[q]
        <4>1. more /\ out = <<old.pos, buf[p]>>
          BY <1>3, <2>2, <3>2 DEF TestInv, TestTyped
        <4> QED
          BY <2>1, <4>1 DEF Known
      <3> QED
        BY <3>1, <3>2
    <2> QED
      BY <2>2 DEF PrintsKnown, TextAt, Text
  <1>15. \A j \in Index : Known(j, mem'[j]) /\ mem'[j] = mem[j] /\ j \in Nat
    BY <1>1, SizeAssumption DEF TestInv, Index
  \* The first write is still to come, at every place.
  <1>16. Started' => Started \/ \A j \in Index : Will(p, j)'
    <2> SUFFICES ASSUME Started', ~Started PROVE \A j \in Index : Will(p, j)'
      OBVIOUS
    <2>1. pc[p] \in {1, 2}
      BY <1>2 DEF Started
    <2>2. next = 3
      <3>1. next \in 3 .. 6
        BY <1>8 DEF Started
      <3> QED
        BY <1>5, <1>7, <2>1, <3>1
    <2>3. to = 0
      BY <1>2, <1>5, <1>7, <2>1, <2>2 DEF InCall
    <2>4. /\ call'[p].op # "write" /\ call'[p] = Idle
          /\ pc'[p] = 3 /\ fpos'[p] = 0
      BY <1>8, <2>2, <2>3, IdleFact
    <2>5. ASSUME NEW j \in Index PROVE Will(p, j)'
      <3>1. j \in Nat
        BY <1>15
      <3>2. j >= fpos'[p] + 0
        BY <2>4, <3>1
      <3>3. CASE j < Len(Text)
        BY <2>4, <3>2, <3>3 DEF Will, Text
      <3>4. CASE ~(j < Len(Text))
        BY <2>4, <3>4 DEF Will, Text
      <3> QED
        BY <3>3, <3>4
    <2> QED
      BY <2>5
  <1>17. ASSUME NEW j \in Index, Will(p, j) PROVE Will(p, j)' \/ mem'[j] = TextAt(j)
    <2>1. pc[p] \in 3 .. 5 /\ next = pc[p] + 1 /\ old.op = "write"
      BY <1>2, <1>5, <1>7, <1>10, <1>17 DEF Will
    <2>2. j < Len(Text)
      BY <1>2, <1>17, <2>1 DEF Will
    <2>3. j >= to
      BY <1>10, <1>17, <2>1, <2>2 DEF Will
    <2>4. next # 6
      <3> SUFFICES ASSUME next = 6 PROVE FALSE
        OBVIOUS
      <3>1. to = Clip(3) /\ Len(Text) = EndOf(3)
        <4>1. pc[p] - 2 = 3
          BY <2>1
        <4> QED
          BY <1>10, <2>1, <4>1, TextFacts
      <3>2. EndOf(3) \in Nat /\ j < MemSize
        BY <1>9, TextFacts DEF Index
      <3> QED
        BY <1>9, <1>15, <2>2, <2>3, <3>1, <3>2 DEF Clip, Least
    <2>5. call'[p].op # "write" /\ pc'[p] \in 3 .. 5 /\ fpos'[p] = to
      BY <1>8, <2>1, <2>4, IdleFact
    <2>6. j >= fpos'[p] + 0
      BY <1>9, <2>3, <2>5
    <2> QED
      BY <2>2, <2>5, <2>6 DEF Will, Text
  <1> QED
    BY <1>6, <1>8, <1>11, <1>12, <1>13, <1>14, <1>15, <1>16, <1>17, RunStep

LEMMA TestInitInv == TestInit => TestInv
  <1> SUFFICES ASSUME TestInit PROVE TestInv
    OBVIOUS
  <1>1. /\ IInv /\ call = [c \in Callers |-> Idle] /\ fpos = [f \in Files |-> 0]
        /\ mem = [i \in Index |-> IF i < Len(Greeting) THEN Greeting[i + 1] ELSE NUL]
        /\ pc = [p \in Callers |-> 1] /\ buf = [p \in Callers |-> NUL]
        /\ printed = [p \in Callers |-> {}]
    BY InitInv DEF TestInit, Init
  <1>2. TestTyped
    <2>1. NUL \in STRING
      BY SizeAssumption
    <2>2. pc \in [Callers -> 1 .. 6]
      BY <1>1
    <2>3. buf \in [Callers -> STRING]
      BY <1>1, <2>1, Zenon
    <2>4. printed \in [Callers -> SUBSET (Nat \X STRING)]
      BY <1>1
    <2> QED
      BY <2>2, <2>3, <2>4 DEF TestTyped
  <1>3. \A p \in Callers : RunInv(p) /\ BufInv(p)
    BY <1>1, IdleFact, TestAssumption, SizeAssumption DEF RunInv, PlaceInv, BufInv
  <1>4. \A i \in Index : Known(i, mem[i])
    BY <1>1 DEF Known
  <1>5. PrintsKnown /\ StandsInv
    BY <1>1 DEF PrintsKnown, StandsInv, Started
  <1> QED
    BY <1>1, <1>2, <1>3, <1>4, <1>5 DEF TestInv

LEMMA TestNextInv == TestInv /\ [TestNext]_allvars => TestInv'
  <1> SUFFICES ASSUME TestInv, [TestNext]_allvars PROVE TestInv'
    OBVIOUS
  <1>1. CASE UNCHANGED allvars
    <2>1. UNCHANGED vars /\ UNCHANGED <<mem, fpos, call, pc, buf, printed>>
      BY <1>1 DEF allvars, vars
    <2>2. IInv' /\ TestTyped'
      BY <2>1, NextInv DEF TestInv, TestTyped
    <2>3. \A p \in Callers : RunInv(p)' /\ BufInv(p)'
      BY <2>1 DEF TestInv, RunInv, PlaceInv, InCall, BufInv, Known
    <2>4. PrintsKnown' /\ StandsInv' /\ (\A i \in Index : Known(i, mem[i]))'
      BY <2>1 DEF TestInv, PrintsKnown, StandsInv, Started, Will, Known, TextAt, Text
    <2> QED
      BY <2>2, <2>3, <2>4 DEF TestInv
  <1>2. ASSUME NEW p \in Callers, Run(p) PROVE TestInv'
    BY <1>2, EnterCallInv, ReadByteInv, ReturnCallInv, StoreByteInv, StoreCopyInv DEF Run, Store
  <1> QED
    BY <1>1, <1>2 DEF TestNext

(***************************************************************************)
(* Any number of runs of testDevDriver, over a device and with texts of    *)
(* any size: what they print comes from the texts, and when no run is      *)
(* between its first write and its end and one has ended, the device holds *)
(* the three texts, whatever was cleared and copied over what.             *)
(***************************************************************************)
THEOREM TestsStand == TestSpec => []TestsInv
  <1>1. TestInv => TestsInv
    <2> SUFFICES ASSUME TestInv PROVE TestsInv
      OBVIOUS
    <2>1. TypeOK /\ PrintsKnown
      BY DEF TestInv, IInv
    <2>2. ASSUME \A p \in Callers : ~At(p, "write"), NEW q \in Callers, At(q, "done")
          PROVE  mem = [i \in Index |-> TextAt(i)]
      <3>1. \A p \in Callers : pc[p] \in 1 .. 6
        BY DEF TestInv, TestTyped
      <3>2. \A p \in Callers : pc[p] \notin 3 .. 5
        <4> SUFFICES ASSUME NEW p \in Callers, pc[p] \in 3 .. 5 PROVE FALSE
          OBVIOUS
        <4>1. Script[3] = "write" /\ Script[4] = "write" /\ Script[5] = "write"
          BY DEF Script
        <4> QED
          BY <2>2, <4>1 DEF At
      <3>3. pc[q] = 6
        <4>1. Script[1] = "read" /\ Script[2] = "lseek"
          BY DEF Script
        <4> QED
          BY <2>2, <3>1, <3>2, <4>1 DEF At
      <3>4. \A i \in Index : mem[i] = TextAt(i)
        BY <3>2, <3>3 DEF TestInv, StandsInv, Started, Will
      <3> QED
        BY <2>1, <3>4 DEF TypeOK
    <2> QED
      BY <2>1, <2>2 DEF TestsInv, TextStands
  <1> QED
    BY <1>1, TestInitInv, TestNextInv, PTL DEF TestSpec

-----------------------------------------------------------------------------
(***************************************************************************)
(* Loading and unloading: what is registered at each call of init and      *)
(* cleanup, and no open file where a load or an unload could lose it.      *)
(***************************************************************************)
Registered ==
    /\ at \in {"out", "register_chrdev_region"} => ~region /\ ~class /\ ~node /\ ~cdev
    /\ at = "cdev_add" => region /\ ~class /\ ~node /\ ~cdev
    /\ at = "class_create" => region /\ ~class /\ ~node
    /\ at \in {"device_create", "class_unregister"} => region /\ class /\ ~node
    /\ at \in {"in", "device_destroy"} => region /\ class
    /\ at \in {"class_destroy", "unregister_chrdev_region"} => region /\ ~class /\ ~node
    /\ at = "cdev_del" => ~region /\ ~class /\ ~node

NoneOpen ==
    at \in Module!Exits \cup {"out", "register_chrdev_region", "cdev_add"} => open = 0

Flags == /\ region \in BOOLEAN /\ cdev \in BOOLEAN /\ class \in BOOLEAN
         /\ node \in BOOLEAN /\ late \in BOOLEAN /\ mwild \in BOOLEAN
Counters == /\ at \in Module!Inits \cup Module!Exits \cup {"out", "in"}
            /\ open \in 0 .. MaxOpen /\ loads \in 0 .. MaxLoads
            /\ stale \in Nat /\ orphans \in Nat

LoadInv == Flags /\ Counters /\ Registered /\ NoneOpen /\ Module!NothingStale

LEMMA FlagsStep == Flags /\ [Module!Next]_modulevars => Flags'
  <1> USE DEF Flags, Module!registered, Module!others, Module!Unloaded, Module!Fail
  <1>1. Flags /\ UNCHANGED modulevars => Flags'
    BY DEF modulevars
  <1>2. Flags /\ (Module!Load \/ Module!Remove) => Flags'
    BY DEF Module!Load, Module!Remove
  <1>3. Flags /\ Module!mywdriver_init => Flags'
    BY Zenon DEF Module!mywdriver_init, Module!register_chrdev_region, Module!cdev_add,
       Module!class_create, Module!device_create
  <1>4. Flags /\ Module!mywdriver_cleanup => Flags'
    BY Zenon DEF Module!mywdriver_cleanup, Module!device_destroy, Module!class_unregister,
       Module!class_destroy, Module!unregister_chrdev_region, Module!cdev_del
  <1>5. Flags /\ (Module!Open \/ Module!OpenStale \/ Module!Release) => Flags'
    BY Zenon DEF Module!Open, Module!OpenStale, Module!Release
  <1> QED
    BY <1>1, <1>2, <1>3, <1>4, <1>5 DEF Module!Next

LEMMA CountersStep ==
    Counters /\ Registered /\ NoneOpen /\ [Module!Next]_modulevars
        => Counters' /\ NoneOpen'
  <1> SUFFICES ASSUME Counters, Registered, NoneOpen, [Module!Next]_modulevars
               PROVE  Counters' /\ NoneOpen'
    OBVIOUS
  <1>0. open \in Nat /\ 0 \in 0 .. MaxOpen /\ MaxOpen \in Nat /\ MaxLoads \in Nat
    BY BoundAssumption DEF BoundAssumption, Counters
  <1> USE <1>0 DEF Counters, NoneOpen, Module!registered, Module!others, Module!Unloaded,
          Module!Inits, Module!Exits
  <1>1. CASE UNCHANGED modulevars
    BY <1>1 DEF modulevars
  <1>2. CASE Module!Load \/ Module!Remove
    BY <1>2 DEF Module!Load, Module!Remove
  <1>3. ASSUME Module!Fail PROVE Counters' /\ NoneOpen'
    <2>1. at' = "out" /\ open' = 0 /\ orphans' = orphans + open /\ loads' = loads
      BY <1>3 DEF Module!Fail
    <2>2. CASE cdev
      <3>1. stale' = stale + 1
        BY <1>3, <2>2 DEF Module!Fail
      <3> QED
        BY <2>1, <3>1
    <2>3. CASE ~cdev
      <3>1. stale' = stale + 0
        BY <1>3, <2>3 DEF Module!Fail
      <3> QED
        BY <2>1, <3>1
    <2> QED
      BY <2>2, <2>3
  <1>4. CASE Module!register_chrdev_region
    BY <1>4 DEF Module!register_chrdev_region
  <1>5. CASE Module!cdev_add
    BY <1>5 DEF Module!cdev_add
  <1>6. CASE Module!class_create \/ Module!device_create
    BY <1>3, <1>6 DEF Module!class_create, Module!device_create
  <1>7. CASE Module!device_destroy \/ Module!class_unregister
    BY <1>7 DEF Module!device_destroy, Module!class_unregister
  <1>8. CASE Module!class_destroy \/ Module!unregister_chrdev_region
    BY <1>8 DEF Module!class_destroy, Module!unregister_chrdev_region
  <1>9. CASE Module!cdev_del
    BY <1>9 DEF Module!cdev_del
  <1>10. CASE Module!Open
    <2>1. at' = at /\ loads' = loads /\ stale' = stale /\ orphans' = orphans
      BY <1>10 DEF Module!Open
    <2>2. open' = open + 1 /\ open < MaxOpen /\ at \notin Module!Exits /\ cdev
      BY <1>10 DEF Module!Open
    <2>3. at \notin {"out", "register_chrdev_region", "cdev_add"}
      BY <2>2 DEF Registered
    <2> QED
      BY <2>1, <2>2, <2>3
  <1>11. CASE Module!OpenStale \/ Module!Release
    BY <1>11 DEF Module!OpenStale, Module!Release
  <1> QED
    BY <1>11, <1>1, <1>2, <1>4, <1>5, <1>6, <1>7, <1>8, <1>9, <1>10
       DEF Module!Next, Module!mywdriver_init, Module!mywdriver_cleanup

LEMMA RegisteredStep == Registered /\ [Module!Next]_modulevars => Registered'
  <1> SUFFICES ASSUME Registered, [Module!Next]_modulevars PROVE Registered'
    OBVIOUS
  <1> USE DEF Registered, Module!registered, Module!others, Module!Unloaded, Module!Fail
  <1>1. CASE UNCHANGED modulevars
    BY <1>1 DEF modulevars
  <1>2. CASE Module!Load \/ Module!Remove
    BY <1>2 DEF Module!Load, Module!Remove
  <1>3. CASE Module!register_chrdev_region \/ Module!cdev_add
    BY <1>3 DEF Module!register_chrdev_region, Module!cdev_add
  <1>4. CASE Module!class_create \/ Module!device_create
    BY <1>4 DEF Module!class_create, Module!device_create
  <1>5. CASE Module!device_destroy \/ Module!class_unregister
    BY <1>5 DEF Module!device_destroy, Module!class_unregister
  <1>6. CASE Module!class_destroy \/ Module!unregister_chrdev_region \/ Module!cdev_del
    BY <1>6 DEF Module!class_destroy, Module!unregister_chrdev_region, Module!cdev_del
  <1>7. CASE Module!Open \/ Module!OpenStale \/ Module!Release
    BY <1>7 DEF Module!Open, Module!OpenStale, Module!Release
  <1> QED
    BY <1>1, <1>2, <1>3, <1>4, <1>5, <1>6, <1>7
       DEF Module!Next, Module!mywdriver_init, Module!mywdriver_cleanup

LEMMA StaleStep ==
    Counters /\ NoneOpen /\ Module!NothingStale /\ [Module!Next]_modulevars
        => Module!NothingStale'
  <1> SUFFICES ASSUME Counters, NoneOpen, Module!NothingStale, [Module!Next]_modulevars
               PROVE  Module!NothingStale'
    OBVIOUS
  <1>0. open \in Nat
    BY BoundAssumption DEF BoundAssumption, Counters
  <1> USE <1>0 DEF NoneOpen, Module!NothingStale, Module!registered, Module!others,
          Module!Unloaded, Module!Exits
  <1>1. CASE UNCHANGED modulevars
    BY <1>1 DEF modulevars
  <1>2. CASE Module!Load \/ Module!Remove
    BY <1>2 DEF Module!Load, Module!Remove
  <1>3. CASE Module!register_chrdev_region \/ Module!cdev_add
    BY <1>3 DEF Module!register_chrdev_region, Module!cdev_add
  <1>4. CASE Module!class_create \/ Module!device_create
    BY <1>4 DEF Module!class_create, Module!device_create, Module!Fail
  <1>5. CASE Module!device_destroy \/ Module!class_unregister
    BY <1>5 DEF Module!device_destroy, Module!class_unregister
  <1>6. CASE Module!class_destroy \/ Module!unregister_chrdev_region \/ Module!cdev_del
    BY <1>6 DEF Module!class_destroy, Module!unregister_chrdev_region, Module!cdev_del
  <1>7. CASE Module!Open \/ Module!OpenStale \/ Module!Release
    BY <1>7 DEF Module!Open, Module!OpenStale, Module!Release
  <1> QED
    BY <1>1, <1>2, <1>3, <1>4, <1>5, <1>6, <1>7
       DEF Module!Next, Module!mywdriver_init, Module!mywdriver_cleanup

\* However often the driver is loaded, at whichever call a load fails and
\* whoever has the device open: what is registered hangs together.
THEOREM ModuleSound == Module!Spec => []ModuleInv
  <1>1. Module!Init => LoadInv
    <2> SUFFICES ASSUME Module!Init PROVE LoadInv
      OBVIOUS
    <2>1. Flags
      BY DEF Module!Init, Flags
    <2>2. Counters
      BY BoundAssumption DEF BoundAssumption, Module!Init, Counters, Module!Inits
    <2>3. Registered /\ NoneOpen /\ Module!NothingStale
      BY DEF Module!Init, Registered, NoneOpen, Module!NothingStale
    <2> QED
      BY <2>1, <2>2, <2>3 DEF LoadInv
  <1>2. LoadInv /\ [Module!Next]_(Module!vars) => LoadInv'
    BY FlagsStep, CountersStep, RegisteredStep, StaleStep, Zenon
       DEF LoadInv, Module!vars, modulevars
  <1>3. LoadInv => ModuleInv
    <2> SUFFICES ASSUME LoadInv PROVE ModuleInv
      OBVIOUS
    <2>1. {region, cdev, class, node, late, mwild} \subseteq BOOLEAN
      BY Zenon DEF LoadInv, Flags
    <2>2. Module!TypeOK
      BY <2>1 DEF LoadInv, Counters, Module!TypeOK
    <2>3. Module!NodeServed
      BY DEF LoadInv, Counters, Registered, Module!NodeServed, Module!Inits, Module!Exits
    <2>4. Module!GivenBack
      BY DEF LoadInv, Registered, Module!GivenBack
    <2> QED
      BY <2>2, <2>3, <2>4 DEF LoadInv, ModuleInv, Module!ModuleInv
  <1> QED
    BY <1>1, <1>2, <1>3, PTL DEF Module!Spec
=============================================================================
