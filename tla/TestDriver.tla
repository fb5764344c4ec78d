----------------------------- MODULE TestDriver -----------------------------
(***************************************************************************)
(* EXP3-Device_Driver/testDevDriver.c, run several times at once on the    *)
(* driver of CharDriver: it prints the device up to the first NUL, goes    *)
(* back to the beginning and writes three texts one after the other.  The  *)
(* processes share no open file, and their buffers are mapped.             *)
(***************************************************************************)
EXTENDS CharDriver

CONSTANT Texts  \* the three texts written

ASSUME TestAssumption == Callers \subseteq Files /\ Texts \in [1 .. 3 -> Seq(STRING)]

VARIABLES
    pc,       \* how far each process is in the script
    buf,      \* buf[0]
    printed   \* the bytes each printed, with the place in the device they came from

allvars == <<vars, pc, buf, printed>>

Script == <<"read", "lseek", "write", "write", "write", "done">>
At(p, op) == Script[pc[p]] = op

\* What a process does next: each call is entered once the last one returned.
EnterCall(p) ==
    /\ \/ At(p, "read") /\ mywdriver_read(p, p, 1)
       \/ At(p, "lseek") /\ mywdriver_llseek(p, p, 0, 0)
       \/ At(p, "write") /\ mywdriver_write(p, p, Texts[pc[p] - 2])
    /\ UNCHANGED <<pc, buf, printed>>

ReadByte(p) ==
    /\ copy_to_user(p)
    /\ buf' = [buf EXCEPT ![p] = mem[call[p].pos]]
    /\ UNCHANGED <<pc, printed>>

\* A slip: the texts are written where the reading ended.
ReturnCallUnsought(p) ==
    LET more == At(p, "read") /\ call[p].n > 0 /\ buf[p] # NUL
    IN  /\ Return(p)
        /\ printed' = IF more THEN [printed EXCEPT ![p] = @ \cup {<<call[p].pos, buf[p]>>}] ELSE printed
        /\ pc' = [pc EXCEPT ![p] = IF more THEN @ ELSE IF @ = 1 THEN 3 ELSE @ + 1]
        /\ UNCHANGED buf

\* The reading goes on while a byte came and it is not NUL.
ReturnCall(p) ==
    LET more == At(p, "read") /\ call[p].n > 0 /\ buf[p] # NUL
    IN  /\ Return(p)
        /\ printed' = IF more THEN [printed EXCEPT ![p] = @ \cup {<<call[p].pos, buf[p]>>}] ELSE printed
        /\ pc' = [pc EXCEPT ![p] = IF more THEN @ ELSE @ + 1]
        /\ UNCHANGED buf

Store(p) ==
    /\ Clear(p) \/ CopyFrom(p) \/ copy_from_user(p)
    /\ UNCHANGED <<pc, buf, printed>>

Run(p) == EnterCall(p) \/ ReadByte(p) \/ ReturnCall(p) \/ Store(p)

TestInit ==
    /\ Init
    /\ pc = [p \in Callers |-> 1]
    /\ buf = [p \in Callers |-> NUL]
    /\ printed = [p \in Callers |-> {}]

TestNext == \E p \in Callers : Run(p)

\* Every process is scheduled; nothing waits for anything else.
TestSpec == TestInit /\ [][TestNext]_allvars /\ \A p \in Callers : WF_allvars(Run(p))

-----------------------------------------------------------------------------
Text == Texts[1] \o Texts[2] \o Texts[3]
TextAt(i) == IF i < Len(Text) THEN Text[i + 1] ELSE NUL

\* However the runs clear and fill the buffer over each other, once no run is
\* between its first write and its end, and one has ended, the device holds
\* exactly the three texts.
TextStands ==
    /\ \A p \in Callers : ~At(p, "write")
    /\ \E p \in Callers : At(p, "done")
    => mem = [i \in Index |-> TextAt(i)]

\* What a run prints while others write: at each place a byte the device had
\* there at first or has there at last, never one from somewhere else.
PrintsKnown ==
    \A p \in Callers : \A out \in printed[p] :
        \/ out[1] < Len(Greeting) /\ out[2] = Greeting[out[1] + 1]
        \/ out[1] < Len(Text) /\ out[2] = TextAt(out[1])

\* Runs of the test that write over each other: the buffer and the calls are
\* typed, what is printed comes from the texts, and once no run is between its
\* first write and its end, and one has ended, the device holds the three texts.
TestsInv == TypeOK /\ PrintsKnown /\ TextStands

\* Every run ends, although others go on writing what its loop reads.
TestsEnd == \A p \in Callers : <>At(p, "done")
=============================================================================
