------------------------------ MODULE MCDriver ------------------------------
(***************************************************************************)
(* The models of the driver side by side; `subject` says which one a       *)
(* behaviour is about, and the state of the others stays where it began.   *)
(*   "calls"   any calls of two threads on two open files; the text fits   *)
(*             at the first two positions and is cut at the last           *)
(*   "test"    testDevDriver run twice at once, each on its own file       *)
(*   "module"  three loads of the driver, two files open at once           *)
(***************************************************************************)
EXTENDS Driver

VARIABLE subject

Hi == <<"h", "i">>
Pair == {<<"b", "c">>}
BackOrStay == {-1, 0}
Users == << <<"u", "1">>, <<" ">>, <<"2">> >>

testvars == <<pc, buf, printed>>
mcvars == <<subject, allvars, modulevars>>

MCInit ==
    /\ subject \in {"calls", "test", "module"}
    /\ TestInit /\ Module!Init

RunTest(p) == subject = "test" /\ Run(p) /\ UNCHANGED <<subject, modulevars>>

MCNext ==
    \/ subject = "calls" /\ Next /\ UNCHANGED <<subject, testvars, modulevars>>
    \/ \E p \in Callers : RunTest(p)
    \/ subject = "module" /\ Module!Next /\ UNCHANGED <<subject, allvars>>

MCSpec == MCInit /\ [][MCNext]_mcvars /\ \A p \in Callers : WF_mcvars(RunTest(p))

-----------------------------------------------------------------------------
(* The properties of the models, each explained in its module, and this one. *)

\* Every run of the test ends, although others write what its loop reads.
EveryTestEnds == subject = "test" => TestsEnd
=============================================================================
