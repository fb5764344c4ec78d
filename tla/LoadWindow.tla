----------------------------- MODULE LoadWindow -----------------------------
(***************************************************************************)
(* What a load curve of the system monitor is meant to show: the last      *)
(* Points samples, the oldest first, zeroes before there were that many.   *)
(***************************************************************************)
EXTENDS Integers, Sequences

CONSTANTS Points, Samples

VARIABLE window

Take(s) == window' = Append(Tail(window), s)

Init == window = [i \in 1 .. Points |-> 0]
Next == \E s \in Samples : Take(s)
Spec == Init /\ [][Next]_window
=============================================================================
