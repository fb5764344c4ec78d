----------------------------- MODULE Privilege ------------------------------
(***************************************************************************)
(* What the set*id calls promise, without saying which call is made: a     *)
(* task holds some user ids; one without privilege can only drop ids, and  *)
(* gets privilege only through the root id, if it still holds that one.    *)
(***************************************************************************)
CONSTANTS Tasks, UIds, Root

VARIABLES
    held,  \* the user ids a task holds
    priv   \* whether it may take any id

Init ==
    /\ held \in [Tasks -> SUBSET UIds]
    /\ priv \in [Tasks -> BOOLEAN]
    /\ \A t \in Tasks : priv[t] => Root \in held[t]

\* What the task holds and whether it is privileged, after a step.
Becomes(t, ids, p) ==
    /\ ids \subseteq UIds
    /\ p => Root \in ids
    /\ held' = [held EXCEPT ![t] = ids]
    /\ priv' = [priv EXCEPT ![t] = p]

Choose(t) == priv[t] /\ \E ids \in SUBSET UIds, p \in BOOLEAN : Becomes(t, ids, p)

Shrink(t) ==
    /\ ~priv[t]
    /\ \E ids \in SUBSET held[t], p \in BOOLEAN : Becomes(t, ids, p)

Next == \E t \in Tasks : Choose(t) \/ Shrink(t)
Spec == Init /\ [][Next]_<<held, priv>>
=============================================================================
