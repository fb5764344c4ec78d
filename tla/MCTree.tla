------------------------------- MODULE MCTree -------------------------------
(* Careful sessions of a bounded number of commands, and what is seen of them. *)
EXTENDS TreeSession, MCFileSystem

TreeInit == MCInit /\ seen = Stands(mode, fat, ents, text, host, slots)
TreeNext == MCCarefulNext /\ seen' = Stands(mode', fat', ents', text', host', slots')
TreeSpec == TreeInit /\ [][TreeNext]_<<mcvars, seen>>
=============================================================================
