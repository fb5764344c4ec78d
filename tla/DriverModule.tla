---------------------------- MODULE DriverModule ----------------------------
(***************************************************************************)
(* Loading and unloading the driver of EXP3-Device_Driver/myw_dev: what    *)
(* mywdriver_init and mywdriver_cleanup register with the kernel, one call *)
(* after the other, while programs open and close the device.  A call of   *)
(* mywdriver_init may fail.  cleanup destroys the class twice: what the    *)
(* second call does to memory that is free is a choice between nothing and *)
(* wild, after which nothing is claimed.                                   *)
(***************************************************************************)
EXTENDS Naturals

CONSTANTS MaxOpen, MaxLoads  \* bounds: files open at once, loads

VARIABLES
    at,      \* the next call of init or cleanup; "out" and "in" between them
    region,  \* the device number is registered
    cdev,    \* the kernel's map leads from the number to this load's cdev
    stale,   \* how many entries of the map lead to a load that is gone
    class, node,
    open,    \* files open on this load; each holds a reference to the module
    orphans, \* files open on a load that is gone
    late,    \* a load failed after cdev_add (history)
    loads, wild

vars == <<at, region, cdev, stale, class, node, open, orphans, late, loads, wild>>

registered == <<region, cdev, stale, class, node>>
others == <<stale, open, orphans, late, loads, wild>>

Inits == {"register_chrdev_region", "cdev_add", "class_create", "device_create"}
Exits == {"device_destroy", "class_unregister", "class_destroy",
          "unregister_chrdev_region", "cdev_del"}

Load ==
    /\ at = "out" /\ loads < MaxLoads
    /\ at' = "register_chrdev_region" /\ loads' = loads + 1
    /\ UNCHANGED <<registered, open, orphans, late, wild>>

\* The module's memory goes, with what still leads to it.
Unloaded ==
    /\ at' = "out"
    /\ open' = 0 /\ orphans' = orphans + open
    /\ UNCHANGED <<loads, wild>>

register_chrdev_region ==
    /\ at = "register_chrdev_region"
    /\ \/ /\ region' = TRUE /\ at' = "cdev_add"
          /\ UNCHANGED <<cdev, class, node, others>>
       \/ Unloaded /\ UNCHANGED <<registered, late>>

\* The result of cdev_add is not looked at.
cdev_add ==
    /\ at = "cdev_add" /\ at' = "class_create"
    /\ cdev' \in BOOLEAN
    /\ UNCHANGED <<region, class, node, others>>

\* A slip: the number is kept.
FailKeepsRegion ==
    /\ class' = FALSE /\ late' = TRUE
    /\ cdev' = FALSE /\ stale' = stale + (IF cdev THEN 1 ELSE 0)
    /\ Unloaded /\ UNCHANGED <<region, node>>

\* The error paths give back class and number; the map keeps its entry.
Fail ==
    /\ region' = FALSE /\ class' = FALSE /\ late' = TRUE
    /\ cdev' = FALSE /\ stale' = stale + (IF cdev THEN 1 ELSE 0)
    /\ Unloaded /\ UNCHANGED node

class_create ==
    /\ at = "class_create"
    /\ \/ class' = TRUE /\ at' = "device_create" /\ UNCHANGED <<region, cdev, node, others>>
       \/ Fail

device_create ==
    /\ at = "device_create"
    /\ \/ node' = TRUE /\ at' = "in" /\ UNCHANGED <<region, cdev, class, others>>
       \/ Fail

\* External: the module is removed only while no file holds it.
Remove ==
    /\ at = "in" /\ open = 0
    /\ at' = "device_destroy"
    /\ UNCHANGED <<registered, open, orphans, late, loads, wild>>

device_destroy ==
    /\ at = "device_destroy" /\ at' = "class_unregister"
    /\ node' = FALSE
    /\ UNCHANGED <<region, cdev, class, others>>

class_unregister ==
    /\ at = "class_unregister" /\ at' = "class_destroy"
    /\ class' = FALSE
    /\ UNCHANGED <<region, cdev, node, others>>

\* The class is gone already.
class_destroy ==
    /\ at = "class_destroy" /\ at' = "unregister_chrdev_region"
    /\ wild' \in BOOLEAN
    /\ UNCHANGED <<registered, open, orphans, late, loads>>

unregister_chrdev_region ==
    /\ at = "unregister_chrdev_region" /\ at' = "cdev_del"
    /\ region' = FALSE
    /\ UNCHANGED <<cdev, class, node, others>>

\* A slip: cdev_del is forgotten.
cdev_delForgotten ==
    /\ at = "cdev_del"
    /\ cdev' = FALSE /\ stale' = stale + (IF cdev THEN 1 ELSE 0)
    /\ Unloaded /\ UNCHANGED <<region, class, node, late>>

cdev_del ==
    /\ at = "cdev_del"
    /\ cdev' = FALSE
    /\ Unloaded /\ UNCHANGED <<region, stale, class, node, late>>

\* External: a file is opened through the map, by this or any other node of the
\* number; a module that is being removed gives no reference.
Open ==
    /\ cdev /\ at \notin Exits
    /\ open < MaxOpen /\ open' = open + 1
    /\ UNCHANGED <<at, registered, orphans, late, loads, wild>>

\* External: the map may choose an entry that leads to freed memory.
OpenStale ==
    /\ stale > 0
    /\ wild' = TRUE
    /\ UNCHANGED <<at, registered, open, orphans, late, loads>>

\* A slip: a file is released that is not open.
ReleaseTwice ==
    /\ open' = open - 1
    /\ UNCHANGED <<at, registered, orphans, late, loads, wild>>

Release ==
    /\ open > 0 /\ open' = open - 1
    /\ UNCHANGED <<at, registered, orphans, late, loads, wild>>

Init ==
    /\ at = "out" /\ stale = 0 /\ open = 0 /\ orphans = 0 /\ loads = 0
    /\ region = FALSE /\ cdev = FALSE /\ class = FALSE /\ node = FALSE
    /\ late = FALSE /\ wild = FALSE

mywdriver_init == register_chrdev_region \/ cdev_add \/ class_create \/ device_create

\* A slip: the number is given back before the device file is removed.
cleanupNodeLast ==
    \/ /\ at = "device_destroy" /\ at' = "class_unregister"
       /\ region' = FALSE
       /\ UNCHANGED <<cdev, class, node, others>>
    \/ class_unregister \/ class_destroy
    \/ /\ at = "unregister_chrdev_region" /\ at' = "cdev_del"
       /\ node' = FALSE
       /\ UNCHANGED <<region, cdev, class, others>>
    \/ cdev_del

mywdriver_cleanup ==
    device_destroy \/ class_unregister \/ class_destroy \/ unregister_chrdev_region \/ cdev_del

Next ==
    /\ ~wild
    /\ Load \/ mywdriver_init \/ Remove \/ mywdriver_cleanup \/ Open \/ OpenStale \/ Release

Spec == Init /\ [][Next]_vars

-----------------------------------------------------------------------------
TypeOK ==
    /\ at \in Inits \cup Exits \cup {"out", "in"}
    /\ {region, cdev, class, node, late, wild} \subseteq BOOLEAN
    /\ open \in 0 .. MaxOpen /\ {stale, orphans} \subseteq Nat
    /\ loads \in 0 .. MaxLoads

\* The device file is never there without the number and class it was made of.
NodeServed == node => region /\ class

\* A load that failed, at whichever call, leaves no number, class or device
\* file behind, and so does an unload; a later load starts from nothing.
GivenBack == at \in {"out", "register_chrdev_region"} => ~region /\ ~class /\ ~node /\ ~cdev

\* Unless a load failed after cdev_add, nothing leads to a module that is gone:
\* no entry of the map and no open file.
NothingStale == ~late => stale = 0 /\ orphans = 0

\* What is registered hangs together, at every call of init and cleanup.
ModuleInv == TypeOK /\ NodeServed /\ GivenBack /\ NothingStale
=============================================================================
