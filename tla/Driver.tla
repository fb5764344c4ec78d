------------------------------- MODULE Driver -------------------------------
(***************************************************************************)
(* The models of EXP3-Device_Driver together: the driver's calls and the   *)
(* test program that makes them (TestDriver), and the loading and the      *)
(* unloading of the module (DriverModule), which share no state: a program *)
(* that has the device open keeps the module loaded.                       *)
(***************************************************************************)
EXTENDS TestDriver

CONSTANTS MaxOpen, MaxLoads  \* bounds: files open at once, loads

ASSUME BoundAssumption == MaxOpen \in Nat /\ MaxLoads \in Nat

VARIABLES at, region, cdev, stale, class, node, open, orphans, late, loads, mwild

Module == INSTANCE DriverModule WITH wild <- mwild

modulevars == <<at, region, cdev, stale, class, node, open, orphans, late, loads, mwild>>

\* No device file without number and class, nothing left behind by a failed load
\* or an unload, and - unless a load failed late - nothing that leads to a
\* module that is gone.
ModuleInv == Module!ModuleInv
=============================================================================
