--------------------------- MODULE MCOrchestrator ---------------------------
(***************************************************************************)
(* Small instances of Orchestrator for TLC: the runs differ in the number  *)
(* of replicas and requests, the faults, and the patience of engineers.    *)
(***************************************************************************)
EXTENDS Orchestrator

CONSTANTS w1, w2, p1, p2, r1, r2, o1
=============================================================================
