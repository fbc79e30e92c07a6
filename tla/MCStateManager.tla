--------------------------- MODULE MCStateManager ---------------------------
(***************************************************************************)
(* Small instances of StateManager for TLC: one server whose transactions  *)
(* all compete for one row.                                                *)
(***************************************************************************)
EXTENDS StateManager

CONSTANTS c1, c2

(* Enough targets for a chain of two forward moves, a refused move and     *)
(* both error states.                                                      *)
MCTargets == {"AGENT_INSTALLED", "REPLICATION_CONFIGURED", "FAILED", "FROZEN"}
=============================================================================
