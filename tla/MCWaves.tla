------------------------------ MODULE MCWaves -------------------------------
(***************************************************************************)
(* Small instances of Waves for TLC: two servers of which one may go ahead *)
(* of the other, in one stage, and one server in every stage.              *)
(***************************************************************************)
EXTENDS Waves, TLC

CONSTANTS r1, r2, c1, c2

StageOneOperations == ReplicationWaves \cup {BulkRegister, BulkStart}
StageOneStates     == {NotRegistered, "PENDING", "AGENT_INSTALLED",
                       "AWAITING_REPLICATION_APPROVAL"}

EveryOperation == AllOperations
EveryStart     == {op.at : op \in AllWaves} \cup {NotRegistered, "PENDING"}

\* Nothing tells the requests apart, nor the configurations.
Symmetry == Permutations({r1, r2}) \cup Permutations({c1, c2})
=============================================================================
