-------------------------- MODULE MCBatchingMetrics --------------------------
(***************************************************************************)
(* The instances of MCBatchingSystem with the metrics.                     *)
(***************************************************************************)
EXTENDS MCBatchingSystem, BatchingMetrics

=============================================================================
