---------------------------- MODULE MCMonitoring ----------------------------
(* The monitoring loop with interchangeable runs. *)
EXTENDS Monitoring, TLC

RunSymmetry == Permutations(Runs)
=============================================================================
