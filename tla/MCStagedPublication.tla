------------------------ MODULE MCStagedPublication ------------------------
(* TLC instances of StagedPublication. *)
EXTENDS StagedPublication, TLC

\* Safety runs treat run tokens and target names as interchangeable.
Interchangeable == Permutations(Runs) \cup Permutations(Targets)
=============================================================================
