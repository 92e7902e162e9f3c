------------------------- MODULE MCExecutionAuthority -------------------------
(* ExecutionAuthority for TLC: processes and directories are interchangeable. *)
EXTENDS ExecutionAuthority, TLC

Symmetry == Permutations(Procs)
==============================================================================
