------------------------------ MODULE MCRunLock ------------------------------
(* Instances of RunLock for TLC. *)
EXTENDS RunLock, TLC

Symmetry == Permutations(Proc)
=============================================================================
