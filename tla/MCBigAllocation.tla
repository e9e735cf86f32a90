-------------------------- MODULE MCBigAllocation --------------------------
(* Instances of module BigAllocation for TLC. *)
EXTENDS BigAllocation, TLC

Perms == Permutations(Threads)
=============================================================================
