---------------------------- MODULE MCThreadCache ----------------------------
(* Instances of module ThreadCache for TLC. *)
EXTENDS ThreadCache, TLC

Perms == Permutations(Threads)
==============================================================================
