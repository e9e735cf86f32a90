----------------------------- MODULE MCForkReset -----------------------------
(* Small instances of ForkReset for TLC. *)
EXTENDS ForkReset, TLC

Perms == Permutations(Threads)
=============================================================================
