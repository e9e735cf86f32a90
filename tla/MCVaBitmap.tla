----------------------------- MODULE MCVaBitmap -----------------------------
(* Instances of module VaBitmap for TLC. *)
EXTENDS VaBitmap, TLC

Perms == Permutations(Threads)
=============================================================================
