------------------------------ MODULE MCSegment ------------------------------
(* Small instances of Segment for TLC. *)
EXTENDS Segment, TLC

Perms == Permutations(Threads)
=============================================================================
