--------------------------- MODULE MCInterconnect ---------------------------
(* Instances of module Interconnect for TLC. *)
EXTENDS Interconnect, TLC

Perms == Permutations(Threads) \cup Permutations(Blocks)
=============================================================================
