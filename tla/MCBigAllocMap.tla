--------------------------- MODULE MCBigAllocMap ---------------------------
(* Instances of module BigAllocMap for TLC. *)
EXTENDS BigAllocMap, TLC

(* Keys that collide, keys that follow one another, keys that wrap around  *)
(* a table of 4 slots and part ways in one of 8.                           *)
MCHashes == [Keys -> {0, 3, 4}]

Perms == Permutations(Threads) \cup Permutations(Keys) \cup Permutations(Metas)
=============================================================================
