----------------------------- MODULE GlobalPool -----------------------------
(***************************************************************************)
(* What the InterConnect cache promises the thread caches: a pool of free  *)
(* blocks of one size class.  A thread puts blocks it owns into the pool   *)
(* and takes blocks nobody owns out of it, so no block ever has two        *)
(* owners.  Nothing is said of the order or of the number taken.  Module   *)
(* Interconnect implements this one.                                       *)
(***************************************************************************)
CONSTANTS Threads,  \* the threads of the program
          Blocks    \* the blocks of one size class

VARIABLE own        \* own[t]: the free blocks thread t has to itself

Pooled == Blocks \ UNION {own[t] : t \in Threads}

Init ==
    \E owner \in [Blocks -> Threads] :
        own = [t \in Threads |-> {b \in Blocks : owner[b] = t}]

Put(t, S) ==
    /\ S \subseteq own[t]
    /\ own' = [own EXCEPT ![t] = @ \ S]

Take(t, S) ==
    /\ S \subseteq Pooled
    /\ own' = [own EXCEPT ![t] = @ \cup S]

Next == \E t \in Threads, S \in (SUBSET Blocks) \ {{}} : Put(t, S) \/ Take(t, S)

Spec == Init /\ [][Next]_own
=============================================================================
