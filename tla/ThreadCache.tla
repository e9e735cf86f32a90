----------------------------- MODULE ThreadCache -----------------------------
(***************************************************************************)
(* malloc, free and malloc_trim for one size class: the cache every thread *)
(* keeps (slab/thread_local.rs), its refill from the InterConnect cache or *)
(* from a fresh region (abi/malloc.rs, slab/bulk_allocation.rs), the       *)
(* release of blocks to either (abi/free.rs), and the trimmer, which       *)
(* borrows blocks of the pool to give their pages back (trim/gtrim.rs).    *)
(*                                                                         *)
(* The InterConnect cache is the pool module GlobalPool promises: a set    *)
(* from which somebody takes some blocks, or none when others are at it.   *)
(* A list of blocks is a sequence.  What a thread does between two         *)
(* operations on the pool concerns nobody else and is one step.            *)
(***************************************************************************)
EXTENDS Integers, Sequences, FiniteSetsExt

CONSTANTS Threads,         \* the threads of the program
          Trimmer,         \* the trim thread
          MaxRegions,      \* bound: regions the kernel grants
          ITERATIONS,      \* blocks of a region
          MaxInit,         \* blocks initialised at a time: max_init
          TLS_MAX_BLOCKS,  \* blocks above which a cache takes no more
          BATCH_MIN,       \* the least and
          BATCH_MAX,       \* the largest number of blocks of a refill
          TRIM_BATCH,      \* blocks the trimmer takes at a time (16)
          BootCalls,       \* calls before the trim thread starts (1024)
          MayTrim,         \* the threads that call malloc_trim
          MayExit          \* may a thread exit?

ASSUME ThreadCacheAssumption ==
    /\ Trimmer \notin Threads
    /\ MaxRegions \in Nat /\ ITERATIONS \in Nat \ {0} /\ MaxInit \in Nat \ {0}
    /\ TLS_MAX_BLOCKS \in Nat \ {0} /\ TRIM_BATCH \in Nat \ {0}
    /\ BATCH_MIN \in Nat \ {0} /\ BATCH_MAX \in Nat /\ BATCH_MIN <= BATCH_MAX
    /\ BootCalls \in Nat
    /\ MayTrim \subseteq Threads
    /\ MayExit \in BOOLEAN

VARIABLES regions,            \* regions mapped so far
          pool,               \* the blocks in the InterConnect cache
          hint,               \* BATCH_HINTS of this class
          TOTAL_MALLOC_FREE, THREAD_SPAWNED, HOT_READY,
          trimmers,           \* trim threads started
          live,               \* the blocks the program has
          bin,                \* bin[t]: list and usage of t's cache
          pending,            \* pending[t]: the region t has not used up
          pc,                 \* where thread t, or the trimmer, is
          loc                 \* its locals

boot == <<TOTAL_MALLOC_FREE, THREAD_SPAWNED, HOT_READY, trimmers>>
vars == <<regions, pool, hint, boot, live, bin, pending, pc, loc>>

Actors == Threads \cup {Trimmer}

Blocks == 1 .. MaxRegions * ITERATIONS

(* Region r holds the blocks after those of region r - 1; `next' counts    *)
(* the ones that have been initialised.                                    *)
RegionBlocks(m) == ((m.region - 1) * ITERATIONS + m.next + 1) .. (m.region * ITERATIONS)

NoRegion == [region |-> 0, next |-> ITERATIONS]

NoLoc == [tries |-> 0, rounds |-> 0, young |-> {}, old |-> {}]

Init ==
    /\ regions = 0 /\ pool = {} /\ hint = BATCH_MAX
    /\ TOTAL_MALLOC_FREE = 0 /\ THREAD_SPAWNED = FALSE /\ HOT_READY = FALSE
    /\ trimmers = 0
    /\ live = {}
    /\ bin = [t \in Threads |-> [list |-> <<>>, usage |-> 0]]
    /\ pending = [t \in Threads |-> NoRegion]
    /\ pc = [a \in Actors |-> "idle"]
    /\ loc = [a \in Actors |-> NoLoc]

Goto(a, l) == pc' = [pc EXCEPT ![a] = l]

-----------------------------------------------------------------------------
(* The lists of a thread. *)

push_to_thread_tailed(b, chain, n) ==
    [list |-> chain \o b.list, usage |-> b.usage + n]

pop_from_thread(b) == [list |-> Tail(b.list), usage |-> b.usage - 1]

remaining_blocks(m) == ITERATIONS - m.next

Count(m, max) == IF remaining_blocks(m) < max THEN remaining_blocks(m) ELSE max

(* The blocks of S as a list, in one fixed order. *)
ListOf(S) == CHOOSE f \in [1 .. Cardinality(S) -> S] : IsInjective(f)

(* init_blocks: the next blocks of a region, in one fixed order (the code's *)
(* follows the addresses, which nothing depends on), and the region without *)
(* them.                                                                    *)
Carved(m, max) ==
    ListOf({b \in RegionBlocks(m) :
                b <= (m.region - 1) * ITERATIONS + m.next + Count(m, max)})

Advanced(m, max) == [m EXCEPT !.next = m.next + Count(m, max)]

(* Mutant: the rest of the region is forgotten. *)
Kept_Dropped(m) == NoRegion

Kept(m) == IF remaining_blocks(m) > 0 THEN m ELSE NoRegion

(* Mutant: the hint is not clamped. *)
bump_batch_hint_Unclamped(up) == hint' = IF up THEN hint + 1 ELSE hint - 2

bump_batch_hint(up) ==
    hint' = IF up THEN (IF hint < BATCH_MAX THEN hint + 1 ELSE BATCH_MAX)
            ELSE (IF hint - 2 < BATCH_MIN THEN BATCH_MIN ELSE hint - 2)

-----------------------------------------------------------------------------
(* The pool. *)

Others(a) == \E u \in Actors \ {a} : pc[u] \notin {"idle", "dead"}

(* What pop_from_global may return: the shard of the CPU, or of another,   *)
(* gives up to n blocks; null when all are empty or in others' hands.      *)
pop_from_global(a, n) ==
    {S \in SUBSET pool : Cardinality(S) <= n /\ (S = {} => pool = {} \/ Others(a))}

-----------------------------------------------------------------------------
(* malloc. *)

Returns(t, b) ==
    /\ live' = live \cup {b}
    /\ Goto(t, "idle")
    /\ loc' = [loc EXCEPT ![t] = NoLoc]

(* allocate_boot_segment counts the calls until it is time to start the    *)
(* trim thread; allocate_hot does not.                                     *)
Malloc(t) ==
    /\ pc[t] = "idle"
    /\ \/ /\ HOT_READY
          /\ Goto(t, "pop")
          /\ UNCHANGED <<TOTAL_MALLOC_FREE, THREAD_SPAWNED>>
       \/ /\ ~HOT_READY /\ TOTAL_MALLOC_FREE < BootCalls
          /\ TOTAL_MALLOC_FREE' = TOTAL_MALLOC_FREE + 1
          /\ Goto(t, "pop")
          /\ UNCHANGED THREAD_SPAWNED
       \/ /\ ~HOT_READY /\ TOTAL_MALLOC_FREE >= BootCalls
          /\ THREAD_SPAWNED' = TRUE
          /\ Goto(t, IF THREAD_SPAWNED THEN "pop" ELSE "spawn")
          /\ UNCHANGED TOTAL_MALLOC_FREE
    /\ UNCHANGED <<regions, pool, hint, HOT_READY, trimmers, live, bin, pending, loc>>

Spawn(t) ==
    /\ pc[t] = "spawn"
    /\ THREAD_SPAWNED' = TRUE /\ HOT_READY' = TRUE
    /\ trimmers' = trimmers + 1
    /\ Goto(t, "pop")
    /\ UNCHANGED <<regions, pool, hint, TOTAL_MALLOC_FREE, live, bin, pending, loc>>

Hit(t) ==
    /\ pc[t] = "pop" /\ bin[t].list # <<>>
    /\ bin' = [bin EXCEPT ![t] = pop_from_thread(@)]
    /\ Returns(t, Head(bin[t].list))
    /\ UNCHANGED <<regions, pool, hint, boot, pending>>

Miss(t) ==
    /\ pc[t] = "pop" /\ bin[t].list = <<>>
    /\ Goto(t, "global")
    /\ UNCHANGED <<regions, pool, hint, boot, live, bin, pending, loc>>

(* try_fill from the pool; the batch hint is read and bumped with it. *)
Refill(t) ==
    /\ pc[t] = "global"
    /\ \E S \in pop_from_global(t, hint) \ {{}} :
          /\ pool' = pool \ S
          /\ bin' = [bin EXCEPT ![t] = pop_from_thread(
                       push_to_thread_tailed(@, ListOf(S), Cardinality(S)))]
          /\ Returns(t, ListOf(S)[1])
          /\ bump_batch_hint(Cardinality(S) = hint)
    /\ UNCHANGED <<regions, boot, pending>>

RefillMiss(t) ==
    /\ pc[t] = "global" /\ {} \in pop_from_global(t, hint)
    /\ bump_batch_hint(FALSE)
    /\ Goto(t, "fill")
    /\ UNCHANGED <<regions, pool, boot, live, bin, pending, loc>>

(* bulk_fill from the region the thread has begun ... *)
FillPending(t) ==
    /\ pc[t] = "fill" /\ remaining_blocks(pending[t]) > 0
    /\ LET m == pending[t]
       IN  /\ bin' = [bin EXCEPT ![t] =
                         push_to_thread_tailed(@, Carved(m, MaxInit), Count(m, MaxInit))]
           /\ pending' = [pending EXCEPT ![t] = Kept(Advanced(m, MaxInit))]
    /\ Goto(t, "take")
    /\ UNCHANGED <<regions, pool, hint, boot, live, loc>>

(* ... or from a new one; a cache that is full passes the blocks on. *)
FillRegion(t) ==
    /\ pc[t] = "fill" /\ remaining_blocks(pending[t]) = 0
    /\ regions < MaxRegions
    /\ regions' = regions + 1
    /\ LET m == [region |-> regions + 1, next |-> 0]
       IN  /\ IF bin[t].usage >= TLS_MAX_BLOCKS
                THEN /\ pool' = pool \cup Range(Carved(m, MaxInit))
                     /\ UNCHANGED bin
                ELSE /\ bin' = [bin EXCEPT ![t] = push_to_thread_tailed(
                                  @, Carved(m, MaxInit), Count(m, MaxInit))]
                     /\ UNCHANGED pool
           /\ pending' = [pending EXCEPT ![t] = Kept(Advanced(m, MaxInit))]
    /\ Goto(t, "take")
    /\ UNCHANGED <<hint, boot, live, loc>>

(* The kernel refuses the region: two more attempts, then null. *)
FillFail(t) ==
    /\ pc[t] = "fill" /\ remaining_blocks(pending[t]) = 0
    /\ IF loc[t].tries < 2
         THEN loc' = [loc EXCEPT ![t].tries = @ + 1] /\ UNCHANGED pc
         ELSE loc' = [loc EXCEPT ![t] = NoLoc] /\ Goto(t, "idle")
    /\ UNCHANGED <<regions, pool, hint, boot, live, bin, pending>>

Take(t) ==
    /\ pc[t] = "take"
    /\ bump_batch_hint(TRUE)
    /\ IF bin[t].list = <<>>
         THEN /\ Goto(t, "idle")
              /\ loc' = [loc EXCEPT ![t] = NoLoc]
              /\ UNCHANGED <<bin, live>>
         ELSE /\ bin' = [bin EXCEPT ![t] = pop_from_thread(@)]
              /\ Returns(t, Head(bin[t].list))
    /\ UNCHANGED <<regions, pool, boot, pending>>

-----------------------------------------------------------------------------
(* free, by any thread, of a block any thread allocated. *)

(* free counts itself as long as the hot path is off.  The count is only   *)
(* ever compared with BootCalls, so BootCalls stands for all counts from   *)
(* there on; it is no bound of the counter of the code.                    *)
BootCount ==
    TOTAL_MALLOC_FREE' = IF HOT_READY \/ TOTAL_MALLOC_FREE >= BootCalls
                           THEN TOTAL_MALLOC_FREE ELSE TOTAL_MALLOC_FREE + 1

(* Mutant: the cap of the cache is not looked at. *)
Free_Uncapped(t) ==
    /\ pc[t] = "idle"
    /\ \E b \in live :
          /\ live' = live \ {b}
          /\ bin' = [bin EXCEPT ![t] = push_to_thread_tailed(@, <<b>>, 1)]
    /\ BootCount
    /\ UNCHANGED <<regions, pool, hint, THREAD_SPAWNED, HOT_READY, trimmers,
                   pending, pc, loc>>

Free(t) ==
    /\ pc[t] = "idle"
    /\ \E b \in live :
          /\ live' = live \ {b}
          /\ IF bin[t].usage >= TLS_MAX_BLOCKS
               THEN pool' = pool \cup {b} /\ UNCHANGED bin
               ELSE /\ bin' = [bin EXCEPT ![t] = push_to_thread_tailed(@, <<b>>, 1)]
                    /\ UNCHANGED pool
    /\ BootCount
    /\ UNCHANGED <<regions, hint, THREAD_SPAWNED, HOT_READY, trimmers, pending, pc, loc>>

(* A thread ends.  Its cache has a destructor nobody registers: a static   *)
(* with the thread_local attribute is not dropped.                         *)
Exit(t) ==
    /\ MayExit /\ pc[t] = "idle"
    /\ Goto(t, "dead")
    /\ UNCHANGED <<regions, pool, hint, boot, live, bin, pending, loc>>

-----------------------------------------------------------------------------
(* GTrim::trim, by the trim thread or in malloc_trim. *)

Trimming(a) == IF a = Trimmer THEN trimmers > 0 ELSE a \in MayTrim

TrimStart(a) ==
    /\ Trimming(a) /\ pc[a] = "idle"
    /\ loc' = [loc EXCEPT ![a].rounds = Cardinality(pool) \div TRIM_BATCH]
    /\ Goto(a, "trim")
    /\ UNCHANGED <<regions, pool, hint, boot, live, bin, pending>>

(* Mutant: the batch stays in the pool while it is looked at. *)
TrimPop_Peek(a) ==
    /\ pc[a] = "trim" /\ loc[a].rounds > 0 /\ loc[a].young = {}
    /\ \E S \in pop_from_global(a, TRIM_BATCH) : \E old \in SUBSET S :
          loc' = [loc EXCEPT ![a].rounds = IF S = {} THEN 0 ELSE @ - 1,
                             ![a].young = S \ old,
                             ![a].old = @ \cup old]
    /\ UNCHANGED <<regions, pool, hint, boot, live, bin, pending, pc>>

(* A batch is split into blocks free for long, to be released, and young   *)
(* ones, to be pushed back.                                                *)
TrimPop(a) ==
    /\ pc[a] = "trim" /\ loc[a].rounds > 0 /\ loc[a].young = {}
    /\ \E S \in pop_from_global(a, TRIM_BATCH) : \E old \in SUBSET S :
          /\ pool' = pool \ S
          /\ loc' = [loc EXCEPT ![a].rounds = IF S = {} THEN 0 ELSE @ - 1,
                                ![a].young = S \ old,
                                ![a].old = @ \cup old]
    /\ UNCHANGED <<regions, hint, boot, live, bin, pending, pc>>

TrimPush(a) ==
    /\ pc[a] = "trim" /\ loc[a].young # {}
    /\ pool' = pool \cup loc[a].young
    /\ loc' = [loc EXCEPT ![a].young = {}]
    /\ UNCHANGED <<regions, hint, boot, live, bin, pending, pc>>

(* release_memory and push, one block at a time. *)
TrimRelease(a) ==
    /\ pc[a] = "trim" /\ loc[a].rounds = 0 /\ loc[a].young = {}
    /\ \E b \in loc[a].old :
          /\ pool' = pool \cup {b}
          /\ loc' = [loc EXCEPT ![a].old = @ \ {b}]
    /\ UNCHANGED <<regions, hint, boot, live, bin, pending, pc>>

TrimEnd(a) ==
    /\ pc[a] = "trim" /\ loc[a] = NoLoc
    /\ Goto(a, "idle")
    /\ UNCHANGED <<regions, pool, hint, boot, live, bin, pending, loc>>

-----------------------------------------------------------------------------
Next ==
    \/ \E t \in Threads :
          \/ Malloc(t) \/ Spawn(t) \/ Hit(t) \/ Miss(t) \/ Refill(t) \/ RefillMiss(t)
          \/ FillPending(t) \/ FillRegion(t) \/ FillFail(t) \/ Take(t)
          \/ Free(t) \/ Exit(t)
    \/ \E a \in Actors :
          TrimStart(a) \/ TrimPop(a) \/ TrimPush(a) \/ TrimRelease(a) \/ TrimEnd(a)

Spec == Init /\ [][Next]_vars

-----------------------------------------------------------------------------
(* Properties. *)

(* The type invariant: the batch hint stays within its limits, which is    *)
(* what a refill counts on.                                                *)
TypeOK ==
    /\ regions \in 0 .. MaxRegions /\ pool \subseteq Blocks
    /\ hint \in BATCH_MIN .. BATCH_MAX
    /\ TOTAL_MALLOC_FREE \in 0 .. BootCalls
    /\ THREAD_SPAWNED \in BOOLEAN /\ HOT_READY \in BOOLEAN /\ trimmers \in 0 .. 1
    /\ live \subseteq Blocks
    /\ \A t \in Threads : /\ Range(bin[t].list) \subseteq Blocks
                          /\ bin[t].usage \in Nat
                          /\ pending[t].region \in 0 .. regions
    /\ \A a \in Actors : loc[a].young \cup loc[a].old \subseteq Blocks

(* Where a block can be. *)
Cached(t) == Range(bin[t].list)

Borrowed(a) == loc[a].young \cup loc[a].old

Uncarved(t) == IF pending[t].region = 0 THEN {} ELSE RegionBlocks(pending[t])

(* No block is in two places: neither twice in a cache, nor free and with  *)
(* the program, nor in the trimmer's hands (which wipes its pages) and     *)
(* anywhere else.                                                          *)
NoBlockTwice ==
    /\ \A t \in Threads : IsInjective(bin[t].list)
    /\ \A t, u \in Threads :
          /\ t # u => (Cached(t) \cup Uncarved(t)) \cap (Cached(u) \cup Uncarved(u)) = {}
          /\ Cached(t) \cap Uncarved(t) = {}
          /\ (Cached(t) \cup Uncarved(t)) \cap (pool \cup live) = {}
          /\ \A a \in Actors : Borrowed(a) \cap (Cached(t) \cup Uncarved(t)) = {}
    /\ pool \cap live = {}
    /\ \A a, c \in Actors : /\ Borrowed(a) \cap (pool \cup live) = {}
                            /\ loc[a].young \cap loc[a].old = {}
                            /\ a # c => Borrowed(a) \cap Borrowed(c) = {}

(* No block is lost: every block of every mapped region is with the        *)
(* program, in a cache, in the pool, in the trimmer's hands or still to be *)
(* initialised by the thread that mapped the region.                       *)
NoBlockLost ==
    1 .. regions * ITERATIONS \subseteq
        live \cup pool \cup (UNION {Cached(t) \cup Uncarved(t) : t \in Threads})
             \cup (UNION {Borrowed(a) : a \in Actors})

(* The usage counter of a cache, which decides where a freed block goes,   *)
(* is the length of its list after every refill, malloc and free; and a    *)
(* cache stays small however long the program runs: it exceeds the cap     *)
(* only by one refill.                                                     *)
UsageBounded ==
    \A t \in Threads :
        /\ bin[t].usage = Len(bin[t].list)
        /\ bin[t].usage <= Max({TLS_MAX_BLOCKS, BATCH_MAX, MaxInit})
==============================================================================
