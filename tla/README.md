# Oxidalloc in TLA+

Oxidalloc is a `malloc` replacement in Rust, loaded with `LD_PRELOAD` (`src/`, crate under
`src/src/`). This directory holds TLA+ models of its parts, TLC runs over small
instances, and TLAPS proofs for instances of any size. Every module is written from the code;
`PROJECT.json` maps each definition to the lines it stands for.

## The system

| Part | Code | Module | State of the model |
|---|---|---|---|
| Pages of one segment of address space: two bitmaps, `map` and `claim`, changed without a lock | `va/bitmap.rs`, `impl Segment` | `Segment`, promise `PageAllocator` | modelled, proved |
| The list of segments, the radix tree, reservation from the kernel, the lock of `grow` | `va/bitmap.rs`, `VaBitmap`, `RadixTree`; `internals/once.rs` | `VaBitmap` | modelled, proved |
| InterConnect cache: per CPU a lock-free stack of free blocks | `slab/interconnect.rs` | `Interconnect`, promise `GlobalPool` | modelled, without the hardened build and `get_size`; proved |
| Thread caches, refill, fresh regions, free, boot path | `slab/thread_local.rs`, `slab/bulk_allocation.rs`, `abi/malloc.rs`, `abi/free.rs` | `ThreadCache` | modelled for one size class, proved |
| Trimming | `trim/` | `ThreadCache`, `Abi`, `ForkReset` | the movement of blocks, the pages given back, the trim thread; not the decay policy |
| Table of big allocations | `internals/hashmap.rs`, `internals/lock.rs` | `BigAllocMap`, promise `MetaMap` | modelled, proved |
| Big allocations: malloc, free, realloc, usable size | `big_allocation.rs`, `abi/realloc.rs` | `BigAllocation` | modelled, proved |
| The C interface: malloc, calloc, realloc, reallocarray, aligned calls, free, usable size | `abi/`, `big_allocation.rs`, `slab/bulk_allocation.rs` | `Abi` | modelled, on the bytes of memory; proved |
| Size classes, look-up table, layout of a region | `slab/mod.rs`, `slab/bulk_allocation.rs` | `SizeClass` | modelled, proved |
| Locks, once guards, lazy values, bootstrap, fork handlers | `internals/lock.rs`, `internals/once.rs`, `internals/oncelock.rs`, `va/bootstrap.rs`, `abi/fallback.rs` | `ForkReset` | modelled, proved |
| Libc functions, system call wrappers, random numbers, quarantine | `abi/fallback.rs`, `sys/`, `va/rng.rs`, `slab/quarantine.rs` | none | left out: foreign calls, assembly, arbitrary choices in the models, dead code |

A small `malloc` takes a block from the cache of its thread (`ThreadCache`). An empty cache is
refilled from the InterConnect cache (`Interconnect`), and failing that from a fresh region of
pages, which `VaBitmap` finds in one of its segments (`Segment`). A large `malloc` goes to
`VaBitmap` directly and records its size in the table (`BigAllocation` over `BigAllocMap`).
`free` goes the other way; the trimmer borrows blocks of the InterConnect cache to give their
pages back to the kernel.

The upper modules use the lower ones through what those promise. `BigAllocation` treats a call
of the VA bitmap and of the table as one step, as `PageAllocator` and `MetaMap` allow;
`ThreadCache` treats the InterConnect cache as the pool of `GlobalPool`. That `Segment`,
`BigAllocMap` and `Interconnect` implement these promises is checked by refinement and proved,
so the composition rests on the conditions under which the refinements hold (below, *Timely*).
`Abi` looks at the same calls from the other side: one call after the other, but with the sizes,
headers, tags and page arithmetic of the code, which the concurrent models leave out.

## How the models correspond to the code

* **Segment.** A bitmap is the set of its one bits. Each atomic load, compare-exchange,
  `fetch_or` and `fetch_and` of a bitmap word is one action; local work belongs to the action
  before it. `ClaimLoad`, `ClaimCheck`, `ClaimCasOk`/`ClaimCasFail`, `Publish`, `Release` and
  `RollbackClaim` are `try_claim`; `LoadWord` and `PickBit` are `alloc_single`; `ScanMulti`,
  `EndPass` and `CarryOver` are `alloc_multi`; `ClearBit` is `rollback`. `held` is a history
  variable: the runs the callers own. The random offset is any value.
* **VaBitmap.** Segments are a function from start addresses, `radix` maps chunks to segments.
  `grow` is one action per step others can see, from `Lock` to the two releases of the lock,
  `Unlock` (by hand) and `DropGuard` (by the guard). Each segment has its own bitmap, of which a
  run of free pages is taken, given back or resized in one step, as `PageAllocator` allows; the
  full mark and the counter of failures are read and written access by access (`WalkLoad`,
  `WalkCount`, `WalkMark` in `alloc`; `LoadFull`, `Forgive`, `Unmark` in `free`).
* **Interconnect.** The head of a shard is a block and a tag modulo `TagMod` (16 in the code).
  Each access to shared memory is one action. `stack` and `own` are history variables.
  `Relink` is the owner of free blocks writing links that a stale walk may still read. `calm`
  is a history variable too: the pop, if any, that began alone and saw no push begin since.
* **ThreadCache.** Blocks are numbers, a cache is a sequence with a counter, the rest of a
  begun region is `pending`. Blocks that arrive together are chained in one fixed order, since
  no step depends on which of them comes first. Which blocks the trimmer finds old is any choice.
* **BigAllocMap.** With the lock held, each probe loop is one step (`insert`, `get`, `remove`)
  and `grow` goes from slot to slot (`ensure_capacity`, then `Move` for each slot of the old
  table, then `Swap`); taking and dropping the lock are steps too. `hash_key` is any function of
  a given set, and the mask `cap - 1` is a remainder. `Fork` is seen from the child: the other
  threads vanish, memory stays.
* **BigAllocation.** Pages have a protection, a header magic and a mark in the VA bitmap, which
  `big_malloc`, `big_free` and `realloc` change in the order of the code. `mprotect`, `mmap`
  and `madvise` may fail where the code handles failure. Touching an inaccessible page, or a
  failed validation, is death.
* **SizeClass.** The tables are those of the code. `SIZE_LUT` is built as the `const` block of
  the code builds it, and `match_size_class` uses it or the slow path as the code does.
* **Abi.** `mem` is the memory as the calls see it: pages marked in the VA bitmap, headers with
  class and magic, the table of big blocks, alignment tags. A call within a call is an operator
  from a memory to the set of memories it may leave; an exported call is an action. `realloc`
  follows the code through `Resize`, `Relabel`, `ShrinkInPlace`, `GrowInPlace`/`GrowFailed` and
  `Move`. System calls fail at will where the code handles it. `ptrs` holds the program's
  pointers with the size and alignment asked for, `copy` and `wiped` record what the last call
  copied and zeroed. A pointer is good or bad by what `free`, `realloc` and
  `malloc_usable_size` would compute from the bytes before it.
* **ForkReset.** A call is the sequence of guards and locks it passes (`Code`), each an
  instruction; `once`, `lock` and the flags of the trim thread are the code's, `inside` is a
  history variable. `grow` releases its lock by hand (`Unlock`) and once more by its guard (`Drop`).
  The count of calls is read (`Count`), added to (`Add`) and acted upon (`Claim`) in steps of
  their own, modulo the word. `fork_child` is seen from the child: other threads vanish with their guards
  and locks, then the handlers run if they were registered when the fork began. The process goes
  on as parent or as child, either being possible. A fork is made between calls, by any thread
  of the program, as `pthread_atfork` has it.

Memory is sequentially consistent in all models; the orderings of the atomics are not modelled.

## The runs

`tlc -config X.cfg M` in this directory repeats each of them.

| Run | Module, config | Result | What it shows |
|---|---|---|---|
| `segment` | `MCSegment`, `Segment_timely.cfg` | holds | Claims exclude each other (`ClaimExclusive`) and are all given up (`ClaimAccounted`); no page is lost or looks free while in use (`MapAccounted`); the segment implements `PageAllocator`; calls are lock-free (`LockFree`). Timely schedules. |
| `segment_search` | `MCSegment`, `Segment_search.cfg` | holds | An undisturbed search returns None only if there is no free run, from every starting point (`NoneOnlyWhenFull`). |
| `segment_straddle` | `MCSegment`, `Segment_straddle.cfg` | violated | Without the restriction two threads own one page (`HeldDisjoint`). |
| `va_grow` | `MCVaBitmap`, `VaBitmap_grow.cfg` | holds | Addresses handed out are recognised by `is_ours` (`HandedOutIsOurs`), runs are disjoint, though each segment knows only its own bitmap (`RunsDisjoint`), no bit is set behind a segment's end (`TypeOK`), no segment falls off the list (`SegmentsListed`). Timely schedules. |
| `icc_shards` | `MCInterconnect`, `Interconnect_shards.cfg` | holds | Lists stay intact (`WellLinked`), counters are off only by calls in progress (`UsageAccounted`), a pop that nobody pushes beside reports nothing only when every shard is empty (`NullOnlyWhenEmpty`), the shards implement `GlobalPool`. Timely schedules. |
| `bigmap_refine` | `MCBigAllocMap`, `BigAllocMap_refine.cfg` | holds | Counters are exact, the load factor is kept and the "table full" abort unreachable (`NeverFull`), and the table implements `MetaMap`, with a fork at any point. |
| `big_blocks` | `MCBigAllocation`, `BigAllocation_blocks.cfg` | holds | Every block of the program stays accessible and registered (`LiveUsable`), no call aborts or faults (`NobodyDies`), no page leaks (`NothingLeaks`), whichever system calls fail. |
| `cache` | `MCThreadCache`, `ThreadCache_blocks.cfg` | holds | No block is in two places (`NoBlockTwice`) or lost (`NoBlockLost`), counters are exact and caches stay small (`UsageBounded`). |
| `abi` | `MCAbi`, `Abi_calls.cfg` | holds | Whatever is called and whatever fails: blocks do not overlap (`BlocksDisjoint`); every pointer is accepted by `free`, aligned, as large as asked for and on pages of its own (`PointersGood`); a moving `realloc` copies enough and not too much (`CopyFits`); pages are lost only where a growth in place is refused (`PagesAccounted`), no byte in use is zeroed (`DataKept`) and no call aborts (`TypeOK`). Without the two resizings of *Within*. |
| `abi_growth` | `MCAbi`, `Abi_growth.cfg` | violated | Without that restriction, a slab block that grows in place into a big one reaches beyond its pages (`GrowthHasRoom`). |
| `fork` | `MCForkReset`, `ForkReset_timely.cfg` | holds | Nobody waits for a thread that is gone (`NoOrphan`), or for itself (`NoSelfWait`), once guards and the table's lock exclude (`OneInside`), a guard that is done has done its work (`DoneMeansBuilt`), `MAGIC` is not drawn again (`MagicStable`), there is one trim thread, and it comes back after a fork (`TrimmerMatches`, `TrimmerComes`), and calls come to an end (`Progress`). Timely forks. |
| `fork_orphan` | `MCForkReset`, `ForkReset_orphan.cfg` | violated | A fork while another thread is inside `boot_strap` leaves a guard in the child that nobody will finish. |

Each property of a run that holds has a mutant of the code in its module (operators marked
`Mutant:`), with which TLC finds it violated.

Six more configurations show, as counterexamples, why `va_grow`, `icc_shards`, `big_blocks`, `fork`
and `abi` are restricted, or stated, as they are:

* `VaBitmap_race.cfg` (`MCVaBitmap`, violates `HandedOutIsOurs`): the double release of the lock
  of `grow` lets two threads grow at once; `is_ours` then denies an address `alloc` returned.
* `Interconnect_tag.cfg` (`MCInterconnect`, violates `NoBlockTwice`): with the 4 tag bits of the
  code the tag comes round during a pop, and a block gets two owners.
* `BigAllocation_thp.cfg` (`MCBigAllocation`, violates `LiveUsable`): with `OX_FORCE_THP`, a block
  resized in place is freed with too large a size and takes pages of its neighbour.
* `BigAllocMap_fork.cfg` (`MCBigAllocMap`, violates `OperationsReturn`): a fork while another
  thread is in the table of big blocks leaves its lock taken in the child for ever.
* `Abi_leak.cfg` (`MCAbi`, violates `NoPageLost`): a slab block is to grow in place, `mprotect`
  refuses the new pages, and the code does not give them back, since they do not begin where it
  looks for them (`abi/realloc.rs:226-231`).
* `Abi_empty.cfg` (`MCAbi`, violates `CopyFits`): `malloc(0)`, `realloc` to 1400 in place, `realloc`
  to something larger: the second `realloc` moves the block and copies none of the 1400 bytes.

### Timely and Within

Four parts keep their promises only while a thread is not delayed, or a process not forked, at
one particular point. Each module states that condition as `Timely` or `NoDropPending`, and its
`TimelySpec` leaves out exactly the schedules that break it; the runs show the promise under
`TimelySpec`, and violated runs and the configurations above the break under `Spec`.

* `Segment`: nobody drops the claim of a page between another thread's check of the map word
  and its exchange on the claim word. (The exchange compares the claim word only.)
* `Interconnect`: the tag of a head does not come round to the value a thread in the middle of
  a pop has read.
* `VaBitmap`: nobody takes the lock between a thread's two releases of it.
* `ForkReset`: when the child is made, the other threads are inside nothing but guards and locks
  that `fork_child` resets, and outside `boot_strap`. What this leaves out: a fork inside
  `boot_strap` before the handlers are registered, when nothing is reset; inside it afterwards,
  when the child runs `boot_strap` again, registers the handlers again, and its next fork takes
  a mutex twice; inside the initialisation of the InterConnect cache or the table of big blocks,
  whose guard and lock are not reset. The parent of such a fork is not restricted.

`Abi` has `WithinSpec`, which leaves out two resizings in place by `realloc`, and nothing else:

* `Overgrown`: of a slab block that has a region of its own, into a big block (`abi_growth`).
* `StaysEmpty`: of the big block that `malloc(0)` returns, to less than its page. The pointer comes
  back unchanged, with a recorded capacity of 0 (`abi/realloc.rs:154-189`); `malloc_usable_size`
  is then below what was asked for, and a later move copies nothing (`Abi_empty.cfg`).

So `PointersGood` and `CopyFits` are *not* true of every sequence of calls, and the run and the
theorems do not say so: they say that these two steps are the only ways to break them. Moves
between classes and big sizes, growths of big blocks in place, growths that fail, and the
resizing of an empty block to a page or more are all part of `WithinSpec`.

### Bounds, and why they are enough

* `segment`: 2 threads, 3 pages in words of 2, requests up to 3 pages: runs that cross words,
  a partial last word, claims that meet half way and are rolled back. One run per thread, which
  may be handed to the other. `segment_search`: 1 thread, 7 pages in words of 3, every starting
  page, up to 7 runs at once, so that every pattern of free pages occurs. Spurious failures of
  the weak exchange are on in `segment_straddle` only: under fairness of the threads alone they
  could go on for ever, which no machine does.
* `va_grow`: 7 pages of address space in chunks of 2, segments of up to 4 pages that start
  anywhere: shared chunks, collisions, neighbouring segments. Up to three runs of 1 or 4 pages, so
  that a run can be resized to the whole of a segment. The counter of failures has 4 values instead
  of 256, so that it runs below zero and comes round. `VaBitmap_race.cfg` needs
  four runs of two pages.
* `icc_shards`: 2 threads, 2 blocks, 2 shards, batches up to 2, tags modulo 3.
  `Interconnect_tag.cfg` has the 16 tags of the code.
* `bigmap_refine`: 2 threads, 2 keys, first table of 2 slots, up to 8; the hash values 0, 3 and
  4 collide, wrap around and part when the table grows.
* `big_blocks`: 4 pages and sizes of one to three of them, so that blocks touch, grow into
  freed neighbours and fail to.
* `cache`: 2 regions of 2 blocks, caches of 1, refills up to 2, both threads also trimming.
* `abi`: 4 pages, up to 3 blocks, and six sizes: 0; one whose class shares a region (1400); one
  with a region of its own (4096, twice which is the next class, so that `reallocarray` lets it grow
  in place); two big ones (10232 takes three pages with its header, 16368 exactly four, so that
  a big block grows and shrinks in place); and one near the end of the word (65500), so that sums
  and products wrap round.
  Words have 16 bits, the largest request is 20000 instead of 3 GiB, and the classes end at 8192,
  the 24th of 34; sizes, headers, tags and pages are the code's.
* `fork`: 2 threads beside the trim thread, 2 forks, so that a child forks again; the trim
  thread is started after 1 call instead of 1024, and the count of calls wraps round at 2 instead
  of 2^64. Calls are `malloc`, `free` and the `free` of a
  big block, which between them pass every kind of guard; the proofs are for all seven calls.

Symmetry is used for threads, blocks, keys and metadata, which the models only compare; not in
`segment` and `fork`, which check liveness.

`cache` and the runs of `VaBitmap` do not check deadlock: threads may all have exited, and the
process stops when it runs out of address space.

### Fairness

`LockFree`, `Progress`, `TrimmerComes` and `OperationsReturn` assume weak fairness of each thread inside a call: the
scheduler does not leave a runnable thread out for ever. Nothing is assumed of callers. In
`LockFree` the timely condition can hold a release back only while another thread is about to
do its exchange, which that thread's own fairness brings about. `LockFree` is what the retry
loops give: of the threads in calls one comes out, not each. `Progress` is the same for the spinning on
guards and locks, which are not fair either. A thread that forks counts as inside a call; the
timely condition may hold back the child, never the parent.

## What is proved

`SegmentProofs` proves, for any set of threads, any word size, any number of pages and every
interleaving of `Spec` (untimely ones and spurious failures included):

* `TypeCorrect`: `Spec => []TypeOK`. Every index and mask that a search, a claim, a release or
  a rollback computes lies in the segment.
* `ClaimsAreExclusive`: `Spec => []ClaimExclusive`. No page has two claimers.
* `ClaimsAreAccounted`: `Spec => []ClaimAccounted`. A claim bit is set exactly while a call
  answers for it.

The only assumption is `SegmentAssumption`: sizes and bounds are positive. `TypeOK` is not
inductive: that a mask lies in the segment depends on how the run to be claimed was found. The
inductive invariant `IInv` adds `HeldOK` (runs owned lie in the segment) and, per thread,
`RunOK` (the run being claimed or cleared lies in the segment, and `done` within it), `CasOK`
(the expected claim word is free under the mask), `SingleOK` and `MultiOK`
(what a search knows of the run it is counting) and `GrowOK` (a growing run is owned, and
its new end lies in the segment). There is one lemma per action. `ClaimInv` adds the two claim properties: an
exchange that succeeds adds a mask that was free in the claim word, by `CasOK`, so the new
claim meets no other; release and rollback remove bits that are the thread's own.

Its second part is about the map bitmap, under `TimelySpec` (spurious failures included):

* `AllocationsAreDisjoint`: `TimelySpec => []HeldDisjoint`. No page has two owners.
* `BitmapIsAccounted`: `TimelySpec => []MapAccounted`. The map is what callers own and calls in
  progress have published or not yet cleared.
* `SegmentIsPageAllocator`: `TimelySpec => ImplementsPageAllocator`. Every step of the segment is
  one of `PageAllocator` or changes nothing it can see.

Neither property is inductive: that a page is published only once depends on what was true when
its claim was made. `MapInv` adds `PendingFree` (pages claimed and not yet published are not in
use) and `CasSafe` (a page that came into use after a thread looked at the map is still claimed,
so that the thread's exchange fails). The timely condition is needed in one place: `Release` keeps
`CasSafe`. The rest is set arithmetic on runs: what a call gains (`GainMap`) and gives back
(`GiveBack`) is disjoint from everything else. The refinement needs `NoOldRun` too: a run that
is being grown is not returned under its old length.

What the proofs show beside the run `segment_straddle`: the claim bitmap does its work under every
schedule. Pages get two owners because `map` is read before the exchange, and for no other
reason.

`ForkResetProofs` proves, for any threads, calls and number of forks:

* under `Spec`, forks at any moment included: `GuardsExclude` (`OneInside`), `GuardsAreHonest`
  (`DoneMeansBuilt`) and `MagicStays` (`MagicStable`);
* under `TimelySpec`: `NobodyWaitsForTheDead` (`NoOrphan`), `ForksGoThrough` (`NoSelfWait`) and
  `OneTrimThread` (`TrimmerMatches`).

`GuardsExclude` is about the once guards and the lock of the table of big blocks. The lock of
`grow` does not exclude: its second release may free it while another thread has it, in this
model as in `VaBitmap`.

Nothing in it depends on what the calls are, only on their being well nested. That is the
assumption `CodeAssumption`, a fact about the constant sequences in `Code` that TLC evaluates:
wherever a call is, it is inside the guards and locks `Held` says, leaves only those it is inside,
and has done the work of a guard before it leaves it. The invariant then ties the history
variable to the program counters (`Places`), guards and locks to those inside (`Alone`,
`Owners`), and blocks, handlers and the fast path to the end of `boot_strap` (`Boots`). `SInv`
survives every fork, `IInv` the timely ones; it adds `Registers`, that the handlers are
registered once, on which `NoSelfWait` rests.

`ThreadCacheProofs` proves all that run `cache` checks,
for any set of threads, any number of regions and blocks in them, and any batch sizes and limits
that `ThreadCacheAssumption` admits (positive, and `BATCH_MIN <= BATCH_MAX`): `CachesAreTyped`
(`TypeOK`), `BlocksHaveOnePlace` (`NoBlockTwice`), `BlocksAreKept` (`NoBlockLost`) and
`CachesStaySmall` (`UsageBounded`). The invariant `IInv` says of the function `Where`, from the
places a block can be in to the sets of blocks there, that its values are disjoint and together
are the mapped blocks (`Partition`). Every action that touches blocks moves a set from one place
to one or two others, or brings in a new region, and one lemma for each of these shapes (`Moved`,
`MovedTwo`, `Came`) shows that the partition survives. To know that a step is of such a shape
one needs more: that a thread which refills has an empty cache, without which
`push_to_thread_tailed` would overrun the bound; that a begun region has a rest; that only a
trimmer has blocks in hand; and that lists repeat no block, so that a counter is the size of a
set.

`InterconnectProofs` proves all that run `icc_shards` checks, for any set of threads, any finite set of blocks, any affinity mask, batch and width of
tag, spurious failures included, under `TimelySpec`:

* `ListsIntact`: `TimelySpec => []WellLinked`. The links of a shard spell out its blocks.
* `CounterExact`: `TimelySpec => []UsageAccounted`. The counter of a shard is its length up to
  the additions and subtractions under way, modulo `2^64`.
* `NullMeansEmpty`: `TimelySpec => NullOnlyWhenEmpty`, an action property.
* `CacheIsPool`: `TimelySpec => ImplementsGlobalPool`. No block has two owners.

The lists are kept by `LInv`: no block is in two lists, or in a list and in a thread's hands
(`Apart`); a push has its chain linked and to itself (`Pushes`); and what a pop has walked down
is the front of the list *provided the head still is the word it has read* (`Pops`). That proviso
is where the tag does its work. A step that changes the list changes the tag, and by the timely
condition to one that no pop under way has read, so the proviso fails and nothing needs to be
known; a step that leaves the head alone writes no link of a block in the list. An exchange that
succeeds makes the proviso true, and the chain popped is then the front of the list, in spite of
the links having been read while other threads were writing. `Counts` is about a
sum over the threads, taken as the size of a set of pairs so that one step changes it by one
thread's part. `Calms` says of a pop that began alone that the shards it has gone past are empty;
that it then ends with all of them empty needs that `(cpu + victim) % ncpu` runs through all
shards. The assumption that there are fewer blocks than the counter has values
(`Cardinality(Blocks) < UsageMod`) is what lets a pop trust a counter that says 0: 2^64 blocks do
not fit in memory.

`BigAllocMapProofs` proves the safety properties of run `bigmap_refine`, for any threads,
keys, metadata and hash function, and any first capacity from 2 on, forks at any moment included:

* `TableTyped`: `Spec => []TypeOK`.
* `NeverAborts`: `Spec => []NeverFull`. The counters are exact and the "table full" aborts of
  `insert` and `reinsert` are dead code.
* `TableIsMap`: `Spec => ImplementsMetaMap`. The table is a map.

The invariant says of a table (`TableOK`) that a key is in one slot at most and that the probe
for a key in it meets no empty slot before it (`Reached`). That is why `remove` leaves a
tombstone: the mutant that empties the slot breaks `Reached`, and with it the map. A probe that
ends without its key has then overlooked none (`MissMeansAbsent`), which needs that `cap` probes
visit every slot (`SlotOnto`, from division with remainder). `Load` says that once `ensure_capacity` has
returned there is room for one more entry, so that a probe meets a slot that is not occupied; the
first capacity must be 2 at least, since `alloc_table` is not followed by a test of the load:
one entry fills a table of one slot.
`Building` says of the table that `grow` is filling that it holds exactly the entries `grow` has
gone past. `Owner` says that one thread at most is inside; it is what makes `len` read by
`ensure_capacity` the `len` that `insert` changes. Forks keep it all: a fork may leave the lock
taken for ever (`BigAllocMap_fork.cfg`), but never a table that somebody else goes on with.

`VaBitmapProofs` proves all that run `va_grow` checks, for any set of threads, address space,
chunk size, segment sizes and number of tries:

* under `Spec`, untimely schedules included: `SegmentsTyped` (`TypeOK`, with the extents of
  segments and their bitmaps) and `RunsStayDisjoint` (`RunsDisjoint`: no page is in two runs);
* under `TimelySpec`: `HandedOutStaysOurs` (`HandedOutIsOurs`) and `NoSegmentIsLost`
  (`SegmentsListed`).

So what the double release of the lock can break (`VaBitmap_race.cfg`) is the radix tree and the
list, not the disjointness of runs across segments. This is a statement about the segment
list: a segment on its own is taken to hand out each of its pages once, as `PageAllocator` says,
which `SegmentIsPageAllocator` proves for the timely schedules of `Segment` and `segment_straddle`
refutes for the others. The invariant `IInv` of all schedules ties the locals of each thread to the
place it has reached in `alloc` and `grow` (`LocalOK`), and says that segments do not overlap
(`Apart`), since the kernel's mappings do not, and that each run lies in one segment and is marked
in its bitmap (`Taken`); that `free` and `realloc_inplace` then find this segment or none is what
keeps a segment from giving up bits of another's run. `TInv`, of timely schedules, begins with `Mutex`: one thread at
most is between `Lock` and `DropGuard`, which is where the timely condition is needed. From it
follow `Clear` (while a thread prepares a segment, the chunks it has found free stay free) and
`Linked` (the head of the list is still the one the new segment will point to), and from these
`Indexed` (the radix tree knows every page of every segment) and `SegmentsListed`. What is reached from the head of the list (`From`) is defined as
the least set closed under `next`, so that publishing needs no induction. Nothing depends
on the counter of failures, which is only known to be a byte.

`BigAllocationProofs` proves all that run `big_blocks` checks, for any set of threads,
number of pages and sizes, whichever system calls fail, with `OX_FORCE_THP` off (with it on,
`BigAllocation_thp.cfg` shows `LiveUsable` violated): `BlocksTyped` (`TypeOK`), `NobodyIsKilled`
(`NobodyDies`), `BlocksStayUsable` (`LiveUsable`) and `NoPageIsLost` (`NothingLeaks`). The
invariant `IInv` says whose every page is: each block of the program has the pages its
table entry stands for (`Recorded`), each call has pages of its own (`Mine`), which are those it
has taken and not registered, those of a block it frees, or those of a block it resizes. These
sets are disjoint (`Apart`) and together are the pages marked in the VA bitmap, and the entries of
the table are accounted for likewise (`Accounted`). `OldOK`, `NewOK` and `TailOK` say for each place
in a call what is accessible, has a header and is registered by then; they depend on the order of
the steps in the code, and the mutants that swap two of them break them. A step keeps the
invariant because it is of one of three shapes: it changes what the call has and leaves the blocks
of the program alone (`Inner`), takes a block over from the program (`Taken`), or ends the call and
leaves a block with the program (`Given`).

`AbiProofs` proves all that run `abi` checks and two facts about the size classes.

* `SmallestClass` and `BlocksSideBySide`, for the tables of the code cut off at any number of
  classes from 23 to 34: `match_size_class` gives the least class that is large enough, by the
  look-up table and by the slow path, which meet at 4096; the blocks of a region do not overlap
  and end inside it.
* `AbiTypes` (`TypeOK`), `BlocksStayDisjoint` (`BlocksDisjoint`), `PointersStayGood`
  (`PointersGood`), `CopiesFit` (`CopyFits`), `PagesAreAccounted` (`PagesAccounted`) and `DataIsKept`
  (`DataKept`), for `WithinSpec` with any address space, sizes, counts, alignments, number of
  blocks, and limits with `WORD` more than two pages above `LIMIT`, whichever system calls fail.

The assumption on the tables, evaluated by TLC, is that the sizes grow, are multiples of 16, have
4096 in the 23rd place (the look-up table is right for no other reason), and are never less than
48 bytes below a multiple of a page, so that a block takes as many pages with the metadata before
its header as without. The one on the numbers below 8 that are powers of two
spares the prover the exponents.

The invariant `IInv` has a part for the memory and a part for the pointers. For the memory
(`MemOK`): a big block starts a page, has a table entry and pages of its own; a slab block with pages
to itself starts a page, if it was a big one before, or comes right behind the metadata; a block of a region of several stays on pages of
such regions (`BlockOK`). Blocks end before the next one begins, and pages of their own they share
with none (`Apart`). Every marked page is under a block, in a region of several, or lost to a
growth that `mprotect` refused, and every table entry belongs to a big block (`Accounted`). No tag
lies on a header (`TagsClear`); this is what lets `free` tell a tagged pointer from another. For
the pointers: each leads, directly or by its tag, to a block in use that reaches as far as what was
asked for (`PtrOK`), and no two lead to the same block. `BlocksDisjoint` and `PointersGood` alone
are not inductive: they do not say whose the pages behind a block are, which is what growing and
shrinking in place change.

A call keeps the invariant because of what it does to the other blocks: they keep header, size and
tags, and nothing of them is zeroed (`Keeps`). Under this relation lie `Gives` (a call makes one
block: from a cache, from a fresh region, or a big one), `Hands` (the same with an aligned
pointer), `InPlace` and `MovedTo` (the two ways of `realloc`); each exported call is shown to be of
one of these shapes, and one lemma for each of them carries the pointers over (`Gains`, `Drops`,
`Exchanges`). The lemmas on `realloc` are mostly about page arithmetic: a block with pages of its
own ends on the last page its size rounds to (`LastPages`), so what a shrink gives back is behind
the new end (`CutAt`), and what a growth takes is behind the old one (`GrowPages`).
`Overgrown` and `StaysEmpty`, which `WithinSpec` leaves out, are where these fail.

Only model-checked: the liveness properties, which are beyond the prover; `NoneOnlyWhenFull`,
whose proof would be an induction over the pages searched. The violated runs show what happens
outside the conditions of the theorems.

## Findings

1. `va/bitmap.rs:764`, run `segment_straddle`: a page may be handed out twice.
2. `abi/realloc.rs:192`, run `abi_growth`: a slab block that grows in place into a big block may
   end on a page that is not its own.
3. `va/bootstrap.rs:42`, run `fork_orphan`: some guards and locks are not reset on fork, though
   the documentation says they are: all of them before the handlers are registered, and the
   guard of the InterConnect cache and the lock of the table of big blocks always.
4. `slab/interconnect.rs:267`, `Interconnect_tag.cfg`: a block may be handed out twice when the
   head changes 16 times during a pop.
5. `va/bitmap.rs:430`, `VaBitmap_race.cfg`: the lock of `grow` is released twice.
6. `abi/realloc.rs:113`, `BigAllocation_thp.cfg`: `realloc` and `big_free` round sizes differently
   under `OX_FORCE_THP`.
7. `abi/realloc.rs:226`, `Abi_leak.cfg`: pages a slab block was to grow into are lost when `mprotect`
   refuses them.
8. `abi/realloc.rs:189`, `Abi_empty.cfg`: a block of `malloc(0)` that is resized in place loses its
   contents when it moves.

`PROJECT.json` quotes the line each of the first three disagrees with, and lists under "hazards"
what else is delicate in the code, with a note where no property covers it: reservations that
collide stay mapped, blocks cached by a thread that exits stay with it, and shards are indexed by
CPU number but counted by affinity mask.

## Not modelled

* **The decay policy of the trimmer** (stamps, averages, `TimeDecay`, memory pressure): it decides
  when and how much to trim, and every decision is allowed in `ThreadCache` and `Abi`. Nothing
  in the repository says what it should decide, so there is no property to check.
* **The hardened-linked-list build** (`GlobalLock`, encrypted links), and `get_size`.
* **Weak memory.** The orderings of the atomics, among them the Relaxed release of
  `internals/lock.rs:15`, are beyond an interleaving model.
* **Shards of CPUs outside a dense affinity mask**: `Interconnect` stops at an index outside the
  arrays, and the run has none.
* **Lock-freedom of `Interconnect`**: without symmetry the smallest interesting instance has
  several million states, too many for a liveness check. `LockFree` of `Segment` is about a
  retry loop of the same shape.
* **Thread-local caches across fork**: what the child's thread has cached is its own copy; the
  caches of vanished threads are lost to it, as those of threads that exit are (`Exit`).
* **Protections in `Abi`.** `Abi` knows which pages are marked, not which are accessible
  (`BigAllocation` does, for big blocks). So it does not see that the `mprotect` of a slab block's
  growth (`abi/realloc.rs:197-205`) begins one page behind the first new page, its start being
  rounded up, and reaches one page beyond the last: the range is right for big blocks only.
* **Equal magic numbers**: `init_magic` may draw the same number for blocks in use and freed ones,
  since its test compares the old values (`va/bootstrap.rs:123`). The numbers are bytes in the
  default build, so this happens once in 256 starts (once in 2^64 in the hardened build), and
  headers of freed blocks then pass for valid ones. The models keep the two apart.
* System call wrappers, `dlsym`, environment variables and NUMA detection are I/O; the quarantine
  has no caller; `va/rng.rs` is replaced by arbitrary choice.
