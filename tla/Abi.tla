--------------------------------- MODULE Abi ---------------------------------
(***************************************************************************)
(* The calls of the C interface (abi/) and what they do to memory: which   *)
(* pages, headers, table entries and alignment tags belong to which        *)
(* pointer.  The calls are steps of one thread after the other; how they   *)
(* interleave is the matter of modules ThreadCache, BigAllocation and      *)
(* Segment.  Here addresses are bytes, and the arithmetic is the code's.   *)
(*                                                                         *)
(* A call within a call works on the memory the outer one has left, so the *)
(* memory is one record, and a call is an operator from a memory to the    *)
(* set of its possible results.  System calls may fail wherever the code   *)
(* handles failure.                                                        *)
(***************************************************************************)
EXTENDS SizeClass, FiniteSets

CONSTANTS NPages,      \* pages of address space
          Sizes,       \* the sizes asked for
          Counts,      \* the element counts of calloc and reallocarray
          Alignments,  \* the alignments asked for
          LIMIT,       \* the largest request: 3 GiB in the code
          WORD,        \* sizes are below this: 2^64 in the code
          MaxBlocks,   \* bound: blocks in use or cached
          MaxCarve     \* bound: blocks formatted in a fresh region

is_power_of_two(n) == \E i \in 0 .. 20 : n = 2 ^ i

ASSUME AbiAssumption ==
    /\ NPages \in Nat /\ Sizes \subseteq 0 .. WORD - 1 /\ Counts \subseteq Nat
    /\ Alignments \subseteq Nat
    /\ LIMIT \in Nat /\ WORD \in Nat /\ LIMIT + 2 * PAGE < WORD
    /\ MaxBlocks \in Nat /\ MaxCarve \in Nat \ {0}
    /\ \A n \in 0 .. 7 : is_power_of_two(n) => n \in {1, 2, 4}

VARIABLES mem,   \* the memory
          ptrs,  \* the pointers of the program, with what was asked for
          copy   \* of the last realloc: what it copied, and between what

vars == <<mem, ptrs, copy>>

Pages == 0 .. NPages - 1

NULL == -1

OFFSET_SIZE == 8

TAG_SIZE == 2 * OFFSET_SIZE

NoCopy == [len |-> 0, need |-> 0, src |-> 0, dst |-> 0]

Init ==
    /\ mem = [va    |-> {},                    \* pages marked in the VA bitmap
              hdr   |-> [h \in {} |-> 0],      \* headers: class and magic
              meta  |-> [h \in {} |-> 0],      \* BIG_ALLOC_MAP
              tag   |-> [p \in {} |-> 0],      \* tag before p, with its pointer
              multi |-> {},                    \* pages of regions of several blocks
              lost  |-> {},                    \* pages leaked by a failed growth
              wiped |-> {},                    \* bytes <<from, to>> zeroed by this call
              alive |-> TRUE]                  \* no abort
    /\ ptrs = {}
    /\ copy = NoCopy

Put(f, k, v) == [j \in DOMAIN f \cup {k} |-> IF j = k THEN v ELSE f[j]]

Keep(f, S) == [j \in DOMAIN f \cap S |-> f[j]]

Min(a, b) == IF a < b THEN a ELSE b

(* a - b, or 0 when that is negative. *)
saturating_sub(a, b) == IF a < b THEN 0 ELSE a - b

Overlap(a, b, c, d) == a < d /\ c < b

Abort(m) == [m EXCEPT !.alive = FALSE]

Result(m, p) == [mem |-> m, ptr |-> p]

-----------------------------------------------------------------------------
(* The VA bitmap, as module PageAllocator has it.  A run starts at the     *)
(* page of its address, whatever the offset in the page.                   *)

RunAt(a, len) ==
    LET first == a \div PAGE IN first .. (first + (len + PAGE - 1) \div PAGE - 1)

FreeRuns(m, len) == {a \in {p * PAGE : p \in Pages} : RunAt(a, len) \subseteq Pages \ m.va}

Take(m, run) == [m EXCEPT !.va = @ \cup run]

Give(m, a, len) == [m EXCEPT !.va = @ \ RunAt(a, len)]

(* Memory zeroed, by the kernel or by hand: what was in it is gone. *)
Discard(m, from, to) ==
    [m EXCEPT !.hdr = Keep(@, {h \in DOMAIN @ : ~Overlap(h, h + HEADER_SIZE, from, to)}),
              !.tag = Keep(@, {p \in DOMAIN @ : ~Overlap(p - TAG_SIZE, p, from, to)}),
              !.wiped = @ \cup {<<from, to>>}]

(* A header is written over whatever tag was there. *)
Format(m, h, c, magic) ==
    [m EXCEPT !.hdr = Put(@, h, [class |-> c, magic |-> magic]),
              !.tag = Keep(@, {p \in DOMAIN @ : ~Overlap(p - TAG_SIZE, p, h, h + HEADER_SIZE)})]

SetMagic(m, h, magic) == [m EXCEPT !.hdr[h].magic = magic]

-----------------------------------------------------------------------------
(* malloc. *)

Cached(m, c) == {h \in DOMAIN m.hdr : m.hdr[h] = [class |-> c, magic |-> "FREED"]}

Room(m, n) == Cardinality(DOMAIN m.hdr) + n <= MaxBlocks

(* A block from a cache. *)
CacheHit(m, c) == {Result(SetMagic(m, h, "MAGIC"), h + HEADER_SIZE) : h \in Cached(m, c)}

(* bulk_fill: a fresh region, mapped, with its first blocks formatted.     *)
(* When mmap fails three times malloc returns null.  When the VA bitmap is *)
(* exhausted the process is aborted on purpose, and there is no result.    *)
bulk_fill(m, c) ==
    LET n == Min(ITERATIONS[c], MaxCarve)
        blocks(a) == {BlockAt(a, c, i) : i \in 0 .. n - 1}
        fresh(a) ==
            LET mapped == Discard(Take(m, RunAt(a, RegionSize(c))), a, a + RegionSize(c))
            IN  [mapped EXCEPT
                   !.hdr = [h \in DOMAIN @ \cup blocks(a) |->
                              IF h \in blocks(a) THEN [class |-> c, magic |-> "FREED"]
                                                 ELSE @[h]],
                   !.multi = IF ITERATIONS[c] = 1 THEN @ ELSE @ \cup RunAt(a, RegionSize(c))]
    IN  {Result(SetMagic(fresh(a), BlockAt(a, c, 0), "MAGIC"),
                BlockAt(a, c, 0) + HEADER_SIZE) :
            a \in IF Room(m, n) THEN FreeRuns(m, RegionSize(c)) ELSE {}}
        \cup {Result(m, NULL) : a \in FreeRuns(m, RegionSize(c))}

allocate(m, c) == CacheHit(m, c) \cup bulk_fill(m, c)

big_malloc(m, size) ==
    LET total == align_to(size + HEADER_SIZE, PAGE)
        block(a) == [Format(Take(m, RunAt(a, total)), a, BIG, "MAGIC")
                       EXCEPT !.meta = Put(@, a, size)]
    IN  {Result(block(a), a + HEADER_SIZE) :
            a \in IF Room(m, 1) THEN FreeRuns(m, total) ELSE {}}
        \cup {Result(m, NULL)}

malloc(m, size) ==
    CASE size > LIMIT -> {Result(m, NULL)}
      [] size <= LIMIT /\ match_size_class(size) = BIG -> big_malloc(m, size)
      [] OTHER -> allocate(m, match_size_class(size))

-----------------------------------------------------------------------------
(* From a pointer to its block. *)

is_ours(a) == a % 8 = 0 /\ a >= 0 /\ a < NPages * PAGE

RawOf(m, p) == IF p \in DOMAIN m.tag /\ is_ours(m.tag[p]) THEN m.tag[p] ELSE p

HeaderOf(m, p) == RawOf(m, p) - HEADER_SIZE

(* validate_ptr_for_abi, and the entry of a big block in the table. *)
Valid(m, h) ==
    /\ h \in DOMAIN m.hdr /\ m.hdr[h].magic = "MAGIC"
    /\ m.hdr[h].class = BIG => h \in DOMAIN m.meta

Capacity(m, h) ==
    IF m.hdr[h].class = BIG THEN m.meta[h] ELSE SIZE_CLASSES[m.hdr[h].class]

malloc_usable_size(m, p) ==
    saturating_sub(Capacity(m, HeaderOf(m, p)), p - RawOf(m, p))

-----------------------------------------------------------------------------
(* free. *)

(* Mutant: the entry in the table of big blocks stays. *)
big_free_Kept(m, h) ==
    LET total == align_to(m.meta[h] + HEADER_SIZE, PAGE)
    IN  Give(Discard(m, h, h + total), h, total)

big_free(m, h) ==
    LET total == align_to(m.meta[h] + HEADER_SIZE, PAGE)
        gone  == [m EXCEPT !.meta = Keep(@, DOMAIN @ \ {h})]
    IN  Give(Discard(gone, h, h + total), h, total)

free(m, p) ==
    LET h == HeaderOf(m, p)
    IN  CASE ~Valid(m, h) -> Abort(m)
          [] Valid(m, h) /\ m.hdr[h].class = BIG -> big_free(m, h)
          [] OTHER -> SetMagic(m, h, "FREED")

-----------------------------------------------------------------------------
(* realloc. *)

(* The block at h is a block of class c, or a big one of the given size. *)
Relabel(m, h, c, size) ==
    LET old == m.hdr[h].class
    IN  [m EXCEPT !.hdr[h].class = c,
                  !.meta = CASE c = BIG -> Put(@, h, size)
                             [] c # BIG /\ old = BIG -> Keep(@, DOMAIN @ \ {h})
                             [] OTHER -> @]

(* Mutant: the offset of an aligned pointer is forgotten. *)
CopyLen_Raw(m, p, new) == Min(Capacity(m, HeaderOf(m, p)), new)

(* What the move to a new block copies: what is usable behind the pointer, *)
(* as far as the new size goes.                                            *)
CopyLen(m, p, new) == Min(saturating_sub(Capacity(m, HeaderOf(m, p)), p - RawOf(m, p)), new)

(* malloc, copy, free.  The old block stays when there is no new one. *)
Move(m, x, new) ==
    {IF r.ptr = NULL THEN [mem |-> r.mem, ptr |-> NULL, copy |-> NoCopy]
     ELSE [mem  |-> free(r.mem, x.ptr), ptr |-> r.ptr,
           copy |-> [len  |-> CopyLen(m, x.ptr, new), need |-> Min(x.size, new),
                     src  |-> malloc_usable_size(m, x.ptr),
                     dst  |-> malloc_usable_size(r.mem, r.ptr)]] :
        r \in malloc(m, new)}

(* The bytes of a block of class c (or a big one of the given size), and   *)
(* the size that the table of big blocks or the class stands for.          *)
Total(c, size) ==
    IF c = BIG THEN align_to(size + HEADER_SIZE, PAGE) ELSE align_to(size + HEADER_SIZE, 16)

NewSize(new) ==
    IF match_size_class(new) = BIG THEN new ELSE SIZE_CLASSES[match_size_class(new)]

(* The bytes behind the block that change hands. *)
Shrinkage(m, h, new) ==
    Total(m.hdr[h].class, Capacity(m, h)) - Total(match_size_class(new), NewSize(new))

(* Mutant: the pages cut off are not given back. *)
ShrinkInPlace_Kept(m, h, new) ==
    LET len  == Shrinkage(m, h, new)
        from == align_to(h + Total(match_size_class(new), NewSize(new)), PAGE)
    IN  {m} \cup IF len % PAGE = 0
                 THEN {Relabel(Discard(m, from, from + len), h, match_size_class(new),
                               NewSize(new))}
                 ELSE {}

(* The block gets smaller in place if the difference is whole pages and    *)
(* madvise works; otherwise it stays as it is.                             *)
ShrinkInPlace(m, h, new) ==
    LET len  == Shrinkage(m, h, new)
        from == align_to(h + Total(match_size_class(new), NewSize(new)), PAGE)
        cut  == Give(Discard(m, from, from + len), from, len)
    IN  {m} \cup IF len % PAGE = 0
                 THEN {Relabel(cut, h, match_size_class(new), NewSize(new))}
                 ELSE {}

(* VaBitmap::realloc_inplace: the pages behind those of the block. *)
GrowRun(m, h, new) ==
    LET first == h \div PAGE
    IN  first + align_to(Capacity(m, h) + HEADER_SIZE, PAGE) \div PAGE
          .. first + align_to(NewSize(new) + HEADER_SIZE, PAGE) \div PAGE - 1

CanGrow(m, h, new) == GrowRun(m, h, new) \subseteq Pages \ m.va

GrowInPlace(m, h, new) ==
    Relabel(Take(m, GrowRun(m, h, new)), h, match_size_class(new), NewSize(new))

(* mprotect refuses the new pages: they are given back if they start at    *)
(* the end of the block, and otherwise stay marked for good.               *)
GrowFailed(m, h, new) ==
    LET from == h + Total(m.hdr[h].class, Capacity(m, h))
    IN  IF from % PAGE = 0 THEN m
        ELSE [Take(m, GrowRun(m, h, new)) EXCEPT !.lost = @ \cup GrowRun(m, h, new)]

Resizable(m, h) == m.hdr[h].class = BIG \/ ITERATIONS[m.hdr[h].class] = 1

Stay(m, x) == [mem |-> m, ptr |-> x.ptr, copy |-> NoCopy]

(* A big block, or the only block of its region, at h. *)
InPlaceOrMove(m, x, h, new) ==
    IF Shrinkage(m, h, new) = 0
    THEN {Stay(Relabel(m, h, match_size_class(new), NewSize(new)), x)}
    ELSE IF Shrinkage(m, h, new) > 0
    THEN {Stay(n, x) : n \in ShrinkInPlace(m, h, new)}
    ELSE IF CanGrow(m, h, new)
    THEN {Stay(GrowInPlace(m, h, new), x)} \cup Move(GrowFailed(m, h, new), x, new)
    ELSE Move(m, x, new)

(* A valid pointer, and a size that is not 0. *)
Resize(m, x, new) ==
    LET h == HeaderOf(m, x.ptr)
        class == m.hdr[h].class
    IN  IF x.ptr # RawOf(m, x.ptr) THEN Move(m, x, new)
        ELSE IF class # BIG /\ class = match_size_class(new) THEN {Stay(m, x)}
        ELSE IF class = BIG \/ ITERATIONS[class] = 1 THEN InPlaceOrMove(m, x, h, new)
        ELSE Move(m, x, new)

realloc(m, x, new) ==
    IF new > LIMIT THEN {[mem |-> m, ptr |-> NULL, copy |-> NoCopy]}
    ELSE IF new = 0
    THEN {[mem |-> r.mem, ptr |-> r.ptr, copy |-> NoCopy] : r \in malloc(free(m, x.ptr), 1)}
    ELSE IF Valid(m, HeaderOf(m, x.ptr)) THEN Resize(m, x, new)
    ELSE {Stay(Abort(m), x)}

-----------------------------------------------------------------------------
(* Alignment and calloc. *)

(* The tag and the pointer to the block are written in front of the        *)
(* aligned address.                                                        *)
Aligned(raw, alignment) == align_to(raw + TAG_SIZE, alignment)

Tag(m, raw, p) ==
    [m EXCEPT !.tag = Put(Keep(@, {q \in DOMAIN @ : ~Overlap(q - TAG_SIZE, q, p - TAG_SIZE, p)}),
                          p, raw)]

(* Mutant: the additions wrap around. *)
total_requested_Wraps(size, alignment) == (size + alignment + TAG_SIZE) % WORD

total_requested(size, alignment) == size + alignment + TAG_SIZE

(* A failed malloc is repeated once, which adds no result.  The size is    *)
(* refused when it overflows.                                              *)
posix_memalign(m, alignment, size) ==
    LET total == total_requested(size, alignment)
    IN  IF alignment < 8 \/ ~is_power_of_two(alignment) \/ total >= WORD
        THEN {Result(m, NULL)}
        ELSE {IF r.ptr = NULL THEN r
              ELSE Result(Tag(r.mem, r.ptr, Aligned(r.ptr, alignment)),
                          Aligned(r.ptr, alignment)) : r \in malloc(m, total)}

memalign(m, alignment, size) ==
    posix_memalign(m, IF alignment < 8 THEN 8 ELSE alignment, size)

aligned_alloc(m, alignment, size) ==
    IF ~is_power_of_two(alignment) THEN {Result(m, NULL)} ELSE memalign(m, alignment, size)

(* Zeroing wipes out stale tags. *)
calloc(m, n, size) ==
    LET total     == n * size
        effective == IF total = 0 THEN 1 ELSE total
        zeroed(r) ==
            LET to == r.ptr + Min(Capacity(r.mem, r.ptr - HEADER_SIZE), effective)
            IN  [r.mem EXCEPT !.tag =
                   Keep(@, {p \in DOMAIN @ : ~Overlap(p - TAG_SIZE, p, r.ptr, to)})]
    IN  IF size > WORD \div 2 - 1 \/ total >= WORD THEN {Result(m, NULL)}
        ELSE {IF r.ptr = NULL THEN r ELSE Result(zeroed(r), r.ptr) : r \in malloc(m, effective)}

(* release_memory of the trimming thread: the whole pages of a cached      *)
(* block's payload.                                                        *)
release_memory(m, h) ==
    LET from == align_to(h + HEADER_SIZE, PAGE)
        to   == ((h + HEADER_SIZE + Capacity(m, h)) \div PAGE) * PAGE
    IN  IF from >= to THEN m ELSE Discard(m, from, to)

-----------------------------------------------------------------------------
(* The calls of the program, with the pointers it owns. *)

(* The memory a call starts with. *)
Now == [mem EXCEPT !.wiped = {}]

Gain(r, size, align) ==
    /\ mem' = r.mem
    /\ ptrs' = IF r.ptr = NULL THEN ptrs
               ELSE ptrs \cup {[ptr |-> r.ptr, size |-> size, align |-> align]}
    /\ copy' = NoCopy

Malloc == \E size \in Sizes : \E r \in malloc(Now, size) : Gain(r, size, 16)

Calloc ==
    \E n \in Counts, size \in Sizes : \E r \in calloc(Now, n, size) : Gain(r, n * size, 16)

PosixMemalign ==
    \E a \in Alignments, size \in Sizes :
        \E r \in posix_memalign(Now, a, size) : Gain(r, size, a)

(* An alignment below 8 that is no power of two is accepted, as 8. *)
Memalign ==
    \E a \in Alignments, size \in Sizes : \E r \in memalign(Now, a, size) :
        Gain(r, size, IF is_power_of_two(a) THEN a ELSE 8)

AlignedAlloc ==
    \E a \in Alignments, size \in Sizes : \E r \in aligned_alloc(Now, a, size) : Gain(r, size, a)

Valloc == \E size \in Sizes : \E r \in memalign(Now, PAGE, size) : Gain(r, size, PAGE)

Free ==
    \E x \in ptrs : /\ mem' = free(Now, x.ptr)
                    /\ ptrs' = ptrs \ {x}
                    /\ copy' = NoCopy

(* After a failed realloc to a size other than 0 the old pointer is good.  *)
Realloc(x, new) ==
    \E r \in realloc(Now, x, new) :
        /\ mem' = r.mem
        /\ ptrs' = IF r.ptr = NULL
                   THEN IF new = 0 THEN ptrs \ {x} ELSE ptrs
                   ELSE (ptrs \ {x}) \cup {[ptr |-> r.ptr, size |-> new, align |-> 16]}
        /\ copy' = r.copy

(* The product is refused when it overflows. *)
Reallocarray(x, n, size) == n * size < WORD /\ Realloc(x, n * size)

(* Mutant: blocks in use are trimmed as well. *)
Trim_InUse ==
    /\ \E h \in DOMAIN mem.hdr :
          /\ mem.hdr[h].class # BIG /\ SIZE_CLASSES[mem.hdr[h].class] >= 4096
          /\ mem' = release_memory(Now, h)
    /\ copy' = NoCopy
    /\ UNCHANGED ptrs

(* The trimming thread releases the pages of a cached block. *)
Trim ==
    /\ \E c \in Classes : SIZE_CLASSES[c] >= 4096 /\ \E h \in Cached(mem, c) :
          mem' = release_memory(Now, h)
    /\ copy' = NoCopy
    /\ UNCHANGED ptrs

Allocate == Malloc \/ Calloc \/ PosixMemalign \/ Memalign \/ AlignedAlloc \/ Valloc

Next ==
    \/ Allocate \/ Free \/ Trim
    \/ \E x \in ptrs, new \in Sizes : Realloc(x, new) \/ \E n \in Counts : Reallocarray(x, n, new)

Spec == Init /\ [][Next]_vars

(* Two resizings in place go wrong.  A block behind the metadata of its    *)
(* region that grows into a big one in place keeps its header there, but   *)
(* is measured, and later given back, from its header on: its last bytes   *)
(* may lie beyond its pages.                                               *)
Overgrown(m, n) ==
    \E h \in DOMAIN m.hdr \cap DOMAIN n.hdr :
        h % PAGE # 0 /\ m.hdr[h].class # BIG /\ n.hdr[h].class = BIG

(* And the block of malloc(0), a page with an entry of size 0 in the       *)
(* table, keeps that entry when it is resized to less than the page.       *)
StaysEmpty(m, x, new) ==
    LET h == HeaderOf(m, x.ptr)
    IN  /\ h \in DOMAIN m.hdr /\ x.ptr = RawOf(m, x.ptr)
        /\ Capacity(m, h) = 0 /\ new > 0 /\ Shrinkage(m, h, new) > 0

(* WithinSpec leaves these two steps out, and nothing else. *)
Within(x, new) == ~StaysEmpty(mem, x, new) /\ ~Overgrown(mem, mem')

WithinNext ==
    \/ Allocate \/ Free \/ Trim
    \/ \E x \in ptrs, new \in Sizes :
          \/ Realloc(x, new) /\ Within(x, new)
          \/ \E n \in Counts : Reallocarray(x, n, new) /\ Within(x, n * new)

WithinSpec == Init /\ [][WithinNext]_vars

-----------------------------------------------------------------------------
(* Properties. *)

(* The type invariant: the VA bitmap marks pages of the segment, headers   *)
(* and table entries are addresses in it, and no call has aborted over a   *)
(* pointer it does not accept.                                             *)
TypeOK ==
    /\ mem.va \subseteq Pages
    /\ \A h \in DOMAIN mem.hdr : h \in Nat /\ h < NPages * PAGE
    /\ \A h \in DOMAIN mem.hdr : mem.hdr[h].class \in Classes \cup {BIG}
    /\ DOMAIN mem.meta \subseteq DOMAIN mem.hdr
    /\ \A x \in ptrs : x.ptr \in Nat
    /\ mem.alive

(* The pages of a block, with the metadata in front of it. *)
BlockPages(h) ==
    LET first == h \div PAGE IN first .. (h + HEADER_SIZE + Capacity(mem, h) - 1) \div PAGE

(* No byte is part of two blocks, be they in use or in a cache: bulk_fill  *)
(* cuts regions into blocks that do not overlap, resizing in place never   *)
(* reaches into a neighbour, and no block of a region is handed out while  *)
(* the region's pages belong to somebody else.                             *)
BlocksDisjoint ==
    \A h, k \in DOMAIN mem.hdr :
        h < k => h + HEADER_SIZE + Capacity(mem, h) <= k

(* In-place growth has the room it needs: the bytes of every pointer lie   *)
(* on pages that are marked as in use.                                     *)
OnMarkedPages(x) == x.ptr \div PAGE .. (x.ptr + x.size - 1) \div PAGE \subseteq mem.va

GrowthHasRoom == \A x \in ptrs : OnMarkedPages(x)

(* Every pointer the program holds is good: free would accept it, it is    *)
(* aligned as asked for, malloc_usable_size admits the bytes asked for,    *)
(* these lie on pages marked as in use, and no other pointer has the same  *)
(* block; so whatever calls were made and failed in between, no call       *)
(* aborts and no access is out of bounds.                                  *)
Good(x) ==
    /\ Valid(mem, HeaderOf(mem, x.ptr))
    /\ x.ptr % x.align = 0
    /\ malloc_usable_size(mem, x.ptr) >= x.size
    /\ OnMarkedPages(x)
    /\ \A y \in ptrs : HeaderOf(mem, x.ptr) = HeaderOf(mem, y.ptr) => x = y

PointersGood == mem.alive /\ \A x \in ptrs : Good(x)

(* A realloc that moves copies everything the program may have stored, and *)
(* neither reads beyond the old block nor writes beyond the new one.  That *)
(* is so in WithinSpec; in Spec a block that StaysEmpty holds data that a  *)
(* later move does not copy.                                               *)
CopyFits == copy.need <= copy.len /\ copy.len <= copy.src /\ copy.len <= copy.dst

(* Nothing is zeroed under the program's feet: no byte of a pointer that   *)
(* survives the call (as much of it as the call keeps) is discarded by     *)
(* big_free, a shrinking realloc, trimming or the mapping of a region.     *)
DataKept ==
    [][\A x \in ptrs, y \in ptrs' : x.ptr = y.ptr =>
          LET n == Min(x.size, y.size)
          IN  n > 0 => \A w \in mem'.wiped : ~Overlap(x.ptr, x.ptr + n, w[1], w[2])]_vars

(* Pages leak in one place only: every marked page belongs to a block, to  *)
(* a region of several blocks, or to those that realloc has failed to give *)
(* back after mprotect refused to let a block of a size class grow.        *)
PagesAccounted ==
    mem.va = (UNION {BlockPages(h) : h \in DOMAIN mem.hdr}) \cup mem.multi \cup mem.lost

(* Nothing leaks: false of the code, for the pages of such a growth. *)
NoPageLost == mem.lost = {}
=============================================================================
