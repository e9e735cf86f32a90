------------------------------ MODULE VaBitmap ------------------------------
(***************************************************************************)
(* The VA bitmap as a whole (VaBitmap, RadixTree and get_va_from_kernel of *)
(* va/bitmap.rs): a list of segments, each a range of address space that   *)
(* the kernel reserved, a radix tree from address chunks to segments, and  *)
(* a lock under which the list grows.  Module Segment models the inside of *)
(* a segment; here a segment gives out runs of free pages.                 *)
(*                                                                         *)
(* Addresses are counted in pages.  A segment starts at any page, so its   *)
(* first and last chunk may be shared with what lies beside it.  It has a  *)
(* bitmap of its own, and whoever searches, resizes or frees looks at the  *)
(* bitmap of one segment only.                                             *)
(***************************************************************************)
EXTENDS Integers, FiniteSets

CONSTANTS Threads,             \* the threads of the program
          Space,               \* pages of address space
          Foreign,             \* pages mapped by somebody else
          CHUNK_SIZE,          \* pages of a chunk, and of a least segment
          OX_MAX_RESERVATION,  \* pages of a first reservation
          RESERVE_TRIES,       \* reservations of that size (3 in the code)
          GROW_TRIES,          \* attempts to grow in one alloc (10)
          FAILED_TRYS,         \* failures a segment is forgiven (2)
          TRYS_RANGE,          \* values of its counter, an AtomicU8 (256)
          MAX_RANDOM,          \* a freed run above this clears `full'
          Needs,               \* run lengths asked for
          MaxLive,             \* bound: runs the program has at a time
          MetadataFails        \* may the mmap of a segment's metadata fail?

Null == -1

Addresses == 0 .. Space - 1

Chunk(a) == a \div CHUNK_SIZE

ASSUME VaBitmapAssumption ==
    /\ Space \in Nat \ {0} /\ Foreign \subseteq Addresses
    /\ CHUNK_SIZE \in Nat \ {0} /\ OX_MAX_RESERVATION \in Nat
    /\ RESERVE_TRIES \in Nat /\ GROW_TRIES \in Nat \ {0}
    /\ FAILED_TRYS \in Nat /\ TRYS_RANGE \in Nat \ {0}
    /\ MAX_RANDOM \in Nat
    /\ Needs \subseteq Nat \ {0} /\ MaxLive \in Nat
    /\ MetadataFails \in BOOLEAN

VARIABLES mapped,         \* the pages reserved from the kernel
          BASE_HINT, BASE_INIT, LATEST_TRIED, RESERVE,
          lock,           \* the SerialLock of VA_MAP
          once,           \* ONCE, around the first segment: 0, 1 or 2
          map,            \* the first segment of the list
          latest_segment,
          segs,           \* the Segment records, by start address; `bits'
                          \* are the pages marked in the segment's bitmap
          radix,          \* radix[c]: the segment of chunk c
          live,           \* the runs the program has
          pc,             \* where thread t is
          loc             \* the locals of thread t

kernel == <<mapped, BASE_HINT, BASE_INIT, LATEST_TRIED, RESERVE>>
list   == <<map, latest_segment, segs, radix>>
vars   == <<kernel, lock, once, list, live, pc, loc>>

NoLoc == [need |-> 0, curr |-> Null, tried |-> 0, first |-> FALSE,
          seg |-> Null, size |-> 0, old |-> Null]

Init ==
    /\ mapped = {}
    /\ BASE_HINT = 0 /\ BASE_INIT = FALSE /\ LATEST_TRIED = 0 /\ RESERVE = 0
    /\ lock = FALSE /\ once = 0
    /\ map = Null /\ latest_segment = Null
    /\ segs = [s \in {} |-> NoLoc]
    /\ radix = [c \in Chunk(0) .. Chunk(Space - 1) |-> Null]
    /\ live = {}
    /\ pc = [t \in Threads |-> "idle"]
    /\ loc = [t \in Threads |-> NoLoc]

Goto(t, l) == pc' = [pc EXCEPT ![t] = l]

Range(start, n) == start .. (start + n - 1)

(* Addresses above the end of the address space are all alike. *)
Capped(a) == IF a > Space THEN Space ELSE a

-----------------------------------------------------------------------------
(* Lookup. *)

Holds(s, a) == s \in DOMAIN segs /\ a \in Range(segs[s].start, segs[s].size)

is_ours(a) == Holds(radix[Chunk(a)], a)

(* The segments of the list, following `next' from s on: those in every    *)
(* set that has s and, with a segment, its successor.  Two segments that   *)
(* grew at once may have the same successor.                               *)
Closed(S) == \A x \in S : segs[x].next \in S \cup {Null}

From(s) ==
    {x \in DOMAIN segs :
        \A S \in SUBSET DOMAIN segs : s \in S \cup {Null} /\ Closed(S) => x \in S}

(* The segment a free or a realloc_inplace at address a works on: by the   *)
(* radix tree, else by the list.                                           *)
Locate(a) ==
    IF is_ours(a) THEN {radix[Chunk(a)]} ELSE {s \in From(map) : Holds(s, a)}

-----------------------------------------------------------------------------
(* Taking pages from a segment. *)

FreeRuns(s, n) ==
    {a \in Addresses :
        Range(a, n) \subseteq Range(segs[s].start, segs[s].size) \ segs[s].bits}

(* alloc_single or alloc_multi of segment s succeeds for t, which returns. *)
Take(t, s) ==
    /\ \E a \in FreeRuns(s, loc[t].need) :
          /\ segs' = [segs EXCEPT ![s].bits = @ \cup Range(a, loc[t].need)]
          /\ live' = live \cup {[addr |-> a, n |-> loc[t].need]}
    /\ Goto(t, "idle")
    /\ loc' = [loc EXCEPT ![t] = NoLoc]

(* It fails when there is no such run, and may fail when other threads     *)
(* take and release pages at the same time.                                *)
Contended(t) == \E u \in Threads \ {t} : pc[u] # "idle"

NoRun(t, s) == FreeRuns(s, loc[t].need) = {} \/ Contended(t)

-----------------------------------------------------------------------------
(* alloc. *)

Alloc(t) ==
    /\ pc[t] = "idle" /\ Cardinality(live) < MaxLive
    /\ \E n \in Needs : loc' = [loc EXCEPT ![t] = [NoLoc EXCEPT !.need = n]]
    /\ Goto(t, "hint")
    /\ UNCHANGED <<kernel, lock, once, list, live>>

(* The segment that served last, whether or not it is marked full. *)
TryLatest(t) ==
    /\ pc[t] = "hint" /\ latest_segment # Null
    /\ Take(t, latest_segment)
    /\ UNCHANGED <<kernel, lock, once, map, latest_segment, radix>>

SkipLatest(t) ==
    /\ pc[t] = "hint"
    /\ latest_segment # Null => NoRun(t, latest_segment)
    /\ Goto(t, "head")
    /\ UNCHANGED <<kernel, lock, once, list, live, loc>>

LoadHead(t) ==
    /\ pc[t] = "head"
    /\ loc' = [loc EXCEPT ![t].curr = map]
    /\ Goto(t, IF map = Null THEN "once" ELSE "walk")
    /\ UNCHANGED <<kernel, lock, once, list, live>>

(* ONCE.call_once around the first grow. *)
OnceEnter(t) ==
    /\ pc[t] = "once" /\ once = 0
    /\ once' = 1
    /\ loc' = [loc EXCEPT ![t].first = TRUE]
    /\ Goto(t, "lock")
    /\ UNCHANGED <<kernel, lock, list, live>>

OnceSpin(t) == pc[t] = "once" /\ once = 1 /\ UNCHANGED vars

(* The guard is passed, and the head of the list is read again. *)
OnceDone(t) ==
    /\ pc[t] = "once" /\ once = 2
    /\ loc' = [loc EXCEPT ![t].curr = map]
    /\ Goto(t, "walk")
    /\ UNCHANGED <<kernel, lock, once, list, live>>

Walking(t) == pc[t] = "walk" /\ loc[t].curr # Null

WalkFull(t) ==
    /\ Walking(t) /\ segs[loc[t].curr].full
    /\ loc' = [loc EXCEPT ![t].curr = segs[loc[t].curr].next]
    /\ UNCHANGED <<kernel, lock, once, list, live, pc>>

WalkLoad(t) ==
    /\ Walking(t) /\ ~segs[loc[t].curr].full
    /\ Goto(t, "search")
    /\ UNCHANGED <<kernel, lock, once, list, live, loc>>

WalkTake(t) ==
    /\ pc[t] = "search"
    /\ Take(t, loc[t].curr)
    /\ latest_segment' = loc[t].curr
    /\ UNCHANGED <<kernel, lock, once, map, radix>>

WalkFail(t) ==
    /\ pc[t] = "search" /\ NoRun(t, loc[t].curr)
    /\ Goto(t, "count")
    /\ UNCHANGED <<kernel, lock, once, list, live, loc>>

(* On to the next segment. *)
WalkOn(t) ==
    /\ loc' = [loc EXCEPT ![t].curr = segs[@].next]
    /\ Goto(t, "walk")

(* A failure is counted, and one too many marks the segment full.  Others  *)
(* may count, forgive and mark between any two of these steps.             *)
WalkCount(t) ==
    /\ pc[t] = "count"
    /\ LET s == loc[t].curr
           n == segs[s].failed_trys
       IN  /\ segs' = [segs EXCEPT ![s].failed_trys = (n + 1) % TRYS_RANGE]
           /\ IF n > FAILED_TRYS THEN Goto(t, "mark") /\ UNCHANGED loc ELSE WalkOn(t)
    /\ UNCHANGED <<kernel, lock, once, map, latest_segment, radix, live>>

WalkMark(t) ==
    /\ pc[t] = "mark"
    /\ segs' = [segs EXCEPT ![loc[t].curr].full = TRUE]
    /\ WalkOn(t)
    /\ UNCHANGED <<kernel, lock, once, map, latest_segment, radix, live>>

WalkEnd(t) ==
    /\ pc[t] = "walk" /\ loc[t].curr = Null
    /\ Goto(t, "lock")
    /\ UNCHANGED <<kernel, lock, once, list, live, loc>>

-----------------------------------------------------------------------------
(* grow, with get_va_from_kernel. *)

Lock(t) ==
    /\ pc[t] = "lock" /\ ~lock
    /\ lock' = TRUE
    /\ Goto(t, "reserve")
    /\ UNCHANGED <<kernel, once, list, live, loc>>

Spin(t) == pc[t] = "lock" /\ lock /\ UNCHANGED vars

(* randomize_base_hint, and the size to begin with. *)
Reserve(t) ==
    /\ pc[t] = "reserve"
    /\ \E r \in 0 .. (IF LATEST_TRIED = 0 THEN 0 ELSE LATEST_TRIED - 1) :
          BASE_HINT' = Capped(BASE_HINT + r)
    /\ LET max  == IF RESERVE > RESERVE_TRIES THEN LATEST_TRIED
                   ELSE OX_MAX_RESERVATION
           size == IF max < CHUNK_SIZE THEN CHUNK_SIZE ELSE max
       IN  loc' = [loc EXCEPT ![t].size = size]
    /\ RESERVE' = IF RESERVE > RESERVE_TRIES THEN RESERVE ELSE RESERVE + 1
    /\ Goto(t, "probe")
    /\ UNCHANGED <<mapped, BASE_INIT, LATEST_TRIED, lock, once, list, live>>

(* Where the kernel would put a reservation of n pages: at the hint, with  *)
(* FIXED_NOREPLACE, or wherever there is room.                             *)
Places(n) ==
    {a \in Addresses : /\ BASE_INIT => a = BASE_HINT
                       /\ Range(a, n) \subseteq Addresses \ (mapped \cup Foreign)}

ProbeOk(t) ==
    /\ pc[t] = "probe"
    /\ \E a \in Places(loc[t].size) :
          /\ mapped' = mapped \cup Range(a, loc[t].size)
          /\ BASE_HINT' = IF BASE_INIT THEN Capped(BASE_HINT + loc[t].size) ELSE a
          /\ loc' = [loc EXCEPT ![t].seg = a]
    /\ LATEST_TRIED' = IF loc[t].size > LATEST_TRIED THEN loc[t].size
                       ELSE LATEST_TRIED
    /\ BASE_INIT' = TRUE
    /\ Goto(t, "collision")
    /\ UNCHANGED <<RESERVE, lock, once, list, live>>

(* The kernel refuses: half the size further up, down to a chunk; then     *)
(* give up, and forget the hint; without a hint there is nothing left.     *)
ProbeFail(t) ==
    /\ pc[t] = "probe" /\ Places(loc[t].size) = {}
    /\ \/ /\ loc[t].size > CHUNK_SIZE
          /\ BASE_HINT' = Capped(BASE_HINT + loc[t].size)
          /\ loc' = [loc EXCEPT ![t].size = @ \div 2]
          /\ UNCHANGED <<BASE_INIT, pc>>
       \/ /\ loc[t].size <= CHUNK_SIZE /\ BASE_INIT
          /\ BASE_INIT' = FALSE
          /\ Goto(t, "unlock")
          /\ UNCHANGED <<BASE_HINT, loc>>
       \/ /\ loc[t].size <= CHUNK_SIZE /\ ~BASE_INIT
          /\ Goto(t, "dead")
          /\ UNCHANGED <<BASE_HINT, BASE_INIT, loc>>
    /\ UNCHANGED <<mapped, LATEST_TRIED, RESERVE, lock, once, list, live>>

SegmentChunks(t) == Chunk(loc[t].seg) .. Chunk(loc[t].seg + loc[t].size - 1)

(* Mutant: only the first chunk is looked up. *)
Collision_FirstOnly(t) ==
    /\ pc[t] = "collision"
    /\ IF radix[Chunk(loc[t].seg)] # Null
         THEN Goto(t, "unlock") /\ loc' = [loc EXCEPT ![t].seg = Null]
         ELSE Goto(t, "metadata") /\ UNCHANGED loc
    /\ UNCHANGED <<kernel, lock, once, list, live>>

(* check_collision; a reservation that collides is not used, nor unmapped. *)
Collision(t) ==
    /\ pc[t] = "collision"
    /\ IF \E c \in SegmentChunks(t) : radix[c] # Null
         THEN Goto(t, "unlock") /\ loc' = [loc EXCEPT ![t].seg = Null]
         ELSE Goto(t, "metadata") /\ UNCHANGED loc
    /\ UNCHANGED <<kernel, lock, once, list, live>>

(* The bitmaps and the Segment are mapped; old_head is read. *)
Metadata(t) ==
    /\ pc[t] = "metadata"
    /\ loc' = [loc EXCEPT ![t].old = map]
    /\ Goto(t, "index")
    /\ UNCHANGED <<kernel, lock, once, list, live>>

MetadataFail(t) ==
    /\ pc[t] = "metadata" /\ MetadataFails
    /\ loc' = [loc EXCEPT ![t].seg = Null]
    /\ Goto(t, "unlock")
    /\ UNCHANGED <<kernel, lock, once, list, live>>

(* Mutant: the new segment does not link to the old head. *)
NewSegment_NoNext(t) ==
    [start |-> loc[t].seg, size |-> loc[t].size, next |-> Null,
     full |-> FALSE, failed_trys |-> 0, bits |-> {}]

(* The Segment is written and set_range enters it in the radix tree. *)
NewSegment(t) ==
    [start |-> loc[t].seg, size |-> loc[t].size, next |-> loc[t].old,
     full |-> FALSE, failed_trys |-> 0, bits |-> {}]

Index(t) ==
    /\ pc[t] = "index"
    /\ segs' = [s \in DOMAIN segs \cup {loc[t].seg} |->
                   IF s = loc[t].seg THEN NewSegment(t) ELSE segs[s]]
    /\ radix' = [c \in DOMAIN radix |->
                    IF c \in SegmentChunks(t) THEN loc[t].seg ELSE radix[c]]
    /\ Goto(t, "publish")
    /\ UNCHANGED <<kernel, lock, once, map, latest_segment, live, loc>>

Publish(t) ==
    /\ pc[t] = "publish"
    /\ map' = loc[t].seg
    /\ Goto(t, "unlock")
    /\ UNCHANGED <<kernel, lock, once, latest_segment, segs, radix, live, loc>>

(* The explicit unlock on every return path of grow ... *)
Unlock(t) ==
    /\ pc[t] = "unlock"
    /\ lock' = FALSE
    /\ Goto(t, "drop")
    /\ UNCHANGED <<kernel, once, list, live, loc>>

(* ... and the one in the destructor of the lock guard. *)
DropGuard(t) ==
    /\ pc[t] = "drop"
    /\ lock' = FALSE
    /\ Goto(t, IF loc[t].first THEN "first" ELSE "grown")
    /\ UNCHANGED <<kernel, once, list, live, loc>>

-----------------------------------------------------------------------------
(* alloc, after grow. *)

(* Inside ONCE: without a first segment the process aborts. *)
FirstGrown(t) ==
    /\ pc[t] = "first"
    /\ IF loc[t].seg = Null
         THEN Goto(t, "dead") /\ UNCHANGED <<once, loc>>
         ELSE /\ once' = 2
              /\ loc' = [loc EXCEPT ![t].curr = loc[t].seg, ![t].first = FALSE,
                                    ![t].seg = Null, ![t].size = 0, ![t].old = Null]
              /\ Goto(t, "walk")
    /\ UNCHANGED <<kernel, lock, list, live>>

(* The tries are used up, and alloc returns None. *)
GrowAgain(t) ==
    /\ pc[t] = "grown" /\ loc[t].seg = Null
    /\ IF loc[t].tried + 1 < GROW_TRIES
         THEN /\ loc' = [loc EXCEPT ![t].tried = @ + 1, ![t].size = 0]
              /\ Goto(t, "lock")
         ELSE /\ loc' = [loc EXCEPT ![t] = NoLoc]
              /\ Goto(t, "idle")
    /\ UNCHANGED <<kernel, lock, once, list, live>>

SetLatest(t) ==
    /\ pc[t] = "grown" /\ loc[t].seg # Null
    /\ latest_segment' = loc[t].seg
    /\ Goto(t, "fresh")
    /\ UNCHANGED <<kernel, lock, once, map, segs, radix, live, loc>>

TakeFresh(t) ==
    /\ pc[t] = "fresh"
    /\ Take(t, loc[t].seg)
    /\ UNCHANGED <<kernel, lock, once, map, latest_segment, radix>>

FailFresh(t) ==
    /\ pc[t] = "fresh" /\ NoRun(t, loc[t].seg)
    /\ Goto(t, "idle")
    /\ loc' = [loc EXCEPT ![t] = NoLoc]
    /\ UNCHANGED <<kernel, lock, once, list, live>>

-----------------------------------------------------------------------------
(* free and realloc_inplace. *)

(* The bits are cleared; a small run leaves the segment's mark alone. *)
Free(t) ==
    /\ pc[t] = "idle"
    /\ \E r \in live :
          /\ live' = live \ {r}
          /\ IF Locate(r.addr) = {} THEN UNCHANGED <<segs, pc, loc>>
             ELSE LET s == CHOOSE x \in Locate(r.addr) : TRUE
                  IN  /\ segs' = [segs EXCEPT ![s].bits = @ \ Range(r.addr, r.n)]
                      /\ IF r.n > MAX_RANDOM
                           THEN /\ Goto(t, "freed")
                                /\ loc' = [loc EXCEPT ![t].curr = s]
                           ELSE UNCHANGED <<pc, loc>>
    /\ UNCHANGED <<kernel, lock, once, map, latest_segment, radix>>

(* A large run gives a segment marked full another chance: the mark is     *)
(* read, the counter goes down, the mark is lifted, in three steps.        *)
FreeDone(t) == Goto(t, "idle") /\ loc' = [loc EXCEPT ![t] = NoLoc]

LoadFull(t) ==
    /\ pc[t] = "freed"
    /\ IF segs[loc[t].curr].full THEN Goto(t, "forgive") /\ UNCHANGED loc ELSE FreeDone(t)
    /\ UNCHANGED <<kernel, lock, once, list, live>>

Forgive(t) ==
    /\ pc[t] = "forgive"
    /\ segs' = [segs EXCEPT ![loc[t].curr].failed_trys = (@ - 1) % TRYS_RANGE]
    /\ Goto(t, "unmark")
    /\ UNCHANGED <<kernel, lock, once, map, latest_segment, radix, live, loc>>

Unmark(t) ==
    /\ pc[t] = "unmark"
    /\ segs' = [segs EXCEPT ![loc[t].curr].full = FALSE]
    /\ FreeDone(t)
    /\ UNCHANGED <<kernel, lock, once, map, latest_segment, radix, live>>

(* Run r of segment s becomes q: the bits it adds or gives up. *)
Resize(s, r, q) ==
    /\ segs' = [segs EXCEPT ![s].bits =
                   (@ \ Range(r.addr, r.n)) \cup Range(q.addr, q.n)]
    /\ live' = (live \ {r}) \cup {q}

Added(r, n) == Range(r.addr, n) \ Range(r.addr, r.n)

(* Mutant: the bits behind the segment are not excluded. *)
realloc_inplace_Unbounded(t) ==
    /\ pc[t] = "idle"
    /\ \E r \in live, n \in Needs : \E s \in Locate(r.addr) :
          /\ n # r.n
          /\ Added(r, n) \cap segs[s].bits = {}
          /\ Resize(s, r, [r EXCEPT !.n = n])
    /\ UNCHANGED <<kernel, lock, once, map, latest_segment, radix, pc, loc>>

realloc_inplace(t) ==
    /\ pc[t] = "idle"
    /\ \E r \in live, n \in Needs : \E s \in Locate(r.addr) :
          /\ n # r.n
          /\ Added(r, n) \subseteq Range(segs[s].start, segs[s].size)
          /\ Added(r, n) \cap segs[s].bits = {}
          /\ Resize(s, r, [r EXCEPT !.n = n])
    /\ UNCHANGED <<kernel, lock, once, map, latest_segment, radix, pc, loc>>

-----------------------------------------------------------------------------
Search(t) ==
    \/ TryLatest(t) \/ SkipLatest(t) \/ LoadHead(t)
    \/ OnceEnter(t) \/ OnceDone(t)
    \/ WalkFull(t) \/ WalkLoad(t) \/ WalkTake(t) \/ WalkFail(t)
    \/ WalkCount(t) \/ WalkMark(t) \/ WalkEnd(t)

Grow(t) ==
    \/ Reserve(t) \/ ProbeOk(t) \/ ProbeFail(t) \/ Collision(t)
    \/ Metadata(t) \/ MetadataFail(t) \/ Index(t) \/ Publish(t)
    \/ Unlock(t) \/ DropGuard(t)

Finish(t) ==
    FirstGrown(t) \/ GrowAgain(t) \/ SetLatest(t) \/ TakeFresh(t) \/ FailFresh(t)

Forgiving(t) == LoadFull(t) \/ Forgive(t) \/ Unmark(t)

Running == \A t \in Threads : pc[t] # "dead"

Step(t) == Search(t) \/ Grow(t) \/ Finish(t) \/ Forgiving(t)

Call(t) == Alloc(t) \/ Free(t) \/ realloc_inplace(t)

Next ==
    /\ Running
    /\ \E t \in Threads :
          Call(t) \/ OnceSpin(t) \/ Spin(t) \/ Lock(t) \/ Step(t)

Spec == Init /\ [][Next]_vars

(* The behaviours in which nobody takes the lock between a thread's two    *)
(* releases of it.                                                         *)
NoDropPending == \A t \in Threads : pc[t] # "drop"

TimelyNext ==
    /\ Running
    /\ \E t \in Threads :
          \/ Call(t) \/ OnceSpin(t) \/ Spin(t) \/ Step(t)
          \/ NoDropPending /\ Lock(t)

TimelySpec == Init /\ [][TimelyNext]_vars

-----------------------------------------------------------------------------
(* Properties. *)

Segments == [start : Addresses, size : 1 .. Space, next : Addresses \cup {Null},
             full : BOOLEAN, failed_trys : 0 .. TRYS_RANGE - 1,
             bits : SUBSET Addresses]

PCs == {"idle", "hint", "head", "once", "walk", "search", "count", "mark",
        "freed", "forgive", "unmark", "lock", "reserve", "probe",
        "collision", "metadata", "index", "publish", "unlock", "drop", "first",
        "grown", "fresh", "dead"}

(* The type invariant.  Beyond the types: a segment has pages, all in the  *)
(* address space, and no bit is set behind the end of its bitmap.          *)
TypeOK ==
    /\ mapped \subseteq Addresses
    /\ BASE_HINT \in 0 .. Space /\ BASE_INIT \in BOOLEAN
    /\ LATEST_TRIED \in 0 .. Space /\ RESERVE \in 0 .. RESERVE_TRIES + 1
    /\ lock \in BOOLEAN /\ once \in 0 .. 2
    /\ map \in DOMAIN segs \cup {Null}
    /\ latest_segment \in DOMAIN segs \cup {Null}
    /\ \A s \in DOMAIN segs :
          /\ segs[s] \in Segments
          /\ segs[s].bits \subseteq Range(segs[s].start, segs[s].size)
          /\ Range(segs[s].start, segs[s].size) \subseteq Addresses
    /\ \A c \in DOMAIN radix : radix[c] \in DOMAIN segs \cup {Null}
    /\ pc \in [Threads -> PCs]

(* Every page the program holds is recognised: is_ours finds it from the   *)
(* moment alloc returns it, so that free does not hand it to the libc      *)
(* fallback.                                                               *)
HandedOutIsOurs == \A r \in live : \A a \in Range(r.addr, r.n) : is_ours(a)

(* Whoever gets pages from the VA bitmap is the only one, also across      *)
(* segments, each of which knows only its own bitmap: reservations do not  *)
(* overlap, a run does not grow over the end of its segment, and free and  *)
(* realloc_inplace find the segment the run was taken from.  A segment on  *)
(* its own is taken to be a page allocator (module Segment says when).     *)
RunsDisjoint ==
    \A r, q \in live : r # q => Range(r.addr, r.n) \cap Range(q.addr, q.n) = {}

(* No segment is lost: once grow has returned it, it is on the list that   *)
(* alloc and free walk.                                                    *)
Building == {loc[t].seg : t \in {u \in Threads : pc[u] \in {"index", "publish"}}}

SegmentsListed == DOMAIN segs \subseteq From(map) \cup Building
=============================================================================
