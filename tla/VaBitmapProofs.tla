--------------------------- MODULE VaBitmapProofs ---------------------------
(***************************************************************************)
(* Proofs about module VaBitmap: for any address space, any number of      *)
(* threads and any bounds, segments and the runs taken from them are       *)
(* disjoint however the threads interleave; and, when nobody takes the     *)
(* lock between a thread's two releases of it, addresses handed out are    *)
(* recognised and no segment is lost.                                      *)
(***************************************************************************)
EXTENDS VaBitmap, TLAPS

(* The segments there are, and none. *)
Known == DOMAIN segs \cup {Null}

Locals == [need : Nat, curr : Addresses \cup {Null}, tried : Nat, first : BOOLEAN,
           seg : Addresses \cup {Null}, size : Nat, old : Addresses \cup {Null}]

Runs == [addr : Addresses, n : Nat \ {0}]

KernelOK ==
    /\ mapped \subseteq Addresses
    /\ BASE_HINT \in 0 .. Space /\ BASE_INIT \in BOOLEAN
    /\ LATEST_TRIED \in 0 .. Space /\ RESERVE \in 0 .. RESERVE_TRIES + 1
    /\ lock \in BOOLEAN /\ once \in 0 .. 2

SegOK(s) ==
    /\ segs[s] \in Segments /\ segs[s].start = s
    /\ segs[s].next \in Known
    /\ Range(s, segs[s].size) \subseteq Addresses
    /\ segs[s].bits \subseteq Range(s, segs[s].size)

ListOK ==
    /\ DOMAIN segs \subseteq Addresses
    /\ map \in Known /\ latest_segment \in Known
    /\ \A s \in DOMAIN segs : SegOK(s)
    /\ radix \in [Chunk(0) .. Chunk(Space - 1) -> Known]

(* The reservation that locals l are about. *)
Reserved(l) ==
    /\ l.seg \in Addresses /\ l.size # 0
    /\ Range(l.seg, l.size) \subseteq Addresses

(* The locals l of a thread at place p. *)
Fits(p, l) ==
    /\ l.curr \in Known /\ l.old \in Known
    /\ p \notin {"idle", "freed", "forgive", "unmark"} => l.need # 0
    /\ p \in {"search", "count", "mark", "freed", "forgive", "unmark"} => l.curr # Null
    /\ p = "probe" => l.size # 0
    /\ p \in {"collision", "metadata", "index", "publish"} => Reserved(l)
    /\ p \notin {"collision", "metadata", "index"} => l.seg \in Known
    /\ p = "fresh" => l.seg # Null

LocalOK ==
    /\ pc \in [Threads -> PCs] /\ loc \in [Threads -> Locals]
    /\ \A t \in Threads : Fits(pc[t], loc[t])

(* The reservations that are no segments yet. *)
Reserving == {"collision", "metadata", "index"}

Res(t) == Range(loc[t].seg, loc[t].size)

Extent(s) == Range(s, segs[s].size)

(* Segments and reservations are of the kernel's mappings, and disjoint. *)
Apart ==
    /\ \A s \in DOMAIN segs : Extent(s) \subseteq mapped
    /\ \A s, x \in DOMAIN segs : s # x => Extent(s) \cap Extent(x) = {}
    /\ \A t \in Threads : pc[t] \in Reserving =>
          /\ Res(t) \subseteq mapped
          /\ \A s \in DOMAIN segs : Res(t) \cap Extent(s) = {}
    /\ \A t, u \in Threads :
          t # u /\ pc[t] \in Reserving /\ pc[u] \in Reserving => Res(t) \cap Res(u) = {}

(* The pages of a run are marked in the bitmap of one segment, and no page *)
(* is in two runs.                                                         *)
Marked(r) == \E s \in DOMAIN segs : Range(r.addr, r.n) \subseteq segs[s].bits

Taken ==
    /\ live \subseteq Runs
    /\ \A r \in live : Marked(r)
    /\ RunsDisjoint

(* What holds however the threads interleave. *)
IInv == KernelOK /\ ListOK /\ LocalOK /\ Apart /\ Taken

-----------------------------------------------------------------------------
(* What holds when the lock excludes. *)

Growing == {"reserve", "probe", "collision", "metadata", "index", "publish", "unlock"}

Mutex ==
    /\ \A t \in Threads : pc[t] \in Growing => lock
    /\ \A t, u \in Threads :
          pc[t] \in Growing \cup {"drop"} /\ pc[u] \in Growing \cup {"drop"} => t = u

(* The radix tree knows every page of every segment. *)
Indexed == \A s \in DOMAIN segs : \A a \in Range(s, segs[s].size) : radix[Chunk(a)] = s

(* It knows nothing yet of the chunks of a reservation without collision. *)
Clear == \A t \in Threads : pc[t] \in {"metadata", "index"} =>
            \A c \in SegmentChunks(t) : radix[c] = Null

(* The segment being published links to the head it replaces. *)
Linked ==
    /\ \A t \in Threads : pc[t] \in {"index", "publish"} => loc[t].old = map
    /\ \A t \in Threads : pc[t] = "publish" => segs[loc[t].seg].next = loc[t].old

TInv == Mutex /\ Indexed /\ Clear /\ Linked /\ SegmentsListed

-----------------------------------------------------------------------------
(* Addresses and chunks. *)

(* Division keeps the order. *)
LEMMA DivMono ==
    ASSUME NEW a \in Nat, NEW b \in Nat, NEW c \in Nat \ {0}, a <= b
    PROVE  a \div c \in Nat /\ a \div c <= b \div c
OBVIOUS

(* The chunk of an address lies between those of the ends of its range. *)
LEMMA ChunkIn ==
    ASSUME NEW s \in Nat, NEW n \in Nat, NEW a \in Range(s, n)
    PROVE  Chunk(a) \in Chunk(s) .. Chunk(s + n - 1)
<1>1. a \in Nat /\ s <= a /\ a <= s + n - 1 /\ s + n - 1 \in Nat
  BY DEF Range
<1>2. /\ s \div CHUNK_SIZE \in Nat /\ s \div CHUNK_SIZE <= a \div CHUNK_SIZE
      /\ a \div CHUNK_SIZE \in Nat /\ a \div CHUNK_SIZE <= (s + n - 1) \div CHUNK_SIZE
      /\ (s + n - 1) \div CHUNK_SIZE \in Nat
  BY <1>1, DivMono, VaBitmapAssumption
<1> QED BY <1>2 DEF Chunk

(* Every address has a slot in the radix tree. *)
LEMMA ChunkRange ==
    ASSUME NEW a \in Addresses
    PROVE  Chunk(a) \in Chunk(0) .. Chunk(Space - 1)
<1>1. a \in Range(0, Space) /\ 0 + Space - 1 = Space - 1 /\ Space \in Nat
  BY VaBitmapAssumption DEF Addresses, Range
<1> QED BY <1>1, ChunkIn

(* A range of addresses begins in itself and is no longer than the space. *)
LEMMA RangeFacts ==
    ASSUME NEW s \in Addresses, NEW n \in Nat \ {0}
    PROVE  /\ s \in Range(s, n) /\ s # Null /\ s \in Nat
           /\ Range(s, n) \subseteq Addresses => n \in 1 .. Space
<1>1. s \in Nat /\ s # Null /\ s \in Range(s, n)
  BY VaBitmapAssumption DEF Addresses, Range, Null
<1>2. ASSUME Range(s, n) \subseteq Addresses
      PROVE  n \in 1 .. Space
  <2>1. s + n - 1 \in Range(s, n)
    BY <1>1 DEF Range
  <2>2. s + n - 1 \in Addresses
    BY <1>2, <2>1, Zenon
  <2> QED BY <1>1, <2>2, VaBitmapAssumption DEF Addresses
<1> QED BY <1>1, <1>2, Zenon

(* A capped address stays within the space. *)
LEMMA CappedType == ASSUME NEW n \in Nat PROVE Capped(n) \in 0 .. Space
BY VaBitmapAssumption DEF Capped

-----------------------------------------------------------------------------
(* The steps keep the types. *)

(* A segment that pages were taken from or freed in, or whose counter or   *)
(* mark was written, is the same segment.                                  *)
Same(f, g) ==
    /\ DOMAIN f = DOMAIN g
    /\ \A s \in DOMAIN f : /\ f[s].start = g[s].start /\ f[s].size = g[s].size
                           /\ f[s].next = g[s].next

(* The steps that take a run, and those that write a counter or a mark. *)
Takes(t) == TryLatest(t) \/ WalkTake(t) \/ TakeFresh(t)

Counts(t) == WalkCount(t) \/ WalkMark(t) \/ Forgive(t) \/ Unmark(t)

(* Only these steps write what the kernel and the guards know ... *)
LEMMA KernelWriters ==
    ASSUME [Next]_vars
    PROVE  \/ UNCHANGED <<kernel, lock, once>>
           \/ \E t \in Threads : \/ OnceEnter(t) \/ Lock(t) \/ Reserve(t) \/ ProbeOk(t)
                                 \/ ProbeFail(t) \/ Unlock(t) \/ DropGuard(t) \/ FirstGrown(t)
BY ZenonT(30) DEF Next, vars, Call, Step, Search, Grow, Finish, Forgiving, Alloc, Free,
       realloc_inplace, OnceSpin, Spin, TryLatest, SkipLatest, LoadHead, OnceDone, WalkFull,
       WalkLoad, WalkTake, WalkFail, WalkCount, WalkMark, WalkEnd, Collision, Metadata,
       MetadataFail, Index, Publish, GrowAgain, SetLatest, TakeFresh, FailFresh, LoadFull,
       Forgive, Unmark

(* ... these the list of segments ... *)
LEMMA ListWriters ==
    ASSUME [Next]_vars
    PROVE  \/ UNCHANGED list
           \/ \E t \in Threads : \/ Takes(t) \/ Counts(t) \/ Index(t) \/ Publish(t)
                                 \/ SetLatest(t) \/ Free(t) \/ realloc_inplace(t)
BY ZenonT(30) DEF Next, vars, Call, Step, Search, Grow, Finish, Forgiving, Takes, Counts,
       Alloc, OnceSpin, Spin, SkipLatest, LoadHead, OnceEnter, OnceDone, WalkFull, WalkLoad,
       WalkFail, WalkEnd, Lock, Reserve, ProbeOk, ProbeFail, Collision, Metadata, MetadataFail,
       Unlock, DropGuard, FirstGrown, GrowAgain, FailFresh, LoadFull

(* ... and these the runs. *)
LEMMA PageWriters ==
    ASSUME [Next]_vars
    PROVE  \/ live' = live
           \/ \E t \in Threads : Takes(t) \/ Free(t) \/ realloc_inplace(t)
BY ZenonT(30) DEF Next, vars, Call, Step, Search, Grow, Finish, Forgiving, Takes, Alloc,
       OnceSpin, Spin, SkipLatest, LoadHead, OnceEnter, OnceDone, WalkFull, WalkLoad, WalkFail,
       WalkCount, WalkMark, WalkEnd, Lock, Reserve, ProbeOk, ProbeFail, Collision, Metadata,
       MetadataFail, Index, Publish, Unlock, DropGuard, FirstGrown, GrowAgain, SetLatest,
       FailFresh, LoadFull, Forgive, Unmark

(* What is known of the kernel keeps its bounds. *)
LEMMA KernelKept ==
    ASSUME IInv, [Next]_vars
    PROVE  KernelOK'
<1>0. KernelOK /\ LocalOK
  BY Zenon DEF IInv
<1>1. CASE UNCHANGED <<kernel, lock, once>>
  BY <1>0, <1>1, Zenon DEF KernelOK, kernel
<1>2. ASSUME NEW t \in Threads, OnceEnter(t) \/ Lock(t) \/ Unlock(t) \/ DropGuard(t) \/ FirstGrown(t)
      PROVE  KernelOK'
  <2>1. UNCHANGED kernel /\ lock' \in {lock, TRUE, FALSE} /\ once' \in {once, 1, 2}
    BY <1>2, Zenon DEF OnceEnter, Lock, Unlock, DropGuard, FirstGrown
  <2>2. lock' \in BOOLEAN /\ once' \in 0 .. 2
    <3>1. 1 \in 0 .. 2 /\ 2 \in 0 .. 2
      OBVIOUS
    <3> QED BY <1>0, <2>1, <3>1, Zenon DEF KernelOK
  <2> QED BY <1>0, <2>1, <2>2, Zenon DEF KernelOK, kernel
<1>3. ASSUME NEW t \in Threads, Reserve(t)
      PROVE  KernelOK'
  <2>1. /\ UNCHANGED <<mapped, BASE_INIT, LATEST_TRIED, lock, once>>
        /\ RESERVE' = IF RESERVE > RESERVE_TRIES THEN RESERVE ELSE RESERVE + 1
        /\ \E r \in 0 .. (IF LATEST_TRIED = 0 THEN 0 ELSE LATEST_TRIED - 1) :
              BASE_HINT' = Capped(BASE_HINT + r)
    BY <1>3, Zenon DEF Reserve
  <2>2. RESERVE' \in 0 .. RESERVE_TRIES + 1
    BY <1>0, <2>1, VaBitmapAssumption DEF KernelOK
  <2>3. PICK h \in Nat : BASE_HINT' = Capped(h)
    BY <1>0, <2>1 DEF KernelOK
  <2> QED BY <1>0, <2>1, <2>2, <2>3, CappedType, Zenon DEF KernelOK
<1>4. ASSUME NEW t \in Threads, ProbeOk(t)
      PROVE  KernelOK'
  <2>1. PICK a \in Places(loc[t].size) :
           /\ mapped' = mapped \cup Range(a, loc[t].size)
           /\ BASE_HINT' = IF BASE_INIT THEN Capped(BASE_HINT + loc[t].size) ELSE a
    BY <1>4, Zenon DEF ProbeOk
  <2>2. /\ BASE_INIT' = TRUE /\ UNCHANGED <<RESERVE, lock, once>> /\ pc[t] = "probe"
        /\ LATEST_TRIED' \in {loc[t].size, LATEST_TRIED}
    BY <1>4, Zenon DEF ProbeOk
  <2>3. loc[t].size \in Nat \ {0} /\ a \in Addresses /\ Range(a, loc[t].size) \subseteq Addresses
    BY <1>0, <2>1, <2>2, Zenon DEF LocalOK, Fits, Locals, Places
  <2>4. loc[t].size \in 0 .. Space /\ a \in 0 .. Space /\ BASE_HINT + loc[t].size \in Nat
    <3>1. loc[t].size \in 1 .. Space
      BY <2>3, RangeFacts, Zenon
    <3> QED BY <1>0, <2>3, <3>1, VaBitmapAssumption DEF Addresses, KernelOK
  <2> QED BY <1>0, <2>1, <2>2, <2>3, <2>4, CappedType, Zenon DEF KernelOK
<1>5. ASSUME NEW t \in Threads, ProbeFail(t)
      PROVE  KernelOK'
  <2>1. /\ UNCHANGED <<mapped, LATEST_TRIED, RESERVE, lock, once>>
        /\ BASE_INIT' \in {BASE_INIT, FALSE}
        /\ BASE_HINT' \in {BASE_HINT, Capped(BASE_HINT + loc[t].size)}
    BY <1>5, Zenon DEF ProbeFail
  <2>2. loc[t].size \in Nat
    BY <1>0, Zenon DEF LocalOK, Locals
  <2>3. BASE_HINT + loc[t].size \in Nat
    BY <1>0, <2>2 DEF KernelOK
  <2> QED BY <1>0, <2>1, <2>3, CappedType, Zenon DEF KernelOK
<1> QED BY <1>1, <1>2, <1>3, <1>4, <1>5, KernelWriters, Zenon

(* A segment's counter, mark or bits are written, and nothing else of it. *)
LEMMA Rewritten ==
    ASSUME ListOK, NEW s \in DOMAIN segs, NEW g \in Segments, segs' = [segs EXCEPT ![s] = g],
           g.start = segs[s].start, g.size = segs[s].size, g.next = segs[s].next,
           g.bits \subseteq Range(s, g.size)
    PROVE  /\ Same(segs, segs') /\ \A x \in DOMAIN segs : SegOK(x)'
           /\ segs'[s] = g /\ \A x \in DOMAIN segs \ {s} : segs'[x] = segs[x]
<1>1. /\ DOMAIN segs' = DOMAIN segs
      /\ \A x \in DOMAIN segs \ {s} : segs'[x] = segs[x]
      /\ segs'[s] = g
  BY Zenon
<1>2. SegOK(s)
  BY Zenon DEF ListOK
<1>3. SegOK(s)'
  BY <1>1, <1>2, Zenon DEF SegOK, Known
<1>4. ASSUME NEW x \in DOMAIN segs \ {s}
      PROVE  SegOK(x)'
  BY <1>1, <1>4, Zenon DEF SegOK, Known, ListOK
<1> QED BY <1>1, <1>3, <1>4, Zenon DEF Same

(* The segment that free works on is one of the list. *)
LEMMA LocateKnown == ASSUME NEW a PROVE Locate(a) \subseteq DOMAIN segs
BY Zenon DEF Locate, is_ours, Holds

(* A thread that searches or frees has a segment. *)
LEMMA HasSegment ==
    ASSUME IInv, NEW t \in Threads,
           pc[t] \in {"search", "count", "mark", "freed", "forgive", "unmark"} \/ Walking(t)
    PROVE  loc[t].curr \in DOMAIN segs
BY Zenon DEF IInv, LocalOK, Fits, Known, Walking

(* The counter or the mark of a segment is written; its pages stay. *)
LEMMA CountsKeep ==
    ASSUME IInv, NEW t \in Threads, Counts(t)
    PROVE  /\ Same(segs, segs') /\ \A x \in DOMAIN segs : SegOK(x)'
           /\ \A x \in DOMAIN segs : segs'[x].bits = segs[x].bits
<1>1. PICK s : s = loc[t].curr
  BY Zenon
<1>2. s \in DOMAIN segs
  BY <1>1, HasSegment, Zenon DEF Counts, WalkCount, WalkMark, Forgive, Unmark
<1>3. segs[s] \in Segments /\ segs[s].bits \subseteq Range(s, segs[s].size)
  BY <1>2, Zenon DEF IInv, ListOK, SegOK
<1>4. PICK n \in 0 .. TRYS_RANGE - 1, m \in BOOLEAN :
         segs' = [segs EXCEPT ![s] = [segs[s] EXCEPT !.failed_trys = n, !.full = m]]
  <2>0. segs[s].failed_trys \in 0 .. TRYS_RANGE - 1 /\ segs[s].full \in BOOLEAN
    BY <1>3, Zenon DEF Segments
  <2>1. /\ (segs[s].failed_trys + 1) % TRYS_RANGE \in 0 .. TRYS_RANGE - 1
        /\ (segs[s].failed_trys - 1) % TRYS_RANGE \in 0 .. TRYS_RANGE - 1
    BY <2>0, VaBitmapAssumption
  <2>2. CASE WalkCount(t)
    <3>1. segs' = [segs EXCEPT ![s] = [segs[s] EXCEPT
                      !.failed_trys = (segs[s].failed_trys + 1) % TRYS_RANGE]]
      BY <1>1, <2>2, Zenon DEF WalkCount
    <3>2. [segs[s] EXCEPT !.failed_trys = (segs[s].failed_trys + 1) % TRYS_RANGE]
          = [segs[s] EXCEPT !.failed_trys = (segs[s].failed_trys + 1) % TRYS_RANGE,
                            !.full = segs[s].full]
      BY <1>3, Zenon DEF Segments
    <3> QED BY <2>0, <2>1, <3>1, <3>2, Zenon
  <2>3. CASE Forgive(t)
    <3>1. segs' = [segs EXCEPT ![s] = [segs[s] EXCEPT
                      !.failed_trys = (segs[s].failed_trys - 1) % TRYS_RANGE]]
      BY <1>1, <2>3, Zenon DEF Forgive
    <3>2. [segs[s] EXCEPT !.failed_trys = (segs[s].failed_trys - 1) % TRYS_RANGE]
          = [segs[s] EXCEPT !.failed_trys = (segs[s].failed_trys - 1) % TRYS_RANGE,
                            !.full = segs[s].full]
      BY <1>3, Zenon DEF Segments
    <3> QED BY <2>0, <2>1, <3>1, <3>2, Zenon
  <2>4. ASSUME NEW m \in BOOLEAN, segs' = [segs EXCEPT ![s] = [segs[s] EXCEPT !.full = m]]
        PROVE  segs' = [segs EXCEPT ![s] = [segs[s] EXCEPT
                           !.failed_trys = segs[s].failed_trys, !.full = m]]
    <3>1. [segs[s] EXCEPT !.full = m]
          = [segs[s] EXCEPT !.failed_trys = segs[s].failed_trys, !.full = m]
      BY <1>3, Zenon DEF Segments
    <3> QED BY <2>4, <3>1, Zenon
  <2>5. CASE WalkMark(t) \/ Unmark(t)
    <3>1. \E m \in BOOLEAN : segs' = [segs EXCEPT ![s] = [segs[s] EXCEPT !.full = m]]
      BY <1>1, <2>5, Zenon DEF WalkMark, Unmark
    <3> QED BY <2>0, <2>4, <3>1, Zenon
  <2> QED BY <2>2, <2>3, <2>5, Zenon DEF Counts
<1>5. PICK g : g = [segs[s] EXCEPT !.failed_trys = n, !.full = m]
  BY Zenon
<1>6. /\ g \in Segments /\ g.start = segs[s].start /\ g.size = segs[s].size
      /\ g.next = segs[s].next /\ g.bits = segs[s].bits
  BY <1>3, <1>5, Zenon DEF Segments
<1> QED BY <1>2, <1>3, <1>4, <1>5, <1>6, Rewritten, Zenon DEF IInv

(* The bits of a segment are written, within its extent. *)
LEMMA BitsWritten ==
    ASSUME IInv, NEW s \in DOMAIN segs, NEW B \in SUBSET Extent(s),
           segs' = [segs EXCEPT ![s].bits = B]
    PROVE  /\ Same(segs, segs') /\ \A x \in DOMAIN segs : SegOK(x)'
           /\ segs'[s].bits = B
           /\ \A x \in DOMAIN segs \ {s} : segs'[x].bits = segs[x].bits
<1>1. /\ segs[s] \in Segments /\ Extent(s) \subseteq Addresses
      /\ segs' = [segs EXCEPT ![s] = [segs[s] EXCEPT !.bits = B]]
  BY Zenon DEF IInv, ListOK, SegOK, Extent
<1>2. PICK g : g = [segs[s] EXCEPT !.bits = B]
  BY Zenon
<1>3. B \in SUBSET Addresses
  BY <1>1, Zenon
<1>4. /\ g \in Segments /\ g.start = segs[s].start /\ g.size = segs[s].size
      /\ g.next = segs[s].next /\ g.bits = B
  BY <1>1, <1>2, <1>3, Zenon DEF Segments
<1> QED BY <1>1, <1>2, <1>4, Rewritten, Zenon DEF IInv, Extent

(* A reservation becomes a segment. *)
LEMMA IndexAdds ==
    ASSUME IInv, NEW t \in Threads, Index(t)
    PROVE  /\ DOMAIN segs' = DOMAIN segs \cup {loc[t].seg}
           /\ \A x \in DOMAIN segs \ {loc[t].seg} : segs'[x] = segs[x]
           /\ segs'[loc[t].seg] = NewSegment(t)
           /\ \A x \in DOMAIN segs' : SegOK(x)'
           /\ radix' \in [Chunk(0) .. Chunk(Space - 1) -> Known']
           /\ loc[t].seg \in Addresses /\ loc[t].size \in Nat \ {0}
           /\ Range(loc[t].seg, loc[t].size) \subseteq Addresses
           /\ loc[t].seg \notin DOMAIN segs
<1>0. Fits("index", loc[t]) /\ loc[t] \in Locals /\ ListOK
  BY Zenon DEF IInv, LocalOK, Index
<1>1. /\ loc[t].seg \in Addresses /\ loc[t].size \in Nat \ {0} /\ loc[t].old \in Known
      /\ Range(loc[t].seg, loc[t].size) \subseteq Addresses
  BY <1>0, Zenon DEF Fits, Reserved, Locals
<1>2. PICK s \in Addresses : s = loc[t].seg
  BY <1>1, Zenon
<1>3. segs' = [x \in DOMAIN segs \cup {s} |-> IF x = s THEN NewSegment(t) ELSE segs[x]]
  BY <1>2, Zenon DEF Index
<1>4. /\ DOMAIN segs' = DOMAIN segs \cup {s} /\ segs'[s] = NewSegment(t)
      /\ \A x \in DOMAIN segs \ {s} : segs'[x] = segs[x]
  BY <1>3, Zenon
<1>5. Known \subseteq Known' /\ s \in Known'
  BY <1>4, Zenon DEF Known
<1>6. SegOK(s)'
  <2>1. /\ segs'[s].start = s /\ segs'[s].size = loc[t].size /\ segs'[s].next = loc[t].old
        /\ segs'[s].full = FALSE /\ segs'[s].failed_trys = 0 /\ segs'[s].bits = {}
    <3>1. /\ NewSegment(t).start = loc[t].seg /\ NewSegment(t).size = loc[t].size
          /\ NewSegment(t).next = loc[t].old
          /\ NewSegment(t).full = FALSE /\ NewSegment(t).failed_trys = 0
          /\ NewSegment(t).bits = {}
      BY DEF NewSegment
    <3> QED BY <1>2, <1>4, <3>1, Zenon
  <2>2. loc[t].size \in 1 .. Space
    BY <1>1, RangeFacts, Zenon
  <2>3. 0 \in 0 .. TRYS_RANGE - 1
    BY VaBitmapAssumption
  <2>4. loc[t].old \in Addresses \cup {Null}
    BY <1>0, Zenon DEF Locals
  <2>5. segs'[s] \in Segments
    <3>1. NewSegment(t) \in Segments
      BY <1>1, <2>2, <2>3, <2>4, Zenon DEF Segments, NewSegment
    <3> QED BY <1>4, <3>1, Zenon
  <2> QED BY <1>1, <1>2, <1>5, <2>1, <2>5, Zenon DEF SegOK
<1>7. ASSUME NEW x \in DOMAIN segs \ {s}
      PROVE  SegOK(x)'
  BY <1>0, <1>4, <1>5, <1>7, Zenon DEF SegOK, ListOK
<1>8. radix' \in [Chunk(0) .. Chunk(Space - 1) -> Known']
  <2>1. radix' = [c \in DOMAIN radix |-> IF c \in SegmentChunks(t) THEN s ELSE radix[c]]
    BY <1>2, Zenon DEF Index
  <2> QED BY <1>0, <1>5, <2>1, Zenon DEF ListOK
<1>9. s \notin DOMAIN segs
  <2>1. s \in Res(t) /\ \A x \in DOMAIN segs : Res(t) \cap Extent(x) = {}
    BY <1>1, <1>2, RangeFacts, Zenon DEF IInv, Apart, Res, Reserving, Index
  <2>2. ASSUME s \in DOMAIN segs PROVE s \in Extent(s)
    <3>1. segs[s].size \in 1 .. Space
      BY <2>2, Zenon DEF IInv, ListOK, SegOK, Segments
    <3>2. segs[s].size \in Nat \ {0}
      BY <3>1, VaBitmapAssumption
    <3> QED BY <3>2, RangeFacts, Zenon DEF Extent
  <2> QED BY <2>1, <2>2, Zenon
<1> QED BY <1>1, <1>2, <1>4, <1>6, <1>7, <1>8, <1>9, Zenon

(* What taking a run changes: the new run was free, in segment s. *)
LEMMA TakeFacts ==
    ASSUME IInv, NEW t \in Threads, Takes(t)
    PROVE  \E s \in DOMAIN segs : \E r \in Runs :
              /\ Range(r.addr, r.n) \subseteq Extent(s) \ segs[s].bits
              /\ segs' = [segs EXCEPT ![s].bits = segs[s].bits \cup Range(r.addr, r.n)]
              /\ live' = live \cup {r}
<1>0. PICK s \in DOMAIN segs : Take(t, s)
  BY HasSegment, Zenon DEF IInv, ListOK, LocalOK, Fits, Known, Takes, TryLatest, WalkTake, TakeFresh
<1>1. loc[t].need \in Nat \ {0} /\ segs[s].start = s
  BY Zenon DEF Takes, TryLatest, WalkTake, TakeFresh, IInv, LocalOK, Locals, Fits, ListOK, SegOK
<1>2. PICK a \in Addresses :
         /\ Range(a, loc[t].need) \subseteq Range(segs[s].start, segs[s].size) \ segs[s].bits
         /\ segs' = [segs EXCEPT ![s].bits = segs[s].bits \cup Range(a, loc[t].need)]
         /\ live' = live \cup {[addr |-> a, n |-> loc[t].need]}
  BY <1>0, Zenon DEF Take, FreeRuns
<1>3. PICK r \in Runs : r = [addr |-> a, n |-> loc[t].need]
  BY <1>1, Zenon DEF Runs
<1>4. r.addr = a /\ r.n = loc[t].need
  BY <1>3
<1> QED BY <1>1, <1>2, <1>3, <1>4, Zenon DEF Extent

(* What a free changes: the bits of the run in one segment, unless none is *)
(* found.                                                                  *)
LEMMA FreeFacts ==
    ASSUME NEW t \in Threads, Free(t)
    PROVE  \E r \in live :
              /\ live' = live \ {r}
              /\ \/ segs' = segs
                 \/ \E s \in DOMAIN segs :
                       segs' = [segs EXCEPT ![s].bits = segs[s].bits \ Range(r.addr, r.n)]
<1>1. PICK r \in live :
         /\ live' = live \ {r}
         /\ IF Locate(r.addr) = {} THEN segs' = segs
            ELSE LET s == CHOOSE x \in Locate(r.addr) : TRUE
                 IN  segs' = [segs EXCEPT ![s].bits = @ \ Range(r.addr, r.n)]
  BY Zenon DEF Free
<1>2. CASE Locate(r.addr) # {}
  <2>1. PICK s : s = CHOOSE x \in Locate(r.addr) : TRUE
    BY Zenon
  <2>2. s \in DOMAIN segs
    BY <1>2, <2>1, LocateKnown, Zenon
  <2> QED BY <1>1, <1>2, <2>1, <2>2, Zenon
<1> QED BY <1>1, <1>2, Zenon

(* What a resize changes: the pages it adds are free, in a segment that    *)
(* has the run's address.                                                  *)
LEMMA ReallocFacts ==
    ASSUME IInv, NEW t \in Threads, realloc_inplace(t)
    PROVE  \E r \in live : \E q \in Runs : \E s \in DOMAIN segs :
              /\ q.addr = r.addr /\ r.addr \in Extent(s)
              /\ Range(q.addr, q.n) \ Range(r.addr, r.n) \subseteq Extent(s) \ segs[s].bits
              /\ segs' = [segs EXCEPT ![s].bits =
                             (segs[s].bits \ Range(r.addr, r.n)) \cup Range(q.addr, q.n)]
              /\ live' = (live \ {r}) \cup {q}
<1>1. PICK r \in live, n \in Needs : \E s \in Locate(r.addr) :
         /\ Added(r, n) \subseteq Range(segs[s].start, segs[s].size)
         /\ Added(r, n) \cap segs[s].bits = {}
         /\ Resize(s, r, [r EXCEPT !.n = n])
  BY Zenon DEF realloc_inplace
<1>2. PICK s \in Locate(r.addr) :
         /\ Added(r, n) \subseteq Range(segs[s].start, segs[s].size)
         /\ Added(r, n) \cap segs[s].bits = {}
         /\ Resize(s, r, [r EXCEPT !.n = n])
  BY <1>1, Zenon
<1>3. r \in Runs /\ n \in Nat \ {0}
  BY <1>1, VaBitmapAssumption, Zenon DEF IInv, Taken
<1>4. PICK q : q = [r EXCEPT !.n = n]
  BY Zenon
<1>5. q \in Runs /\ q.addr = r.addr /\ q.n = n
  BY <1>3, <1>4 DEF Runs
<1>6. s \in DOMAIN segs /\ segs[s].start = s /\ r.addr \in Extent(s)
  <2>1. s \in DOMAIN segs
    BY LocateKnown, Zenon
  <2>2. segs[s].start = s /\ r.addr \in Range(segs[s].start, segs[s].size)
    BY <2>1, Zenon DEF IInv, ListOK, SegOK, Locate, is_ours, Holds
  <2> QED BY <2>1, <2>2, Zenon DEF Extent
<1> QED BY <1>2, <1>4, <1>5, <1>6, Zenon DEF Added, Resize, Extent

(* The segment that has a run's address has the run. *)
LEMMA MarkedIn ==
    ASSUME IInv, NEW r \in live, NEW s \in DOMAIN segs, r.addr \in Extent(s)
    PROVE  Range(r.addr, r.n) \subseteq segs[s].bits /\ segs[s].bits \subseteq Extent(s)
<1>1. PICK x \in DOMAIN segs : Range(r.addr, r.n) \subseteq segs[x].bits
  BY Zenon DEF IInv, Taken, Marked
<1>2. \A y \in DOMAIN segs : segs[y].bits \subseteq Extent(y)
  BY Zenon DEF IInv, ListOK, SegOK, Extent
<1>3. r.addr \in Range(r.addr, r.n)
  <2>1. r.addr \in Addresses /\ r.n \in Nat \ {0}
    BY Zenon DEF IInv, Taken, Runs
  <2> QED BY <2>1, RangeFacts, Zenon
<1>4. x = s
  BY <1>1, <1>2, <1>3, Zenon DEF IInv, Apart
<1> QED BY <1>1, <1>2, <1>4, Zenon

(* Runs are taken, freed and resized within segments. *)
LEMMA RunsWrite ==
    ASSUME IInv, NEW t \in Threads, Takes(t) \/ Free(t) \/ realloc_inplace(t)
    PROVE  Same(segs, segs') /\ \A x \in DOMAIN segs : SegOK(x)'
<1>0. \A y \in DOMAIN segs : segs[y].bits \subseteq Extent(y)
  BY Zenon DEF IInv, ListOK, SegOK, Extent
<1>1. CASE segs' = segs
  BY <1>1, Zenon DEF Same, IInv, ListOK, SegOK, Known
<1>2. ASSUME NEW s \in DOMAIN segs, NEW B \in SUBSET Extent(s),
             segs' = [segs EXCEPT ![s].bits = B]
      PROVE  Same(segs, segs') /\ \A x \in DOMAIN segs : SegOK(x)'
  BY <1>2, BitsWritten, Zenon
<1>3. CASE Takes(t)
  <2>1. PICK s \in DOMAIN segs, r \in Runs :
           /\ Range(r.addr, r.n) \subseteq Extent(s) \ segs[s].bits
           /\ segs' = [segs EXCEPT ![s].bits = segs[s].bits \cup Range(r.addr, r.n)]
    BY <1>3, TakeFacts, Zenon
  <2>2. segs[s].bits \cup Range(r.addr, r.n) \in SUBSET Extent(s)
    BY <1>0, <2>1, Zenon
  <2> QED BY <1>2, <2>1, <2>2, Zenon
<1>4. CASE Free(t)
  <2>1. PICK r \in live : \/ segs' = segs
                         \/ \E s \in DOMAIN segs :
                              segs' = [segs EXCEPT ![s].bits = segs[s].bits \ Range(r.addr, r.n)]
    BY <1>4, FreeFacts, Zenon
  <2>2. ASSUME NEW s \in DOMAIN segs
        PROVE  segs[s].bits \ Range(r.addr, r.n) \in SUBSET Extent(s)
    BY <1>0, Zenon
  <2> QED BY <1>1, <1>2, <2>1, <2>2, Zenon
<1>5. CASE realloc_inplace(t)
  <2>0. PICK r \in live : \E q \in Runs : \E s \in DOMAIN segs :
              /\ q.addr = r.addr /\ r.addr \in Extent(s)
              /\ Range(q.addr, q.n) \ Range(r.addr, r.n) \subseteq Extent(s) \ segs[s].bits
              /\ segs' = [segs EXCEPT ![s].bits =
                             (segs[s].bits \ Range(r.addr, r.n)) \cup Range(q.addr, q.n)]
    BY <1>5, ReallocFacts, Zenon
  <2>1. PICK q \in Runs, s \in DOMAIN segs :
              /\ q.addr = r.addr /\ r.addr \in Extent(s)
              /\ Range(q.addr, q.n) \ Range(r.addr, r.n) \subseteq Extent(s) \ segs[s].bits
              /\ segs' = [segs EXCEPT ![s].bits =
                             (segs[s].bits \ Range(r.addr, r.n)) \cup Range(q.addr, q.n)]
    BY <2>0, Zenon
  <2>2. Range(r.addr, r.n) \subseteq Extent(s)
    BY <2>1, MarkedIn, Zenon
  <2>3. (segs[s].bits \ Range(r.addr, r.n)) \cup Range(q.addr, q.n) \in SUBSET Extent(s)
    BY <1>0, <2>1, <2>2, Zenon
  <2> QED BY <1>2, <2>1, <2>3, Zenon
<1> QED BY <1>3, <1>4, <1>5, Zenon

(* The list keeps its shape. *)
LEMMA ListKept ==
    ASSUME IInv, [Next]_vars
    PROVE  ListOK' /\ Known \subseteq Known'
<1>0. ListOK /\ LocalOK
  BY Zenon DEF IInv
<1>1. CASE UNCHANGED list
  BY <1>0, <1>1, Zenon DEF list, ListOK, SegOK, Known
<1>2. ASSUME NEW t \in Threads, SetLatest(t) \/ Publish(t)
      PROVE  ListOK' /\ Known \subseteq Known'
  <2>1. UNCHANGED <<segs, radix>> /\ {map', latest_segment'} \subseteq Known
    BY <1>0, <1>2, Zenon DEF SetLatest, Publish, LocalOK, Fits, ListOK
  <2> QED BY <1>0, <2>1, Zenon DEF ListOK, SegOK, Known
<1>3. ASSUME NEW t \in Threads, Takes(t) \/ Counts(t) \/ Free(t) \/ realloc_inplace(t)
      PROVE  ListOK' /\ Known \subseteq Known'
  <2>1. Same(segs, segs') /\ \A x \in DOMAIN segs : SegOK(x)'
    BY <1>3, CountsKeep, RunsWrite, Zenon
  <2>2. UNCHANGED <<map, radix>> /\ latest_segment' \in Known
    BY <1>0, <1>3, Zenon DEF Takes, TryLatest, WalkTake, TakeFresh, Counts, WalkCount, WalkMark,
       Forgive, Unmark, Free, realloc_inplace, LocalOK, Fits, ListOK
  <2> QED BY <1>0, <2>1, <2>2, Zenon DEF ListOK, Same, Known
<1>4. ASSUME NEW t \in Threads, Index(t)
      PROVE  ListOK' /\ Known \subseteq Known'
  <2>1. UNCHANGED <<map, latest_segment>>
    BY <1>4, Zenon DEF Index
  <2>2. Known \subseteq Known' /\ DOMAIN segs' \subseteq Addresses
    BY <1>0, <1>4, IndexAdds, Zenon DEF Known, ListOK
  <2> QED BY <1>0, <1>4, <2>1, <2>2, IndexAdds, Zenon DEF ListOK
<1> QED BY <1>1, <1>2, <1>3, <1>4, ListWriters, Zenon

(* Runs stay marked in one segment and disjoint, however the threads       *)
(* interleave.                                                             *)
LEMMA TakenKept ==
    ASSUME IInv, [Next]_vars
    PROVE  Taken'
<1>0. Taken /\ \A y \in DOMAIN segs : segs[y].bits \subseteq Extent(y)
  BY Zenon DEF IInv, ListOK, SegOK, Extent
<1>1. ASSUME live' = live, \A x \in DOMAIN segs : x \in DOMAIN segs' /\ segs'[x].bits = segs[x].bits
      PROVE  Taken'
  BY <1>0, <1>1, Zenon DEF Taken, Marked, RunsDisjoint
<1>2. ASSUME NEW t \in Threads, Takes(t)
      PROVE  Taken'
  <2>1. PICK s \in DOMAIN segs, r \in Runs :
           /\ Range(r.addr, r.n) \subseteq Extent(s) \ segs[s].bits
           /\ segs' = [segs EXCEPT ![s].bits = segs[s].bits \cup Range(r.addr, r.n)]
           /\ live' = live \cup {r}
    BY <1>2, TakeFacts, Zenon
  <2>2. PICK B : B = segs[s].bits \cup Range(r.addr, r.n)
    BY Zenon
  <2>3. /\ DOMAIN segs' = DOMAIN segs /\ segs'[s].bits = B
        /\ \A x \in DOMAIN segs \ {s} : segs'[x].bits = segs[x].bits
    <3>1. B \in SUBSET Extent(s) /\ segs' = [segs EXCEPT ![s].bits = B]
      BY <1>0, <2>1, <2>2, Zenon
    <3> QED BY <3>1, BitsWritten, Zenon DEF Same
  <2>4. ASSUME NEW q \in live
        PROVE  Range(q.addr, q.n) \cap Range(r.addr, r.n) = {}
    <3>1. PICK x \in DOMAIN segs : Range(q.addr, q.n) \subseteq segs[x].bits
      BY <1>0, Zenon DEF Taken, Marked
    <3>2. CASE x = s
      BY <2>1, <3>1, <3>2, Zenon
    <3>3. CASE x # s
      BY <1>0, <2>1, <3>1, <3>3, Zenon DEF IInv, Apart
    <3> QED BY <3>2, <3>3, Zenon
  <2>5. RunsDisjoint'
    BY <1>0, <2>1, <2>4, Zenon DEF Taken, RunsDisjoint
  <2>6. \A x \in DOMAIN segs : segs[x].bits \subseteq segs'[x].bits
    BY <2>2, <2>3, Zenon
  <2>7. \A q \in live' : Marked(q)'
    BY <1>0, <2>1, <2>2, <2>3, <2>6, Zenon DEF Taken, Marked
  <2> QED BY <1>0, <2>1, <2>5, <2>7, Zenon DEF Taken
<1>3. ASSUME NEW t \in Threads, Free(t)
      PROVE  Taken'
  <2>1. PICK r \in live : /\ live' = live \ {r}
                         /\ \/ segs' = segs
                            \/ \E s \in DOMAIN segs :
                              segs' = [segs EXCEPT ![s].bits = segs[s].bits \ Range(r.addr, r.n)]
    BY <1>3, FreeFacts, Zenon
  <2>2. ASSUME NEW x \in DOMAIN segs
        PROVE  x \in DOMAIN segs' /\ segs[x].bits \ Range(r.addr, r.n) \subseteq segs'[x].bits
    <3>1. CASE segs' = segs
      BY <3>1, Zenon
    <3>2. ASSUME NEW s \in DOMAIN segs,
                 segs' = [segs EXCEPT ![s].bits = segs[s].bits \ Range(r.addr, r.n)]
          PROVE  x \in DOMAIN segs' /\ segs[x].bits \ Range(r.addr, r.n) \subseteq segs'[x].bits
      <4>1. PICK B : B = segs[s].bits \ Range(r.addr, r.n)
        BY Zenon
      <4>2. B \in SUBSET Extent(s)
        BY <1>0, <4>1, Zenon
      <4>3. /\ DOMAIN segs' = DOMAIN segs /\ segs'[s].bits = B
            /\ \A y \in DOMAIN segs \ {s} : segs'[y].bits = segs[y].bits
        BY <3>2, <4>1, <4>2, BitsWritten, Zenon DEF Same
      <4> QED BY <4>1, <4>3, Zenon
    <3> QED BY <2>1, <3>1, <3>2, Zenon
  <2>3. \A q \in live' : Marked(q)'
    BY <1>0, <2>1, <2>2, Zenon DEF Taken, RunsDisjoint, Marked
  <2>4. RunsDisjoint'
    BY <1>0, <2>1, Zenon DEF Taken, RunsDisjoint
  <2> QED BY <1>0, <2>1, <2>3, <2>4, Zenon DEF Taken
<1>4. ASSUME NEW t \in Threads, realloc_inplace(t)
      PROVE  Taken'
  <2>0. PICK r \in live : \E q \in Runs : \E s \in DOMAIN segs :
              /\ q.addr = r.addr /\ r.addr \in Extent(s)
              /\ Range(q.addr, q.n) \ Range(r.addr, r.n) \subseteq Extent(s) \ segs[s].bits
              /\ segs' = [segs EXCEPT ![s].bits =
                             (segs[s].bits \ Range(r.addr, r.n)) \cup Range(q.addr, q.n)]
              /\ live' = (live \ {r}) \cup {q}
    BY <1>4, ReallocFacts, Zenon
  <2>1. PICK q \in Runs, s \in DOMAIN segs :
              /\ q.addr = r.addr /\ r.addr \in Extent(s)
              /\ Range(q.addr, q.n) \ Range(r.addr, r.n) \subseteq Extent(s) \ segs[s].bits
              /\ segs' = [segs EXCEPT ![s].bits =
                             (segs[s].bits \ Range(r.addr, r.n)) \cup Range(q.addr, q.n)]
              /\ live' = (live \ {r}) \cup {q}
    BY <2>0, Zenon
  <2>2. PICK B : B = (segs[s].bits \ Range(r.addr, r.n)) \cup Range(q.addr, q.n)
    BY Zenon
  <2>3. Range(r.addr, r.n) \subseteq segs[s].bits /\ B \in SUBSET Extent(s)
    BY <1>0, <2>1, <2>2, MarkedIn, Zenon
  <2>4. /\ DOMAIN segs' = DOMAIN segs /\ segs'[s].bits = B
        /\ \A x \in DOMAIN segs \ {s} : segs'[x].bits = segs[x].bits
    BY <2>1, <2>2, <2>3, BitsWritten, Zenon DEF Same
  <2>5. ASSUME NEW p \in live \ {r}
        PROVE  Range(p.addr, p.n) \cap Range(q.addr, q.n) = {} /\ Marked(p)'
    <3>0. Range(p.addr, p.n) \cap Range(r.addr, r.n) = {}
      BY <1>0, Zenon DEF Taken, RunsDisjoint
    <3>1. PICK x \in DOMAIN segs : Range(p.addr, p.n) \subseteq segs[x].bits
      BY <1>0, Zenon DEF Taken, Marked
    <3>2. CASE x = s
      BY <2>1, <2>2, <2>4, <3>0, <3>1, <3>2, Zenon DEF Marked
    <3>3. CASE x # s
      <4>1. Extent(x) \cap Extent(s) = {} /\ segs[x].bits \subseteq Extent(x)
        BY <1>0, <3>3, Zenon DEF IInv, Apart
      <4>2. Range(q.addr, q.n) \subseteq Extent(s)
        BY <2>2, <2>3, Zenon
      <4> QED BY <2>4, <3>1, <3>3, <4>1, <4>2, Zenon DEF Marked
    <3> QED BY <3>2, <3>3, Zenon
  <2>6. RunsDisjoint'
    BY <1>0, <2>1, <2>5, Zenon DEF Taken, RunsDisjoint
  <2>7. \A p \in live' : Marked(p)'
    <3>1. Marked(q)'
      BY <2>2, <2>4, Zenon DEF Marked
    <3> QED BY <2>1, <2>5, <3>1, Zenon
  <2> QED BY <1>0, <2>1, <2>6, <2>7, Zenon DEF Taken
<1>5. ASSUME NEW t \in Threads, Counts(t)
      PROVE  Taken'
  <2>1. live' = live
    BY <1>5, Zenon DEF Counts, WalkCount, WalkMark, Forgive, Unmark
  <2> QED BY <1>1, <1>5, <2>1, CountsKeep, Zenon DEF Same
<1>6. ASSUME NEW t \in Threads, Index(t)
      PROVE  Taken'
  <2>1. live' = live
    BY <1>6, Zenon DEF Index
  <2>2. \A x \in DOMAIN segs : x \in DOMAIN segs' /\ segs'[x] = segs[x]
    BY <1>6, IndexAdds, Zenon
  <2> QED BY <1>1, <2>1, <2>2, Zenon
<1>7. ASSUME NEW t \in Threads, Publish(t) \/ SetLatest(t)
      PROVE  UNCHANGED <<segs, live>>
  BY <1>7, Zenon DEF Publish, SetLatest
<1>8. ASSUME UNCHANGED <<segs, live>>
      PROVE  Taken'
  BY <1>1, <1>8, Zenon
<1>9. UNCHANGED list => segs' = segs
  BY Zenon DEF list
<1> QED BY <1>2, <1>3, <1>4, <1>5, <1>6, <1>7, <1>8, <1>9, PageWriters, ListWriters, Zenon

(* The locals of the other threads stay good when segments are added. *)
LEMMA FitsMono ==
    ASSUME NEW p, NEW l, Fits(p, l), Known \subseteq Known'
    PROVE  Fits(p, l)'
BY Zenon DEF Fits, Reserved

(* A step that sets the place and the locals of one thread keeps LocalOK   *)
(* if they fit.                                                            *)
LEMMA LocalStep ==
    ASSUME LocalOK, Known \subseteq Known', NEW t \in Threads, NEW p \in PCs, NEW l \in Locals,
           pc' = [pc EXCEPT ![t] = p] \/ (pc' = pc /\ pc[t] = p),
           loc' = [loc EXCEPT ![t] = l] \/ (loc' = loc /\ loc[t] = l), Fits(p, l)'
    PROVE  LocalOK'
<1>1. pc' \in [Threads -> PCs] /\ pc'[t] = p /\ \A u \in Threads \ {t} : pc'[u] = pc[u]
  BY Zenon DEF LocalOK
<1>2. loc' \in [Threads -> Locals] /\ loc'[t] = l /\ \A u \in Threads \ {t} : loc'[u] = loc[u]
  BY Zenon DEF LocalOK
<1>3. ASSUME NEW u \in Threads \ {t}
      PROVE  Fits(pc[u], loc[u])'
  <2>1. PICK q, m : q = pc[u] /\ m = loc[u] /\ q = pc'[u] /\ m = loc'[u]
    BY <1>1, <1>2, Zenon
  <2>2. Fits(q, m)
    BY <2>1, Zenon DEF LocalOK
  <2> QED BY <2>1, <2>2, FitsMono, Zenon
<1>4. Fits(pc[t], loc[t])'
  BY <1>1, <1>2, Zenon
<1> QED BY <1>1, <1>2, <1>3, <1>4, Zenon DEF LocalOK

(* The thread moves on with its locals as they are. *)
LEMMA MovesOn ==
    ASSUME IInv, Known \subseteq Known', NEW t \in Threads, loc' = loc,
           \/ SkipLatest(t) \/ WalkEnd(t) \/ Lock(t) \/ Index(t) \/ Publish(t) \/ Unlock(t)
           \/ DropGuard(t) \/ SetLatest(t) \/ WalkLoad(t) \/ WalkFail(t) \/ Forgive(t)
           \/ pc[t] = "count" /\ Goto(t, "mark")
           \/ pc[t] = "freed" /\ Goto(t, "forgive")
           \/ pc[t] = "probe" /\ (Goto(t, "unlock") \/ Goto(t, "dead"))
           \/ pc[t] = "collision" /\ Goto(t, "metadata")
           \/ pc[t] = "first" /\ Goto(t, "dead")
    PROVE  LocalOK'
<1>1. PICK l \in Locals : l = loc[t] /\ Fits(pc[t], l)
  BY Zenon DEF IInv, LocalOK
<1>2. PICK p \in PCs : pc' = [pc EXCEPT ![t] = p] /\ Fits(p, l)'
  <2>1. ASSUME NEW p \in PCs, pc' = [pc EXCEPT ![t] = p],
               p \in {"head", "lock", "reserve", "unlock", "drop", "first", "grown", "dead"},
               pc[t] \notin {"idle", "freed", "forgive", "unmark", "collision", "metadata", "index"}
        PROVE  Fits(p, l)'
    BY <1>1, <2>1, FitsMono, Zenon DEF Fits
  <2>2. CASE SkipLatest(t) \/ WalkEnd(t) \/ Lock(t) \/ Publish(t) \/ Unlock(t) \/ DropGuard(t)
    BY <2>1, <2>2, Zenon DEF SkipLatest, WalkEnd, Lock, Publish, Unlock, DropGuard, Goto, PCs
  <2>3. CASE Index(t)
    <3>1. pc[t] = "index" /\ pc' = [pc EXCEPT ![t] = "publish"] /\ l.seg \in Known'
      BY <1>1, <2>3, IndexAdds, Zenon DEF Index, Goto, Known
    <3>2. Fits("publish", l)'
      BY <1>1, <3>1, Zenon DEF Fits, Reserved
    <3> QED BY <3>1, <3>2, Zenon DEF PCs
  <2>4. CASE SetLatest(t)
    <3>1. Fits("fresh", l)'
      BY <1>1, <2>4, Zenon DEF Fits, SetLatest
    <3> QED BY <2>4, <3>1, Zenon DEF PCs, SetLatest, Goto
  <2>5. CASE \/ pc[t] = "probe" /\ (Goto(t, "unlock") \/ Goto(t, "dead"))
             \/ pc[t] = "first" /\ Goto(t, "dead")
    BY <2>1, <2>5, Zenon DEF PCs, Goto
  <2>6. CASE pc[t] = "collision" /\ Goto(t, "metadata")
    <3>1. Fits("metadata", l)'
      BY <1>1, <2>6, Zenon DEF Fits, Reserved
    <3> QED BY <2>6, <3>1, Zenon DEF PCs, Goto
  <2>7. CASE WalkLoad(t) \/ WalkFail(t) \/ (pc[t] = "count" /\ Goto(t, "mark"))
    <3>1. PICK p \in {"search", "count", "mark"} : pc' = [pc EXCEPT ![t] = p]
      BY <2>7, Zenon DEF WalkLoad, WalkFail, Goto
    <3>2. pc[t] \in {"walk", "search", "count"} /\ l.curr # Null
      BY <1>1, <2>7, Zenon DEF WalkLoad, WalkFail, Walking, Fits
    <3>3. Fits(p, l)'
      BY <1>1, <3>1, <3>2, Zenon DEF Fits
    <3> QED BY <3>1, <3>3, Zenon DEF PCs
  <2>8. CASE Forgive(t) \/ (pc[t] = "freed" /\ Goto(t, "forgive"))
    <3>1. PICK p \in {"forgive", "unmark"} : pc' = [pc EXCEPT ![t] = p]
      BY <2>8, Zenon DEF Forgive, Goto
    <3>2. pc[t] \in {"freed", "forgive"} /\ l.curr # Null
      BY <1>1, <2>8, Zenon DEF Forgive, Fits
    <3>3. Fits(p, l)'
      BY <1>1, <3>1, <3>2, Zenon DEF Fits
    <3> QED BY <3>1, <3>3, Zenon DEF PCs
  <2> QED BY <2>2, <2>3, <2>4, <2>5, <2>6, <2>7, <2>8, Zenon
<1> QED BY <1>1, <1>2, LocalStep, Zenon DEF IInv

(* The thread returns. *)
LEMMA NoLocFits == NoLoc \in Locals /\ Fits("idle", NoLoc) /\ Fits("idle", NoLoc)'
<1>1. NoLoc \in Locals
  BY DEF NoLoc, Locals
<1>2. NoLoc.curr = Null /\ NoLoc.old = Null /\ NoLoc.seg = Null
  BY DEF NoLoc
<1> QED BY <1>1, <1>2, Zenon DEF Fits, Known

(* A call that returns leaves no locals. *)
LEMMA Returns ==
    ASSUME IInv, Known \subseteq Known', NEW t \in Threads,
           Goto(t, "idle"), loc' = [loc EXCEPT ![t] = NoLoc]
    PROVE  LocalOK'
<1>1. "idle" \in PCs /\ pc' = [pc EXCEPT ![t] = "idle"]
  BY Zenon DEF PCs, Goto
<1> QED BY <1>1, NoLocFits, LocalStep, Zenon DEF IInv

(* The thread moves on with another segment to look at. *)
LEMMA Looks ==
    ASSUME IInv, Known \subseteq Known', NEW t \in Threads, NEW p \in PCs, NEW s \in Known,
           pc' = [pc EXCEPT ![t] = p] \/ (pc' = pc /\ pc[t] = p),
           loc' = [loc EXCEPT ![t].curr = s],
           \/ pc[t] \in {"head", "once", "walk", "count", "mark"} /\ p \in {"once", "walk"}
           \/ pc[t] = "idle" /\ p = "freed" /\ s # Null
    PROVE  LocalOK'
<1>1. s \in Addresses \cup {Null}
  BY Zenon DEF IInv, ListOK, Known
<1>2. PICK l \in Locals : /\ loc' = [loc EXCEPT ![t] = l] /\ l.curr = s /\ l.old = loc[t].old
                          /\ l.need = loc[t].need /\ l.seg = loc[t].seg
  <2>1. loc[t] \in Locals /\ loc' = [loc EXCEPT ![t] = [loc[t] EXCEPT !.curr = s]]
    BY Zenon DEF IInv, LocalOK
  <2>2. PICK l : l = [loc[t] EXCEPT !.curr = s]
    BY Zenon
  <2>3. /\ l \in Locals /\ l.curr = s /\ l.old = loc[t].old
        /\ l.need = loc[t].need /\ l.seg = loc[t].seg
    BY <1>1, <2>1, <2>2 DEF Locals
  <2> QED BY <2>1, <2>2, <2>3, Zenon
<1>3. Fits(pc[t], loc[t])
  BY Zenon DEF IInv, LocalOK
<1>4. Fits(p, l)'
  BY <1>2, <1>3, Zenon DEF Fits
<1> QED BY <1>2, <1>4, LocalStep, Zenon DEF IInv

(* The steps of alloc before grow. *)
LEMMA SearchLocal ==
    ASSUME IInv, Known \subseteq Known', NEW t \in Threads, Alloc(t) \/ Search(t)
    PROVE  LocalOK'
<1>0. ListOK /\ LocalOK /\ Fits(pc[t], loc[t]) /\ loc[t] \in Locals
  BY Zenon DEF IInv, LocalOK
<1>1. CASE Alloc(t)
  <2>1. PICK n \in Needs : loc' = [loc EXCEPT ![t] = [NoLoc EXCEPT !.need = n]]
    BY <1>1, Zenon DEF Alloc
  <2>2. PICK l : l = [NoLoc EXCEPT !.need = n]
    BY Zenon
  <2>3. n \in Nat /\ n # 0
    BY VaBitmapAssumption, Zenon
  <2>4. l \in Locals /\ l.need = n /\ l.curr = Null /\ l.old = Null /\ l.seg = Null
    BY <2>2, <2>3, Zenon DEF NoLoc, Locals
  <2>5. Fits("hint", l)'
    BY <2>3, <2>4, Zenon DEF Fits, Known
  <2>6. pc' = [pc EXCEPT ![t] = "hint"] /\ "hint" \in PCs
    BY <1>1, Zenon DEF Alloc, Goto, PCs
  <2> QED BY <1>0, <2>1, <2>2, <2>4, <2>5, <2>6, LocalStep, Zenon
<1>2. CASE TryLatest(t) \/ WalkTake(t)
  BY <1>2, Returns, Zenon DEF TryLatest, WalkTake, Take
<1>3. CASE SkipLatest(t) \/ WalkEnd(t) \/ WalkLoad(t) \/ WalkFail(t)
  BY <1>3, MovesOn, Zenon DEF SkipLatest, WalkEnd, WalkLoad, WalkFail
<1>4. CASE LoadHead(t)
  <2>1. PICK s \in Known, p \in {"once", "walk"} :
           loc' = [loc EXCEPT ![t].curr = s] /\ pc' = [pc EXCEPT ![t] = p]
    BY <1>0, <1>4, Zenon DEF LoadHead, Goto, ListOK
  <2> QED BY <1>4, <2>1, Looks, Zenon DEF LoadHead, PCs
<1>5. CASE OnceDone(t)
  <2>1. PICK s \in Known : loc' = [loc EXCEPT ![t].curr = s]
    BY <1>0, <1>5, Zenon DEF OnceDone, ListOK
  <2> QED BY <1>5, <2>1, Looks, Zenon DEF OnceDone, PCs, Goto
<1>6. CASE WalkFull(t) \/ WalkCount(t) \/ WalkMark(t)
  <2>1. CASE loc' = loc /\ pc[t] = "count" /\ Goto(t, "mark")
    BY <2>1, MovesOn, Zenon
  <2>2. CASE ~(loc' = loc /\ pc[t] = "count" /\ Goto(t, "mark"))
    <3>1. /\ loc' = [loc EXCEPT ![t].curr = segs[loc[t].curr].next]
          /\ pc[t] \in {"walk", "count", "mark"}
          /\ pc' = [pc EXCEPT ![t] = "walk"] \/ (pc' = pc /\ pc[t] = "walk")
      BY <1>6, <2>2, Zenon DEF WalkFull, Walking, WalkCount, WalkMark, WalkOn, Goto
    <3>2. loc[t].curr \in DOMAIN segs
      BY <1>6, HasSegment, Zenon DEF WalkFull, WalkCount, WalkMark
    <3>3. PICK s \in Known : s = segs[loc[t].curr].next
      BY <1>0, <3>2, Zenon DEF ListOK, SegOK
    <3> QED BY <3>1, <3>3, Looks, Zenon DEF PCs
  <2> QED BY <2>1, <2>2, Zenon
<1>7. CASE OnceEnter(t)
  <2>1. PICK l \in Locals : /\ loc' = [loc EXCEPT ![t] = l] /\ l.curr = loc[t].curr
                            /\ l.old = loc[t].old
                            /\ l.need = loc[t].need /\ l.seg = loc[t].seg
    <3>1. loc' = [loc EXCEPT ![t] = [loc[t] EXCEPT !.first = TRUE]]
      BY <1>7, Zenon DEF OnceEnter
    <3>2. PICK l : l = [loc[t] EXCEPT !.first = TRUE]
      BY Zenon
    <3>3. /\ l \in Locals /\ l.curr = loc[t].curr /\ l.old = loc[t].old
          /\ l.need = loc[t].need /\ l.seg = loc[t].seg
      BY <1>0, <3>2, Zenon DEF Locals
    <3> QED BY <3>1, <3>2, <3>3, Zenon
  <2>2. Fits("lock", l)'
    BY <1>0, <1>7, <2>1, Zenon DEF Fits, OnceEnter
  <2> QED BY <1>0, <1>7, <2>1, <2>2, LocalStep, Zenon DEF OnceEnter, Goto, PCs
<1> QED BY <1>1, <1>2, <1>3, <1>4, <1>5, <1>6, <1>7, Zenon DEF Search

(* The steps of free. *)
LEMMA FreeLocal ==
    ASSUME IInv, Known \subseteq Known', NEW t \in Threads, Free(t) \/ Forgiving(t)
    PROVE  LocalOK' \/ UNCHANGED <<pc, loc>>
<1>1. CASE Free(t)
  <2>1. PICK r \in live :
           \/ UNCHANGED <<pc, loc>>
           \/ /\ Locate(r.addr) # {} /\ Goto(t, "freed")
              /\ loc' = [loc EXCEPT ![t].curr = CHOOSE x \in Locate(r.addr) : TRUE]
    BY <1>1, Zenon DEF Free
  <2>2. CASE /\ Locate(r.addr) # {} /\ Goto(t, "freed")
             /\ loc' = [loc EXCEPT ![t].curr = CHOOSE x \in Locate(r.addr) : TRUE]
    <3>1. PICK s : s = CHOOSE x \in Locate(r.addr) : TRUE
      BY Zenon
    <3>2. s \in DOMAIN segs
      BY <2>2, <3>1, LocateKnown, Zenon
    <3>3. s \in Known /\ s # Null
      <4>1. \A y \in Addresses : y # Null
        BY VaBitmapAssumption DEF Addresses, Null
      <4> QED BY <3>2, <4>1, Zenon DEF Known, IInv, ListOK
    <3> QED BY <1>1, <2>2, <3>1, <3>3, Looks, Zenon DEF Free, Goto, PCs
  <2> QED BY <2>1, <2>2, Zenon
<1>2. CASE LoadFull(t)
  <2>1. CASE Goto(t, "forgive") /\ loc' = loc
    BY <1>2, <2>1, MovesOn, Zenon DEF LoadFull
  <2>2. CASE FreeDone(t)
    BY <2>2, Returns, Zenon DEF FreeDone
  <2> QED BY <1>2, <2>1, <2>2, Zenon DEF LoadFull
<1>3. CASE Forgive(t)
  BY <1>3, MovesOn, Zenon DEF Forgive
<1>4. CASE Unmark(t)
  BY <1>4, Returns, Zenon DEF Unmark, FreeDone
<1> QED BY <1>1, <1>2, <1>3, <1>4, Zenon DEF Forgiving

(* A field of the locals is written. *)
LEMMA WriteSeg ==
    ASSUME NEW l \in Locals, NEW a \in Addresses \cup {Null}
    PROVE  \E m \in Locals : /\ m = [l EXCEPT !.seg = a] /\ m.seg = a /\ m.size = l.size
                             /\ m.curr = l.curr /\ m.old = l.old /\ m.need = l.need
<1>1. PICK m : m = [l EXCEPT !.seg = a]
  BY Zenon
<1>2. /\ m \in Locals /\ m.seg = a /\ m.size = l.size
      /\ m.curr = l.curr /\ m.old = l.old /\ m.need = l.need
  BY <1>1 DEF Locals
<1> QED BY <1>1, <1>2, Zenon

(* The size is written to the locals. *)
LEMMA WriteSize ==
    ASSUME NEW l \in Locals, NEW n \in Nat
    PROVE  \E m \in Locals : /\ m = [l EXCEPT !.size = n] /\ m.seg = l.seg /\ m.size = n
                             /\ m.curr = l.curr /\ m.old = l.old /\ m.need = l.need
<1>1. PICK m : m = [l EXCEPT !.size = n]
  BY Zenon
<1>2. /\ m \in Locals /\ m.seg = l.seg /\ m.size = n
      /\ m.curr = l.curr /\ m.old = l.old /\ m.need = l.need
  BY <1>1 DEF Locals
<1> QED BY <1>1, <1>2, Zenon

(* The old head of the list is written to the locals. *)
LEMMA WriteOld ==
    ASSUME NEW l \in Locals, NEW a \in Addresses \cup {Null}
    PROVE  \E m \in Locals : /\ m = [l EXCEPT !.old = a] /\ m.seg = l.seg /\ m.size = l.size
                             /\ m.curr = l.curr /\ m.old = a /\ m.need = l.need
<1>1. PICK m : m = [l EXCEPT !.old = a]
  BY Zenon
<1>2. /\ m \in Locals /\ m.seg = l.seg /\ m.size = l.size
      /\ m.curr = l.curr /\ m.old = a /\ m.need = l.need
  BY <1>1 DEF Locals
<1> QED BY <1>1, <1>2, Zenon

(* The steps of grow. *)
LEMMA GrowLocal ==
    ASSUME IInv, Known \subseteq Known', NEW t \in Threads, Grow(t) \/ Lock(t)
    PROVE  LocalOK'
<1>0. ListOK /\ LocalOK /\ KernelOK
  BY Zenon DEF IInv
<1>l. PICK l \in Locals, q \in PCs : l = loc[t] /\ q = pc[t] /\ Fits(q, l)
  BY <1>0, Zenon DEF LocalOK
<1>1. CASE Lock(t) \/ Index(t) \/ Publish(t) \/ Unlock(t) \/ DropGuard(t)
  BY <1>1, MovesOn, Zenon DEF Lock, Index, Publish, Unlock, DropGuard
<1>2. CASE Reserve(t)
  <2>1. PICK n \in Nat \ {0} : loc' = [loc EXCEPT ![t] = [l EXCEPT !.size = n]]
    <3> DEFINE max == IF RESERVE > RESERVE_TRIES THEN LATEST_TRIED ELSE OX_MAX_RESERVATION
               size == IF max < CHUNK_SIZE THEN CHUNK_SIZE ELSE max
    <3>1. loc' = [loc EXCEPT ![t] = [l EXCEPT !.size = size]]
      BY <1>2, <1>l, Zenon DEF Reserve
    <3>2. max \in Nat
      BY <1>0, VaBitmapAssumption DEF KernelOK
    <3> HIDE DEF max
    <3>3. size \in Nat \ {0}
      BY <3>2, VaBitmapAssumption
    <3> QED BY <3>1, <3>3, Zenon
  <2>2. PICK m \in Locals : /\ m = [l EXCEPT !.size = n] /\ m.seg = l.seg /\ m.size = n
                            /\ m.curr = l.curr /\ m.old = l.old /\ m.need = l.need
    BY WriteSize, Zenon
  <2>3. Fits("probe", m)'
    BY <1>2, <1>l, <2>2, Zenon DEF Fits, Reserve
  <2> QED BY <1>0, <1>2, <2>1, <2>2, <2>3, LocalStep, Zenon DEF Reserve, Goto, PCs
<1>3. CASE ProbeOk(t)
  <2>1. PICK a \in Addresses : /\ Range(a, l.size) \subseteq Addresses
                               /\ loc' = [loc EXCEPT ![t] = [l EXCEPT !.seg = a]]
    BY <1>3, <1>l, Zenon DEF ProbeOk, Places
  <2>2. PICK m \in Locals : /\ m = [l EXCEPT !.seg = a] /\ m.seg = a /\ m.size = l.size
                            /\ m.curr = l.curr /\ m.old = l.old /\ m.need = l.need
    BY WriteSeg, Zenon
  <2>3. Fits("collision", m)'
    BY <1>3, <1>l, <2>1, <2>2, Zenon DEF Fits, Reserved, ProbeOk
  <2> QED BY <1>0, <1>3, <2>1, <2>2, <2>3, LocalStep, Zenon DEF ProbeOk, Goto, PCs
<1>4. CASE ProbeFail(t)
  <2>1. pc[t] = "probe"
    BY <1>4, Zenon DEF ProbeFail
  <2>2. CASE loc' = loc /\ (Goto(t, "unlock") \/ Goto(t, "dead"))
    BY <2>1, <2>2, MovesOn, Zenon
  <2>3. CASE /\ pc' = pc /\ l.size > CHUNK_SIZE
             /\ loc' = [loc EXCEPT ![t] = [l EXCEPT !.size = l.size \div 2]]
    <3>1. l.size \in Nat
      BY Zenon DEF Locals
    <3>2. PICK n \in Nat \ {0} : n = l.size \div 2
      BY <2>3, <3>1, VaBitmapAssumption
    <3>3. PICK m \in Locals : /\ m = [l EXCEPT !.size = n] /\ m.seg = l.seg /\ m.size = n
                              /\ m.curr = l.curr /\ m.old = l.old /\ m.need = l.need
      BY WriteSize, Zenon
    <3>4. Fits("probe", m)'
      BY <1>l, <2>1, <3>3, Zenon DEF Fits
    <3> QED BY <1>0, <1>l, <2>1, <2>3, <3>2, <3>3, <3>4, LocalStep, Zenon
  <2> QED BY <1>4, <1>l, <2>2, <2>3, Zenon DEF ProbeFail
<1>5. CASE Collision(t) \/ MetadataFail(t)
  <2>1. CASE loc' = loc /\ Goto(t, "metadata") /\ pc[t] = "collision"
    BY <2>1, MovesOn, Zenon
  <2>2. CASE /\ Goto(t, "unlock") /\ loc' = [loc EXCEPT ![t] = [l EXCEPT !.seg = Null]]
             /\ q \in {"collision", "metadata"}
    <3>1. PICK m \in Locals : /\ m = [l EXCEPT !.seg = Null] /\ m.seg = Null /\ m.size = l.size
                              /\ m.curr = l.curr /\ m.old = l.old /\ m.need = l.need
      BY WriteSeg, Zenon
    <3>2. Fits("unlock", m)'
      BY <1>l, <2>2, <3>1, Zenon DEF Fits, Known
    <3> QED BY <1>0, <2>2, <3>1, <3>2, LocalStep, Zenon DEF Goto, PCs
  <2> QED BY <1>5, <1>l, <2>1, <2>2, Zenon DEF Collision, MetadataFail
<1>6. CASE Metadata(t)
  <2>1. PICK h \in Known : h = map
    BY <1>0, Zenon DEF ListOK
  <2>2. h \in Addresses \cup {Null} /\ loc' = [loc EXCEPT ![t] = [l EXCEPT !.old = h]]
    BY <1>0, <1>6, <1>l, <2>1, Zenon DEF ListOK, Known, Metadata
  <2>3. PICK m \in Locals : /\ m = [l EXCEPT !.old = h] /\ m.seg = l.seg /\ m.size = l.size
                            /\ m.curr = l.curr /\ m.old = h /\ m.need = l.need
    BY <2>2, WriteOld, Zenon
  <2>4. Fits("index", m)'
    BY <1>6, <1>l, <2>1, <2>3, Zenon DEF Fits, Reserved, Metadata
  <2> QED BY <1>0, <1>6, <2>2, <2>3, <2>4, LocalStep, Zenon DEF Metadata, Goto, PCs
<1> QED BY <1>1, <1>2, <1>3, <1>4, <1>5, <1>6, Zenon DEF Grow

(* The steps of alloc after grow. *)
LEMMA FinishLocal ==
    ASSUME IInv, Known \subseteq Known', NEW t \in Threads, Finish(t)
    PROVE  LocalOK'
<1>0. LocalOK
  BY Zenon DEF IInv
<1>l. PICK l \in Locals, q \in PCs : l = loc[t] /\ q = pc[t] /\ Fits(q, l)
  BY <1>0, Zenon DEF LocalOK
<1>1. CASE SetLatest(t)
  BY <1>1, MovesOn, Zenon DEF SetLatest
<1>2. CASE TakeFresh(t) \/ FailFresh(t)
  BY <1>2, Returns, Zenon DEF TakeFresh, FailFresh, Take
<1>3. CASE FirstGrown(t)
  <2>1. CASE loc' = loc /\ Goto(t, "dead")
    BY <1>3, <2>1, MovesOn, Zenon DEF FirstGrown
  <2>2. CASE ~(loc' = loc /\ Goto(t, "dead"))
    <3>1. PICK m : m = [l EXCEPT !.curr = l.seg, !.first = FALSE, !.seg = Null,
                                 !.size = 0, !.old = Null]
      BY Zenon
    <3>2. loc' = [loc EXCEPT ![t] = m] /\ Goto(t, "walk") /\ pc[t] = "first"
      BY <1>3, <1>l, <2>2, <3>1, Zenon DEF FirstGrown
    <3>3. /\ m \in Locals /\ m.curr = l.seg /\ m.seg = Null /\ m.old = Null
          /\ m.need = l.need
      BY <3>1, Zenon DEF Locals
    <3>4. Fits("walk", m)'
      BY <1>l, <3>2, <3>3, Zenon DEF Fits, Known
    <3> QED BY <1>0, <3>2, <3>3, <3>4, LocalStep, Zenon DEF Goto, PCs
  <2> QED BY <2>1, <2>2, Zenon
<1>4. CASE GrowAgain(t)
  <2>1. CASE Goto(t, "idle") /\ loc' = [loc EXCEPT ![t] = NoLoc]
    BY <2>1, Returns, Zenon
  <2>2. CASE /\ Goto(t, "lock")
             /\ loc' = [loc EXCEPT ![t].tried = @ + 1, ![t].size = 0]
    <3>1. l.tried \in Nat
      BY Zenon DEF Locals
    <3>2. PICK n \in Nat : n = l.tried + 1
      BY <3>1
    <3>3. PICK m : m = [l EXCEPT !.tried = n, !.size = 0]
      BY Zenon
    <3>4. loc' = [loc EXCEPT ![t] = m]
      BY <1>l, <2>2, <3>2, <3>3, Zenon
    <3>5. /\ m \in Locals /\ m.curr = l.curr /\ m.seg = l.seg /\ m.old = l.old
          /\ m.need = l.need
      BY <3>3, Zenon DEF Locals
    <3>6. Fits("lock", m)'
      BY <1>4, <1>l, <3>5, Zenon DEF Fits, GrowAgain
    <3> QED BY <1>0, <2>2, <3>4, <3>5, <3>6, LocalStep, Zenon DEF Goto, PCs
  <2> QED BY <1>4, <2>1, <2>2, Zenon DEF GrowAgain
<1> QED BY <1>1, <1>2, <1>3, <1>4, Zenon DEF Finish

(* The steps that move a thread. *)
Moves(t) ==
    Alloc(t) \/ Search(t) \/ Free(t) \/ Forgiving(t) \/ Lock(t) \/ Grow(t) \/ Finish(t)

(* Every other step leaves all threads where they are. *)
LEMMA Movers ==
    ASSUME [Next]_vars
    PROVE  UNCHANGED <<pc, loc>> \/ \E t \in Threads : Moves(t)
BY Zenon DEF Moves, Next, vars, Call, Step, realloc_inplace, OnceSpin, Spin

(* Every step keeps the locals of all threads fitting. *)
LEMMA LocalKept ==
    ASSUME IInv, [Next]_vars, Known \subseteq Known'
    PROVE  LocalOK'
<1>1. CASE UNCHANGED <<pc, loc>>
  <2>1. ASSUME NEW t \in Threads
        PROVE  Fits(pc[t], loc[t])'
    <3>1. PICK p, l : p = pc[t] /\ l = loc[t] /\ Fits(p, l)
      BY Zenon DEF IInv, LocalOK
    <3> QED BY <1>1, <3>1, FitsMono, Zenon
  <2> QED BY <1>1, <2>1, Zenon DEF IInv, LocalOK
<1> QED BY <1>1, Movers, SearchLocal, FreeLocal, GrowLocal, FinishLocal, Zenon DEF Moves

(* A step is of one thread, and moves only that one. *)
LEMMA OneMoves ==
    ASSUME NEW t \in Threads, Moves(t)
    PROVE  /\ pc' = pc \/ \E p : pc' = [pc EXCEPT ![t] = p]
           /\ loc' = loc \/ \E l : loc' = [loc EXCEPT ![t] = l]
<1>1. CASE Alloc(t) \/ Search(t)
  BY <1>1, Zenon DEF Alloc, Search, TryLatest, SkipLatest, LoadHead, OnceEnter, OnceDone, WalkFull,
                 WalkLoad, WalkTake, WalkFail, WalkCount, WalkMark, WalkOn, WalkEnd, Take, Goto
<1>2. CASE Lock(t) \/ Grow(t)
  BY <1>2, Zenon DEF Lock, Grow, Reserve, ProbeOk, ProbeFail, Collision, Metadata, MetadataFail,
                 Index, Publish, Unlock, DropGuard, Goto
<1>3. CASE FirstGrown(t)
  <2>1. loc' \in {loc, [loc EXCEPT ![t] = [loc[t] EXCEPT !.curr = loc[t].seg, !.first = FALSE,
                                           !.seg = Null, !.size = 0, !.old = Null]]}
    BY <1>3, Zenon DEF FirstGrown
  <2>2. \E p : pc' = [pc EXCEPT ![t] = p]
    BY <1>3, Zenon DEF FirstGrown, Goto
  <2> QED BY <2>1, <2>2, Zenon
<1>4. CASE GrowAgain(t) \/ SetLatest(t) \/ TakeFresh(t) \/ FailFresh(t)
  BY <1>4, Zenon DEF GrowAgain, SetLatest, TakeFresh, FailFresh, Take, Goto
<1>5. CASE Free(t) \/ Forgiving(t)
  BY <1>5, Zenon DEF Free, Forgiving, LoadFull, Forgive, Unmark, FreeDone, Goto
<1> QED BY <1>1, <1>2, <1>3, <1>4, <1>5, Zenon DEF Moves, Finish

(* A step of one thread leaves the others where they are. *)
LEMMA OtherMoves ==
    ASSUME IInv, NEW t \in Threads, Moves(t), NEW u \in Threads \ {t}
    PROVE  pc'[u] = pc[u] /\ loc'[u] = loc[u]
<1>1. pc \in [Threads -> PCs] /\ loc \in [Threads -> Locals]
  BY Zenon DEF IInv, LocalOK
<1> QED BY <1>1, OneMoves, Zenon

Preparing == {"collision", "metadata", "index", "publish"}

(* Whoever prepares a segment got there by these steps, and nobody else    *)
(* moves it.                                                               *)
LEMMA Prepares ==
    ASSUME IInv, [Next]_vars, NEW u \in Threads
    PROVE  \/ pc'[u] = pc[u] /\ loc'[u] = loc[u]
           \/ ProbeOk(u) \/ Collision(u) \/ Metadata(u) \/ Index(u)
           \/ pc'[u] \notin Preparing
<1>0. pc \in [Threads -> PCs] /\ loc \in [Threads -> Locals]
  BY Zenon DEF IInv, LocalOK
<1>1. CASE UNCHANGED <<pc, loc>>
  BY <1>1, Zenon
<1>2. CASE Alloc(u) \/ Search(u)
  BY <1>0, <1>2, Zenon DEF Alloc, Search, TryLatest, SkipLatest, LoadHead, OnceEnter, OnceDone, WalkFull,
                   WalkLoad, WalkTake, WalkFail, WalkCount, WalkMark, WalkOn, WalkEnd, Walking,
                   Take, Goto, Preparing
<1>3. CASE Free(u) \/ Forgiving(u)
  BY <1>0, <1>3, Zenon DEF Free, Forgiving, LoadFull, Forgive, Unmark, FreeDone, Goto, Preparing
<1>4. CASE Lock(u) \/ (Grow(u) /\ ~ProbeOk(u) /\ ~Collision(u) /\ ~Metadata(u) /\ ~Index(u))
  BY <1>0, <1>4, Zenon DEF Lock, Grow, Reserve, ProbeFail, MetadataFail, Publish, Unlock,
                   DropGuard, Goto, Preparing
<1>5. CASE Finish(u)
  BY <1>0, <1>5, Zenon DEF Finish, FirstGrown, GrowAgain, SetLatest, TakeFresh, FailFresh, Take, Goto,
                   Preparing
<1> QED BY <1>1, <1>2, <1>3, <1>4, <1>5, Movers, OtherMoves, Zenon DEF Moves

(* A reservation stays what it is until it is indexed or given up. *)
LEMMA Reserves ==
    ASSUME IInv, [Next]_vars, NEW u \in Threads, pc'[u] \in Reserving
    PROVE  ProbeOk(u) \/ (pc[u] \in Reserving /\ Res(u)' = Res(u))
<1>0. pc \in [Threads -> PCs] /\ loc \in [Threads -> Locals]
  BY Zenon DEF IInv, LocalOK
<1>1. CASE pc'[u] = pc[u] /\ loc'[u] = loc[u]
  BY <1>1, Zenon DEF Res
<1>2. CASE Collision(u)
  BY <1>0, <1>2, Zenon DEF Collision, Goto, Reserving, Res
<1>3. CASE Metadata(u)
  <2>1. loc'[u].seg = loc[u].seg /\ loc'[u].size = loc[u].size /\ pc[u] = "metadata"
    BY <1>0, <1>3, Zenon DEF Metadata, Locals
  <2> QED BY <2>1, Zenon DEF Reserving, Res
<1>4. CASE Index(u)
  BY <1>0, <1>4, Zenon DEF Index, Goto, Reserving
<1> QED BY <1>1, <1>2, <1>3, <1>4, Prepares, Zenon DEF Preparing, Reserving

(* Segments are only marked, until one is indexed. *)
LEMMA SegsStay ==
    ASSUME IInv, [Next]_vars
    PROVE  (Same(segs, segs') /\ radix' = radix) \/ \E t \in Threads : Index(t)
<1>1. CASE UNCHANGED <<segs, radix>>
  BY <1>1, Zenon DEF Same
<1>2. ASSUME NEW t \in Threads, Takes(t) \/ Counts(t) \/ Free(t) \/ realloc_inplace(t)
      PROVE  Same(segs, segs') /\ radix' = radix
  <2>1. radix' = radix
    BY <1>2, Zenon DEF Takes, TryLatest, WalkTake, TakeFresh, Counts, WalkCount, WalkMark,
       Forgive, Unmark, Free, realloc_inplace
  <2> QED BY <1>2, <2>1, CountsKeep, RunsWrite, Zenon
<1> QED BY <1>1, <1>2, ListWriters, Zenon DEF list, Publish, SetLatest

(* The kernel maps what was not mapped, so that segments and reservations  *)
(* stay disjoint.                                                          *)
LEMMA ApartKept ==
    ASSUME IInv, [Next]_vars
    PROVE  Apart'
<1>0. Apart /\ pc \in [Threads -> PCs] /\ loc \in [Threads -> Locals]
  BY Zenon DEF IInv, LocalOK
<1>1. ASSUME NEW t \in Threads, ProbeOk(t)
      PROVE  Apart'
  <2>1. PICK a \in Places(loc[t].size) :
           /\ mapped' = mapped \cup Range(a, loc[t].size)
           /\ loc' = [loc EXCEPT ![t].seg = a]
    BY <1>1, Zenon DEF ProbeOk
  <2>2. PICK N : N = Range(a, loc[t].size) /\ N \cap mapped = {} /\ mapped' = mapped \cup N
    BY <2>1, Zenon DEF Places
  <2>3. Res(t)' = N
    <3>1. loc'[t].seg = a /\ loc'[t].size = loc[t].size
      BY <1>0, <2>1, Zenon DEF Locals
    <3> QED BY <2>2, <3>1, Zenon DEF Res
  <2>4. segs' = segs
    BY <1>1, Zenon DEF ProbeOk, list
  <2>5. ASSUME NEW u \in Threads \ {t}
        PROVE  pc'[u] = pc[u] /\ Res(u)' = Res(u)
    BY <1>1, OtherMoves, Zenon DEF Moves, Grow, Res
  <2>6. \A s \in DOMAIN segs : Extent(s)' = Extent(s) /\ Extent(s) \subseteq mapped
    BY <1>0, <2>4, Zenon DEF Extent, Apart
  <2>7. ASSUME NEW u \in Threads, pc'[u] \in Reserving
        PROVE  /\ Res(u)' \subseteq mapped'
               /\ \A s \in DOMAIN segs : Res(u)' \cap Extent(s) = {}
               /\ u # t => Res(u)' \cap N = {}
    <3>1. CASE u = t
      BY <2>2, <2>3, <2>6, <3>1, Zenon
    <3>2. CASE u # t
      <4>1. pc[u] \in Reserving /\ Res(u)' = Res(u)
        BY <2>5, <2>7, <3>2, Zenon
      <4>2. Res(u) \subseteq mapped /\ \A s \in DOMAIN segs : Res(u) \cap Extent(s) = {}
        BY <1>0, <4>1, Zenon DEF Apart
      <4> QED BY <2>2, <4>1, <4>2, Zenon
    <3> QED BY <3>1, <3>2, Zenon
  <2>8. ASSUME NEW u \in Threads, NEW v \in Threads, u # v,
               pc'[u] \in Reserving, pc'[v] \in Reserving
        PROVE  Res(u)' \cap Res(v)' = {}
    <3>1. CASE u = t \/ v = t
      BY <2>3, <2>7, <2>8, <3>1, Zenon
    <3>2. CASE u # t /\ v # t
      BY <1>0, <2>5, <2>8, <3>2, Zenon DEF Apart
    <3> QED BY <3>1, <3>2, Zenon
  <2>9. \A s \in DOMAIN segs' : s \in DOMAIN segs /\ Extent(s)' \subseteq mapped'
    BY <2>2, <2>4, <2>6, Zenon
  <2>10. \A s, x \in DOMAIN segs' : s # x => Extent(s)' \cap Extent(x)' = {}
    BY <1>0, <2>6, <2>9, Zenon DEF Apart
  <2> QED BY <2>6, <2>7, <2>8, <2>9, <2>10, Zenon DEF Apart
<1>2. CASE \A t \in Threads : ~ProbeOk(t)
  <2>1. mapped' = mapped
    BY <1>2, KernelWriters, Zenon DEF kernel, OnceEnter, Lock, Reserve, ProbeFail, Unlock,
       DropGuard, FirstGrown
  <2>2. ASSUME NEW u \in Threads, pc'[u] \in Reserving
        PROVE  pc[u] \in Reserving /\ Res(u)' = Res(u)
    BY <1>2, <2>2, Reserves, Zenon
  <2>r. \A u, v \in Threads : u # v /\ pc'[u] \in Reserving /\ pc'[v] \in Reserving
                                 => Res(u)' \cap Res(v)' = {}
    BY <1>0, <2>2, Zenon DEF Apart
  <2>3. CASE Same(segs, segs')
    <3>1. DOMAIN segs' = DOMAIN segs /\ \A s \in DOMAIN segs : Extent(s)' = Extent(s)
      BY <2>3, Zenon DEF Same, Extent
    <3>2. ASSUME NEW u \in Threads, pc'[u] \in Reserving
          PROVE  /\ Res(u)' \subseteq mapped'
                 /\ \A x \in DOMAIN segs' : Res(u)' \cap Extent(x)' = {}
      <4>1. pc[u] \in Reserving /\ Res(u)' = Res(u)
        BY <2>2, <3>2, Zenon
      <4>2. Res(u) \subseteq mapped /\ \A x \in DOMAIN segs : Res(u) \cap Extent(x) = {}
        BY <1>0, <4>1, Zenon DEF Apart
      <4> QED BY <2>1, <3>1, <4>1, <4>2, Zenon
    <3>3. \A s, x \in DOMAIN segs' : s # x => Extent(s)' \cap Extent(x)' = {}
      BY <1>0, <3>1, Zenon DEF Apart
    <3>4. \A x \in DOMAIN segs' : Extent(x)' \subseteq mapped'
      <4>1. \A x \in DOMAIN segs : Extent(x) \subseteq mapped
        BY <1>0, Zenon DEF Apart
      <4> QED BY <2>1, <3>1, <4>1, Zenon
    <3> QED BY <2>r, <3>2, <3>3, <3>4, Zenon DEF Apart
  <2>4. ASSUME NEW t \in Threads, Index(t)
        PROVE  Apart'
    <3>1. PICK n : n = loc[t].seg
      BY Zenon
    <3>2. /\ DOMAIN segs' = DOMAIN segs \cup {n} /\ n \notin DOMAIN segs
          /\ \A x \in DOMAIN segs : segs'[x] = segs[x]
          /\ segs'[n].size = loc[t].size
      <4>1. NewSegment(t).size = loc[t].size
        BY DEF NewSegment
      <4> QED BY <2>4, <3>1, <4>1, IndexAdds, Zenon
    <3>3. \A x \in DOMAIN segs : Extent(x)' = Extent(x)
      BY <3>2, Zenon DEF Extent
    <3>4. Extent(n)' = Res(t)
      BY <3>1, <3>2, Zenon DEF Extent, Res
    <3>5. pc[t] \in Reserving /\ pc'[t] \notin Reserving
      BY <1>0, <2>4, Zenon DEF Index, Goto, Reserving
    <3>6. Res(t) \subseteq mapped /\ \A x \in DOMAIN segs : Res(t) \cap Extent(x) = {}
      BY <1>0, <3>5, Zenon DEF Apart
    <3>7. ASSUME NEW u \in Threads, pc'[u] \in Reserving
          PROVE  /\ Res(u)' \subseteq mapped'
                 /\ \A x \in DOMAIN segs' : Res(u)' \cap Extent(x)' = {}
      <4>1. u # t /\ pc[u] \in Reserving /\ Res(u)' = Res(u)
        BY <2>2, <3>5, <3>7, Zenon
      <4>2. Res(u) \cap Res(t) = {} /\ Res(u) \subseteq mapped
        BY <1>0, <3>5, <4>1, Zenon DEF Apart
      <4>3. \A x \in DOMAIN segs : Res(u) \cap Extent(x) = {}
        BY <1>0, <4>1, Zenon DEF Apart
      <4> QED BY <2>1, <3>2, <3>3, <3>4, <4>1, <4>2, <4>3, Zenon
    <3>8. ASSUME NEW s \in DOMAIN segs', NEW x \in DOMAIN segs', s # x
          PROVE  Extent(s)' \cap Extent(x)' = {}
      <4>1. CASE s = n
        BY <3>2, <3>3, <3>4, <3>6, <3>8, <4>1, Zenon
      <4>2. CASE x = n
        <5>1. s \in DOMAIN segs
          BY <3>2, <3>8, <4>2, Zenon
        <5>2. Extent(s)' = Extent(s) /\ Res(t) \cap Extent(s) = {} /\ Extent(x)' = Res(t)
          BY <3>3, <3>4, <3>6, <4>2, <5>1, Zenon
        <5> QED BY <5>2, Zenon
      <4>3. CASE s # n /\ x # n
        <5>1. s \in DOMAIN segs /\ x \in DOMAIN segs
          BY <3>2, <4>3, Zenon
        <5> QED BY <1>0, <3>3, <3>8, <5>1, Zenon DEF Apart
      <4> QED BY <4>1, <4>2, <4>3, Zenon
    <3>9. \A x \in DOMAIN segs' : Extent(x)' \subseteq mapped'
      BY <1>0, <2>1, <3>2, <3>3, <3>4, <3>6, Zenon DEF Apart
    <3> QED BY <2>r, <3>7, <3>8, <3>9, Zenon DEF Apart
  <2> QED BY <2>3, <2>4, SegsStay, Zenon
<1> QED BY <1>1, <1>2, Zenon

(* The invariant holds at the start, *)
LEMMA InitIInv == Init => IInv
<1> SUFFICES ASSUME Init PROVE IInv
  BY Zenon
<1>1. KernelOK
  <2>1. 0 \in 0 .. Space /\ 0 \in 0 .. RESERVE_TRIES + 1 /\ 0 \in 0 .. 2
    BY VaBitmapAssumption
  <2> QED BY <2>1, Zenon DEF Init, KernelOK
<1>2. DOMAIN segs = {} /\ Known = {Null}
  BY Zenon DEF Init, Known
<1>3. ListOK
  BY <1>2, Zenon DEF Init, ListOK
<1>4. LocalOK
  <2>1. pc \in [Threads -> PCs] /\ loc \in [Threads -> Locals]
    BY NoLocFits, Zenon DEF Init, PCs
  <2> QED BY <2>1, NoLocFits, Zenon DEF Init, LocalOK
<1>5. Taken
  BY Zenon DEF Init, Taken, RunsDisjoint
<1>6. Apart
  BY <1>2, Zenon DEF Init, Apart, Reserving
<1> QED BY <1>1, <1>3, <1>4, <1>5, <1>6, Zenon DEF IInv

(* is kept by every step, *)
LEMMA NextIInv == ASSUME IInv, [Next]_vars PROVE IInv'
BY KernelKept, ListKept, TakenKept, LocalKept, ApartKept, Zenon DEF IInv

(* and so holds always. *)
LEMMA Inductive == Spec => []IInv
<1>1. IInv /\ [Next]_vars => IInv'
  BY NextIInv, Zenon
<1> QED BY <1>1, InitIInv, PTL DEF Spec

(* Whatever the kernel answers and however the threads interleave, also    *)
(* when the lock of grow is released twice: a segment has pages, all of    *)
(* them in the address space, no bit is set behind the end of its bitmap,  *)
(* list and radix tree point to segments, and the hint stays in the space. *)
THEOREM SegmentsTyped == Spec => []TypeOK
<1>1. IInv => TypeOK
  BY Zenon DEF IInv, KernelOK, ListOK, SegOK, LocalOK, TypeOK, Known
<1> QED BY <1>1, Inductive, PTL

(* And no page is given to two callers, though a segment knows only its    *)
(* own bitmap: the kernel's mappings do not overlap, a run that alloc      *)
(* returned or that was resized in place is marked in the bitmap of the    *)
(* one segment it lies in, and free and realloc_inplace find that segment  *)
(* or none.  A segment on its own is taken to be a page allocator.         *)
THEOREM RunsStayDisjoint == Spec => []RunsDisjoint
<1>1. IInv => RunsDisjoint
  BY Zenon DEF IInv, Taken
<1> QED BY <1>1, Inductive, PTL

-----------------------------------------------------------------------------
(* Schedules in which the lock excludes. *)

(* A timely step is a step. *)
LEMMA TimelyIsNext == ASSUME [TimelyNext]_vars PROVE [Next]_vars
BY Zenon DEF TimelyNext, Next

(* At most one thread is in grow, up to the release in the destructor. *)
LEMMA MutexKept ==
    ASSUME IInv, Mutex, [TimelyNext]_vars
    PROVE  Mutex'
<1>0. pc \in [Threads -> PCs]
  BY Zenon DEF IInv, LocalOK
<1>1. CASE UNCHANGED <<pc, lock>>
  BY <1>1, Zenon DEF Mutex
<1>2. ASSUME NEW t \in Threads, Lock(t), NoDropPending
      PROVE  Mutex'
  <2>1. /\ \A u \in Threads : pc[u] \notin Growing \cup {"drop"}
        /\ lock' = TRUE /\ pc' = [pc EXCEPT ![t] = "reserve"]
    BY <1>2, Zenon DEF Mutex, Lock, Goto, NoDropPending
  <2> QED BY <1>0, <2>1, Zenon DEF Mutex
<1>3. ASSUME NEW t \in Threads, NEW p \in Growing \cup {"drop"},
             pc[t] \in Growing, pc' = [pc EXCEPT ![t] = p],
             IF p = "drop" THEN lock' = FALSE ELSE lock' = lock
      PROVE  Mutex'
  <2>1. \A u \in Threads \ {t} : pc[u] \notin Growing \cup {"drop"} /\ pc'[u] = pc[u]
    BY <1>0, <1>3, Zenon DEF Mutex
  <2>2. pc'[t] = p
    BY <1>0, <1>3, Zenon
  <2>3. "drop" \notin Growing
    BY Zenon DEF Growing
  <2> QED BY <1>3, <2>1, <2>2, <2>3, Zenon DEF Mutex
<1>4. ASSUME NEW t \in Threads, NEW p \in PCs \ (Growing \cup {"drop"}),
             pc' = [pc EXCEPT ![t] = p], lock' = lock
      PROVE  Mutex'
  <2>1. \A u \in Threads \ {t} : pc'[u] = pc[u]
    BY <1>0, <1>4, Zenon
  <2>2. pc'[t] = p
    BY <1>0, <1>4, Zenon
  <2> QED BY <1>4, <2>1, <2>2, Zenon DEF Mutex
<1>5. ASSUME NEW t \in Threads, DropGuard(t)
      PROVE  Mutex'
  <2>1. pc[t] = "drop" /\ \A u \in Threads \ {t} : pc[u] \notin Growing \cup {"drop"} /\ pc'[u] = pc[u]
    BY <1>0, <1>5, Zenon DEF Mutex, DropGuard, Goto
  <2>2. pc'[t] \notin Growing \cup {"drop"}
    BY <1>0, <1>5, Zenon DEF DropGuard, Goto, Growing
  <2> QED BY <2>1, <2>2, Zenon DEF Mutex
<1>6. ASSUME NEW t \in Threads, Reserve(t) \/ ProbeOk(t) \/ ProbeFail(t) \/ Collision(t)
             \/ Metadata(t) \/ MetadataFail(t) \/ Index(t) \/ Publish(t) \/ Unlock(t)
      PROVE  Mutex'
  <2>1. CASE ProbeFail(t)
    <3>1. /\ lock' = lock /\ pc[t] = "probe"
          /\ pc' = pc \/ \E p \in {"unlock", "dead"} : pc' = [pc EXCEPT ![t] = p]
      BY <2>1, Zenon DEF ProbeFail, Goto
    <3> QED BY <1>1, <1>3, <1>4, <3>1, Zenon DEF Growing, PCs
  <2>2. CASE ~ProbeFail(t)
    BY <1>6, <1>3, <2>2, Zenon DEF Reserve, ProbeOk, Collision, Metadata,
                 MetadataFail, Index, Publish, Unlock, Goto, Growing
  <2> QED BY <2>1, <2>2, Zenon
<1>7. ASSUME NEW t \in Threads, Call(t) \/ Search(t) \/ Finish(t) \/ Forgiving(t)
                                  \/ OnceSpin(t) \/ Spin(t)
      PROVE  lock' = lock /\ (pc' = pc \/ \E p \in PCs \ (Growing \cup {"drop"}) :
                                             pc' = [pc EXCEPT ![t] = p])
  <2>1. CASE Call(t) \/ Forgiving(t) \/ OnceSpin(t) \/ Spin(t)
    BY <2>1, Zenon DEF Call, OnceSpin, Spin, vars, Alloc, Free, realloc_inplace, Forgiving,
                   LoadFull, Forgive, Unmark, FreeDone, Goto, PCs, Growing
  <2>2. CASE Search(t)
    BY <2>2, Zenon DEF Search, TryLatest, SkipLatest, LoadHead, OnceEnter, OnceDone, WalkFull,
                   WalkLoad, WalkTake, WalkFail, WalkCount, WalkMark, WalkOn, WalkEnd, Take, Goto,
                   PCs, Growing
  <2>3. CASE Finish(t)
    BY <2>3, Zenon DEF Finish, FirstGrown, GrowAgain, SetLatest, TakeFresh, FailFresh, Take, Goto,
                   PCs, Growing
  <2> QED BY <1>7, <2>1, <2>2, <2>3, Zenon
<1> QED BY <1>1, <1>2, <1>4, <1>5, <1>6, <1>7, Zenon DEF TimelyNext, Step, Grow, vars

(* The head is only written by publish. *)
LEMMA HeadStays ==
    ASSUME [Next]_vars
    PROVE  map' = map \/ \E t \in Threads : Publish(t)
BY ListWriters, Zenon DEF list, Takes, TryLatest, WalkTake, TakeFresh, Counts, WalkCount, WalkMark,
       Forgive, Unmark, Index, SetLatest, Free, realloc_inplace

(* The reservation being indexed is not a segment yet. *)
LEMMA IndexIsNew ==
    ASSUME IInv, TInv, NEW t \in Threads, Index(t)
    PROVE  /\ loc[t].seg \notin DOMAIN segs
           /\ \A a \in Range(loc[t].seg, loc[t].size) : Chunk(a) \in SegmentChunks(t)
           /\ \A c \in SegmentChunks(t) : radix[c] = Null
<1>1. PICK s, n : s = loc[t].seg /\ n = loc[t].size
  BY Zenon
<1>2. s \in Addresses /\ n \in Nat \ {0} /\ pc[t] = "index"
  BY <1>1, IndexAdds, Zenon DEF Index
<1>3. s \in Range(s, n) /\ s # Null /\ s \in Nat
  BY <1>2, RangeFacts, Zenon
<1>4. \A a \in Range(s, n) : Chunk(a) \in SegmentChunks(t)
  BY <1>1, <1>2, <1>3, ChunkIn, Zenon DEF SegmentChunks
<1>5. \A c \in SegmentChunks(t) : radix[c] = Null
  BY <1>2, Zenon DEF TInv, Clear
<1>6. s \notin DOMAIN segs
  BY <1>1, IndexAdds, Zenon
<1> QED BY <1>1, <1>4, <1>5, <1>6, Zenon

(* The radix tree knows the pages of every segment, also of a new one. *)
LEMMA IndexedKept ==
    ASSUME IInv, TInv, [Next]_vars
    PROVE  Indexed'
<1>1. CASE Same(segs, segs') /\ radix' = radix
  BY <1>1, Zenon DEF TInv, Indexed, Same
<1>2. ASSUME NEW t \in Threads, Index(t)
      PROVE  Indexed'
  <2>1. PICK s, n : s = loc[t].seg /\ n = loc[t].size
    BY Zenon
  <2>2. /\ DOMAIN segs' = DOMAIN segs \cup {s} /\ segs'[s].size = n
        /\ \A x \in DOMAIN segs : segs'[x] = segs[x]
        /\ Range(s, n) \subseteq Addresses
    <3>1. NewSegment(t).size = n
      BY <2>1 DEF NewSegment
    <3> QED BY <1>2, <2>1, <3>1, IndexAdds, IndexIsNew, Zenon
  <2>3. radix' = [c \in DOMAIN radix |-> IF c \in SegmentChunks(t) THEN s ELSE radix[c]]
    BY <1>2, <2>1, Zenon DEF Index
  <2>4. \A a \in Addresses : Chunk(a) \in DOMAIN radix
    BY ChunkRange, Zenon DEF IInv, ListOK
  <2>5. ASSUME NEW a \in Range(s, n)
        PROVE  radix'[Chunk(a)] = s
    BY <1>2, <2>1, <2>2, <2>3, <2>4, IndexIsNew, Zenon
  <2>6. ASSUME NEW x \in DOMAIN segs, NEW a \in Range(x, segs[x].size)
        PROVE  radix'[Chunk(a)] = x
    <3>1. x # Null /\ x \in Addresses /\ a \in Addresses
      <4>1. x \in Addresses /\ a \in Addresses
        BY Zenon DEF IInv, ListOK, SegOK
      <4>2. \A y \in Addresses : y # Null
        BY VaBitmapAssumption DEF Addresses, Null
      <4> QED BY <4>1, <4>2, Zenon
    <3>2. radix[Chunk(a)] = x
      BY Zenon DEF TInv, Indexed
    <3> QED BY <1>2, <2>3, <2>4, <3>1, <3>2, IndexIsNew, Zenon
  <2> QED BY <1>2, <2>1, <2>2, <2>5, <2>6, IndexIsNew, Zenon DEF Indexed
<1> QED BY <1>1, <1>2, SegsStay, Zenon

(* When t indexes, publishes, nobody else is preparing a segment. *)
LEMMA Alone ==
    ASSUME Mutex, NEW t \in Threads, Index(t) \/ Publish(t), NEW u \in Threads \ {t}
    PROVE  pc[u] \notin Preparing
BY Zenon DEF Mutex, Index, Publish, Growing, Preparing

(* While a thread prepares a segment nobody else enters one in the radix   *)
(* tree.                                                                   *)
LEMMA ClearKept ==
    ASSUME IInv, TInv, [Next]_vars
    PROVE  Clear'
<1> SUFFICES ASSUME NEW u \in Threads, pc'[u] \in {"metadata", "index"}
             PROVE  \A c \in SegmentChunks(u)' : radix'[c] = Null
  BY Zenon DEF Clear
<1>0. pc \in [Threads -> PCs] /\ loc \in [Threads -> Locals]
  BY Zenon DEF IInv, LocalOK
<1>1. \/ pc'[u] = pc[u] /\ loc'[u] = loc[u]
      \/ ProbeOk(u) \/ Collision(u) \/ Metadata(u) \/ Index(u)
  BY Prepares, Zenon DEF Preparing
<1>2. ~Index(u)
  BY <1>0, Zenon DEF Index, Goto
<1>p. ~ProbeOk(u)
  BY <1>0, Zenon DEF ProbeOk, Goto
<1>3. \A t \in Threads : ~Index(t)
  <2> SUFFICES ASSUME NEW t \in Threads \ {u}, Index(t) PROVE FALSE
    BY <1>2, Zenon
  <2>1. pc[u] \notin Preparing /\ pc[t] = "index"
    BY Alone, Zenon DEF TInv, Index
  <2>2. pc'[u] = pc[u]
    BY <1>0, Zenon DEF Index, Goto
  <2> QED BY <2>1, <2>2, Zenon DEF Preparing
<1>4. radix' = radix
  BY <1>3, SegsStay, Zenon
<1>5. CASE pc'[u] = pc[u] /\ loc'[u] = loc[u]
  BY <1>4, <1>5, Zenon DEF TInv, Clear, SegmentChunks
<1>6. CASE Collision(u)
  <2>1. loc' = loc /\ ~\E c \in SegmentChunks(u) : radix[c] # Null
    BY <1>0, <1>6, Zenon DEF Collision, Goto
  <2> QED BY <1>4, <2>1, Zenon DEF SegmentChunks
<1>7. CASE Metadata(u)
  <2>1. loc'[u].seg = loc[u].seg /\ loc'[u].size = loc[u].size /\ pc[u] = "metadata"
    BY <1>0, <1>7, Zenon DEF Metadata, Locals
  <2> QED BY <1>4, <2>1, Zenon DEF SegmentChunks, TInv, Clear
<1> QED BY <1>1, <1>2, <1>p, <1>5, <1>6, <1>7, Zenon

(* is_ours knows every page of a run: it lies in one segment. *)
LEMMA RunsAreOurs ==
    ASSUME IInv, Indexed, NEW r \in live
    PROVE  \A a \in Range(r.addr, r.n) : is_ours(a)
<1>1. PICK s \in DOMAIN segs : Range(r.addr, r.n) \subseteq segs[s].bits
  BY Zenon DEF IInv, Taken, Marked
<1>2. segs[s].start = s /\ segs[s].bits \subseteq Range(s, segs[s].size)
  BY Zenon DEF IInv, ListOK, SegOK
<1> QED BY <1>1, <1>2, Zenon DEF Indexed, is_ours, Holds

(* Segments keep their extent. *)
LEMMA ExtentsStay ==
    ASSUME IInv, TInv, [Next]_vars, NEW s \in DOMAIN segs
    PROVE  s \in DOMAIN segs' /\ segs'[s].size = segs[s].size /\ segs'[s].next = segs[s].next
<1>1. CASE Same(segs, segs')
  BY <1>1, Zenon DEF Same
<1>2. ASSUME NEW t \in Threads, Index(t)
      PROVE  s \in DOMAIN segs' /\ segs'[s] = segs[s]
  BY <1>2, IndexAdds, IndexIsNew, Zenon
<1> QED BY <1>1, <1>2, SegsStay, Zenon

(* While a segment is being published the head of the list does not        *)
(* change.                                                                 *)
LEMMA LinkedKept ==
    ASSUME IInv, TInv, [Next]_vars
    PROVE  Linked'
<1>0. pc \in [Threads -> PCs] /\ loc \in [Threads -> Locals] /\ Mutex /\ Linked
  BY Zenon DEF IInv, LocalOK, TInv
<1>1. ASSUME NEW u \in Threads, pc'[u] \in {"index", "publish"}
      PROVE  map' = map
  <2>1. ASSUME NEW t \in Threads, Publish(t)
        PROVE  FALSE
    <3>1. CASE t = u
      BY <1>0, <1>1, <2>1, <3>1, Zenon DEF Publish, Goto
    <3>2. CASE t # u
      <4>1. pc'[u] = pc[u] /\ pc[u] \notin Preparing
        BY <1>0, <2>1, <3>2, Alone, Zenon DEF Publish, Goto
      <4> QED BY <1>1, <4>1, Zenon DEF Preparing
    <3> QED BY <3>1, <3>2, Zenon
  <2> QED BY <2>1, HeadStays, Zenon
<1>2. ASSUME NEW u \in Threads, pc'[u] \in {"index", "publish"}
      PROVE  /\ loc'[u].old = map
             /\ pc'[u] = "publish" => segs'[loc'[u].seg].next = loc'[u].old
  <2>1. \/ pc'[u] = pc[u] /\ loc'[u] = loc[u]
        \/ Metadata(u) \/ Index(u)
    <3>1. ~Collision(u) /\ ~ProbeOk(u)
      BY <1>0, <1>2, Zenon DEF Collision, ProbeOk, Goto
    <3> QED BY <1>2, <3>1, Prepares, Zenon DEF Preparing
  <2>2. CASE pc'[u] = pc[u] /\ loc'[u] = loc[u]
    <3>1. loc[u].old = map
      BY <1>0, <1>2, <2>2, Zenon DEF Linked
    <3>2. CASE pc[u] = "publish"
      <4>1. loc[u].seg \in DOMAIN segs
        <5>1. loc[u].seg \in Known /\ loc[u].seg \in Addresses
          BY <3>2, Zenon DEF IInv, LocalOK, Fits, Reserved
        <5>2. \A y \in Addresses : y # Null
          BY VaBitmapAssumption DEF Addresses, Null
        <5> QED BY <5>1, <5>2, Zenon DEF Known
      <4>2. segs'[loc[u].seg].next = segs[loc[u].seg].next
        BY <4>1, ExtentsStay, Zenon
      <4> QED BY <1>0, <2>2, <3>1, <3>2, <4>2, Zenon DEF Linked
    <3> QED BY <2>2, <3>1, <3>2, Zenon
  <2>3. CASE Metadata(u)
    <3>1. loc'[u].old = map /\ pc'[u] = "index"
      BY <1>0, <2>3, Zenon DEF Metadata, Goto, Locals
    <3> QED BY <3>1, Zenon
  <2>4. CASE Index(u)
    <3>1. loc' = loc /\ pc[u] = "index"
      BY <2>4, Zenon DEF Index
    <3>2. segs'[loc[u].seg] = NewSegment(u) /\ NewSegment(u).next = loc[u].old
      <4>1. NewSegment(u).next = loc[u].old
        BY DEF NewSegment
      <4> QED BY <2>4, <4>1, IndexAdds, Zenon
    <3> QED BY <1>0, <3>1, <3>2, Zenon DEF Linked
  <2> QED BY <2>1, <2>2, <2>3, <2>4, Zenon
<1> QED BY <1>1, <1>2, Zenon DEF Linked

(* Whoever has a segment to index or to publish does it next. *)
LEMMA Builds ==
    ASSUME IInv, [Next]_vars, NEW u \in Threads, pc[u] \in {"index", "publish"},
           ~Index(u), ~Publish(u)
    PROVE  pc'[u] = pc[u] /\ loc'[u] = loc[u]
<1>1. ~(Alloc(u) \/ Search(u))
  BY Zenon DEF Alloc, Search, TryLatest, SkipLatest, LoadHead, OnceEnter, OnceDone, WalkFull,
       WalkLoad, WalkTake, WalkFail, WalkCount, WalkMark, WalkEnd, Walking
<1>2. ~(Free(u) \/ Forgiving(u))
  BY Zenon DEF Free, Forgiving, LoadFull, Forgive, Unmark
<1>3. ~(Lock(u) \/ Grow(u))
  BY Zenon DEF Lock, Grow, Reserve, ProbeOk, ProbeFail, Collision, Metadata, MetadataFail, Unlock,
       DropGuard
<1>4. ~Finish(u)
  BY Zenon DEF Finish, FirstGrown, GrowAgain, SetLatest, TakeFresh, FailFresh
<1> QED BY <1>1, <1>2, <1>3, <1>4, Movers, OtherMoves, Zenon DEF Moves

(* What is on the list from s stays on it when segments keep their         *)
(* successors.                                                             *)
LEMMA FromMono ==
    ASSUME ListOK, NEW s \in Known,
           \A x \in DOMAIN segs : x \in DOMAIN segs' /\ segs'[x].next = segs[x].next
    PROVE  From(s) \subseteq From(s)'
<1> SUFFICES ASSUME NEW x \in From(s), NEW S \in SUBSET DOMAIN segs',
                    s \in S \cup {Null}, Closed(S)'
             PROVE  x \in S
  BY Zenon DEF From
<1> DEFINE T == S \cap DOMAIN segs
<1>1. s \in T \cup {Null}
  BY Zenon DEF Known
<1>2. Closed(T)
  <2> SUFFICES ASSUME NEW y \in T PROVE segs[y].next \in T \cup {Null}
    BY Zenon DEF Closed
  <2>1. segs[y].next \in S \cup {Null}
    BY Zenon DEF Closed
  <2>2. segs[y].next \in Known
    BY Zenon DEF ListOK, SegOK
  <2> QED BY <2>1, <2>2, Zenon DEF Known
<1> HIDE DEF T
<1>3. T \in SUBSET DOMAIN segs /\ T \subseteq S
  BY Zenon DEF T
<1> QED BY <1>1, <1>2, <1>3, Zenon DEF From

(* A segment is on the list from itself, and so is what is on the list     *)
(* from its successor.                                                     *)
LEMMA FromNext ==
    ASSUME NEW s \in DOMAIN segs, s # Null
    PROVE  s \in From(s) /\ From(segs[s].next) \subseteq From(s)
BY Zenon DEF From, Closed

(* No segment is lost. *)
LEMMA ListedKept ==
    ASSUME IInv, TInv, [Next]_vars
    PROVE  SegmentsListed'
<1>0. ListOK /\ Mutex /\ Linked /\ SegmentsListed
  BY Zenon DEF IInv, TInv
<1>n. \A y \in Addresses : y # Null
  BY VaBitmapAssumption DEF Addresses, Null
<1>1. PICK h \in Known : h = map
  BY <1>0, Zenon DEF ListOK
<1>2. From(h) \subseteq From(h)'
  BY <1>0, ExtentsStay, FromMono, Zenon
<1>3. ASSUME NEW t \in Threads, Index(t)
      PROVE  SegmentsListed'
  <2>1. map' = h /\ loc' = loc /\ pc' = [pc EXCEPT ![t] = "publish"] /\ pc[t] = "index"
    BY <1>1, <1>3, Zenon DEF Index, Goto
  <2>2. pc'[t] = "publish" /\ \A u \in Threads \ {t} : pc'[u] = pc[u]
    BY <2>1, Zenon DEF IInv, LocalOK
  <2>3. Building \subseteq Building' /\ loc[t].seg \in Building'
    BY <2>1, <2>2, Zenon DEF Building
  <2>4. DOMAIN segs' = DOMAIN segs \cup {loc[t].seg}
    BY <1>3, IndexAdds, Zenon
  <2> QED BY <1>0, <1>1, <1>2, <2>1, <2>3, <2>4, Zenon DEF SegmentsListed
<1>4. ASSUME NEW t \in Threads, Publish(t)
      PROVE  SegmentsListed'
  <2>1. PICK s : s = loc[t].seg
    BY Zenon
  <2>2. map' = s /\ segs' = segs /\ pc[t] = "publish"
    BY <1>4, <2>1, Zenon DEF Publish
  <2>3. s \in DOMAIN segs /\ s # Null
    <3>1. s \in Known /\ s \in Addresses
      BY <2>1, <2>2, Zenon DEF IInv, LocalOK, Fits, Reserved
    <3> QED BY <1>n, <3>1, Zenon DEF Known
  <2>4. segs[s].next = h
    BY <1>0, <1>1, <2>1, <2>2, Zenon DEF Linked
  <2>5. Building \subseteq {s}
    <3>1. ASSUME NEW u \in Threads, pc[u] \in {"index", "publish"}
          PROVE  u = t
      BY <1>0, <1>4, <3>1, Alone, Zenon DEF Preparing
    <3> QED BY <2>1, <3>1, Zenon DEF Building
  <2>6. \A x \in DOMAIN segs : x \in From(s)
    BY <1>0, <1>1, <2>3, <2>4, <2>5, FromNext, Zenon DEF SegmentsListed
  <2>7. From(s)' = From(s)
    BY <2>2, Zenon DEF From, Closed
  <2> QED BY <2>2, <2>6, <2>7, Zenon DEF SegmentsListed
<1>5. CASE \A t \in Threads : ~Index(t) /\ ~Publish(t)
  <2>1. map' = h /\ DOMAIN segs' = DOMAIN segs
    BY <1>1, <1>5, HeadStays, SegsStay, Zenon DEF Same
  <2>2. Building \subseteq Building'
    BY <1>5, Builds, Zenon DEF Building
  <2> QED BY <1>0, <1>1, <1>2, <2>1, <2>2, Zenon DEF SegmentsListed
<1> QED BY <1>3, <1>4, <1>5, Zenon

(* The invariant of timely schedules holds at the start, *)
LEMMA InitTInv == Init => TInv
<1> SUFFICES ASSUME Init PROVE TInv
  BY Zenon
<1>1. DOMAIN segs = {} /\ live = {} /\ \A t \in Threads : pc[t] = "idle"
  BY Zenon DEF Init
<1>2. Mutex /\ Clear /\ Linked
  BY <1>1, Zenon DEF Mutex, Clear, Linked, Growing
<1> QED BY <1>1, <1>2, Zenon DEF TInv, Indexed, SegmentsListed

(* is kept by every timely step, *)
LEMMA NextTInv ==
    ASSUME IInv, TInv, [TimelyNext]_vars
    PROVE  TInv'
<1>1. [Next]_vars /\ Mutex
  BY TimelyIsNext, Zenon DEF TInv
<1>2. Mutex'
  BY <1>1, MutexKept, Zenon
<1> QED BY <1>1, <1>2, IndexedKept, ClearKept, LinkedKept, ListedKept, Zenon DEF TInv

(* and so holds always. *)
LEMMA TimelyInductive == TimelySpec => [](IInv /\ TInv)
<1>1. IInv /\ TInv /\ [TimelyNext]_vars => IInv' /\ TInv'
  BY NextIInv, NextTInv, TimelyIsNext, Zenon
<1>2. Init => IInv /\ TInv
  BY InitIInv, InitTInv, Zenon
<1> QED BY <1>1, <1>2, PTL DEF TimelySpec

(* As long as nobody takes the lock of grow between a thread's two         *)
(* releases of it, every page of every run the program has is found by     *)
(* is_ours: the radix tree leads from its chunk to its segment, also when  *)
(* segments share a chunk with other mappings, collide, or grow while runs *)
(* are resized and freed.                                                  *)
THEOREM HandedOutStaysOurs == TimelySpec => []HandedOutIsOurs
<1>1. IInv /\ TInv => HandedOutIsOurs
  BY RunsAreOurs, Zenon DEF TInv, HandedOutIsOurs
<1> QED BY <1>1, TimelyInductive, PTL

(* And no segment is lost: each is on the list that alloc and free walk,   *)
(* or in the hands of the thread that is about to publish it.              *)
THEOREM NoSegmentIsLost == TimelySpec => []SegmentsListed
<1>1. TInv => SegmentsListed
  BY Zenon DEF TInv
<1> QED BY <1>1, TimelyInductive, PTL

=============================================================================
