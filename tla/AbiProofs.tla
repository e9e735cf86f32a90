------------------------------ MODULE AbiProofs ------------------------------
(***************************************************************************)
(* Proofs about the C interface and the size classes.  For any address     *)
(* space, sizes, counts, alignments and limits: every pointer of the       *)
(* program is good, blocks do not overlap, pages leak only where a growth  *)
(* in place is refused, and realloc copies and keeps the data, whatever is *)
(* called and whatever fails, apart from the two resizings that WithinSpec *)
(* leaves out, with which none of this need hold.  Of the tables of the    *)
(* size classes only SizeClassAssumption is used, which TLC evaluates on   *)
(* the tables of the code.                                                 *)
(***************************************************************************)
EXTENDS Abi, TLAPS

-----------------------------------------------------------------------------
(* The size classes. *)

(* c is the smallest class that holds size bytes. *)
Least(c, size) ==
    /\ c \in Classes
    /\ SIZE_CLASSES[c] >= size
    /\ \A d \in Classes : SIZE_CLASSES[d] >= size => c <= d

(* The classes in use, and their sizes. *)
LEMMA ClassFacts ==
    /\ NUM_SIZE_CLASSES \in Classes /\ Classes \subseteq 1 .. 34 /\ 23 \in Classes
    /\ \A c \in Classes : SIZE_CLASSES[c] \in Nat /\ SIZE_CLASSES[c] % 16 = 0
    /\ \A c \in Classes : ITERATIONS[c] \in Nat \ {0}
    /\ MAX_CLASS_SIZE \in Nat
<1>1. NUM_SIZE_CLASSES \in Classes /\ Classes \subseteq 1 .. 34 /\ 23 \in Classes
  BY SizeClassAssumption DEF Classes
<1>2. \A c \in 1 .. 34 : /\ SIZE_CLASSES[c] \in Nat /\ SIZE_CLASSES[c] % 16 = 0
                         /\ ITERATIONS[c] \in Nat \ {0}
  BY SizeClassAssumption, Zenon
<1> QED BY <1>1, <1>2, ZenonT(30) DEF MAX_CLASS_SIZE

(* Every non-empty set of classes has a least element: without one, it     *)
(* would hold smaller and smaller ones, first by 1, then by 6, then by 36. *)
LEMMA LeastIn ==
    ASSUME NEW S, S \subseteq 1 .. 34, S # {}
    PROVE  \E x \in S : \A y \in S : x <= y
<1>1. S \subseteq Int /\ \A x \in S : 1 <= x /\ x <= 34
  OBVIOUS
<1>2. SUFFICES ASSUME \A x \in S : \E y \in S : ~ (x <= y)
               PROVE  FALSE
  BY Zenon
<1>3. \A x \in S : \E y \in S : y + 1 <= x
  BY <1>1, <1>2
<1>4. \A x \in S : \E y \in S : y + 6 <= x
  BY <1>1, <1>3
<1>5. \A x \in S : \E y \in S : y + 36 <= x
  BY <1>1, <1>4
<1>6. PICK x \in S, y \in S : y + 36 <= x
  BY <1>5, Zenon
<1> QED BY <1>1, <1>6

(* slow_path_match finds a class for every size up to the largest. *)
LEMMA SearchIsLeast ==
    ASSUME NEW size \in Nat, size <= MAX_CLASS_SIZE
    PROVE  Least(FirstAtLeast(size), size)
<1> DEFINE S == {c \in Classes : SIZE_CLASSES[c] >= size}
<1>1. NUM_SIZE_CLASSES \in S
  BY ClassFacts, Zenon DEF MAX_CLASS_SIZE
<1>2. S \subseteq 1 .. 34
  BY ClassFacts, Zenon
<1>3. PICK x \in S : \A y \in S : x <= y
  BY <1>1, <1>2, LeastIn, Zenon
<1>4. x \in Classes /\ SIZE_CLASSES[x] >= size
      /\ \A d \in Classes : SIZE_CLASSES[d] >= size => x <= d
  BY <1>3, Zenon
<1> QED BY <1>4, Zenon DEF Least, FirstAtLeast

(* A size and the end of its 16-byte step have the same classes. *)
LEMMA SameStep ==
    ASSUME NEW size \in Nat \ {0}, NEW s \in Nat, s % 16 = 0
    PROVE  s >= size <=> s >= ((size - 1) \div 16 + 1) * 16
<1>1. PICK i \in Nat : i = (size - 1) \div 16
  OBVIOUS
<1>2. i * 16 < size /\ size <= (i + 1) * 16
  BY <1>1
<1>3. PICK k \in Nat : s = k * 16
  <2>1. s = (s \div 16) * 16 /\ s \div 16 \in Nat
    OBVIOUS
  <2> QED BY <2>1, Zenon
<1>4. k * 16 >= size <=> k * 16 >= (i + 1) * 16
  BY <1>2
<1> QED BY <1>1, <1>3, <1>4, Zenon

(* match_size_class gives the smallest class that holds the request, by    *)
(* the look-up table for small sizes and by the search above them: no      *)
(* block is too small, and none could have been smaller.                   *)
THEOREM SmallestClass ==
    ASSUME NEW size \in Nat, size > 0, size <= MAX_CLASS_SIZE
    PROVE  Least(match_size_class(size), size)
<1>1. CASE size > LUT_MAX
  <2>1. match_size_class(size) = FirstAtLeast(size)
    BY <1>1, ClassFacts DEF match_size_class, LUT_MAX
  <2> QED BY <2>1, SearchIsLeast, Zenon
<1>2. CASE size <= LUT_MAX
  <2> DEFINE i == (size - 1) \div 16
             top == (i + 1) * 16
  <2>1. i \in 0 .. 255 /\ top \in Nat /\ top <= LUT_MAX
    BY <1>2 DEF LUT_MAX
  <2>2. match_size_class(size) = FirstAtLeast(top)
    BY <1>2, <2>1, ClassFacts DEF match_size_class, SIZE_LUT, LUT_MAX
  <2>3. top <= MAX_CLASS_SIZE
    <3>1. 23 <= NUM_SIZE_CLASSES /\ NUM_SIZE_CLASSES <= 34 /\ NUM_SIZE_CLASSES \in Nat
      BY SizeClassAssumption, SMTT(30)
    <3>2. SIZE_CLASSES[23] = LUT_MAX
      BY SizeClassAssumption, Zenon
    <3>3. 23 < NUM_SIZE_CLASSES => SIZE_CLASSES[23] < SIZE_CLASSES[NUM_SIZE_CLASSES]
      BY <3>1, SizeClassAssumption
    <3> QED BY <2>1, <3>1, <3>2, <3>3, ClassFacts, SMTT(30) DEF MAX_CLASS_SIZE, LUT_MAX
  <2>4. Least(FirstAtLeast(top), top)
    BY <2>1, <2>3, SearchIsLeast, Zenon
  <2>5. \A c \in Classes : SIZE_CLASSES[c] >= size <=> SIZE_CLASSES[c] >= top
    BY ClassFacts, SameStep
  <2> HIDE DEF top
  <2> QED BY <2>2, <2>4, <2>5, Zenon DEF Least
<1> QED BY <1>1, <1>2, ClassFacts DEF LUT_MAX

-----------------------------------------------------------------------------
(* The layout of a region. *)

(* Rounding up to 16 loses nothing. *)
LEMMA BlockFacts ==
    ASSUME NEW c \in Classes
    PROVE  BlockSize(c) \in Nat /\ BlockSize(c) >= SIZE_CLASSES[c] + HEADER_SIZE
<1>1. SIZE_CLASSES[c] \in Nat
  BY ClassFacts, Zenon
<1>2. \A n \in Nat : ((n + 16 - 1) \div 16) * 16 \in Nat /\ ((n + 16 - 1) \div 16) * 16 >= n
  OBVIOUS
<1> QED BY <1>1, <1>2 DEF BlockSize, align_to, HEADER_SIZE

(* Block j of a region lies at least one block behind block i < j. *)
LEMMA Spaced ==
    ASSUME NEW b \in Nat, NEW i \in Nat, NEW j \in Nat, i < j
    PROVE  i * b + b <= j * b /\ i * b \in Nat /\ j * b \in Nat
<1>1. PICK k \in Nat : j = (i + 1) + k
  <2>1. j - (i + 1) \in Nat /\ j = (i + 1) + (j - (i + 1))
    OBVIOUS
  <2> QED BY <2>1, Zenon
<1>2. j * b = i * b + b + k * b
  BY <1>1
<1>3. k * b \in Nat /\ i * b \in Nat /\ j * b \in Nat
  BY Z3
<1> QED BY <1>2, <1>3

(* bulk_fill and bulk_allocate cut a region into blocks that do not        *)
(* overlap and do not reach past its end: for any two blocks of a region   *)
(* the first, with its header and the whole payload of its class, ends     *)
(* where the second begins or earlier, and the last ends in the region.    *)
THEOREM BlocksSideBySide ==
    ASSUME NEW a \in Nat, NEW c \in Classes, NEW i \in 0 .. ITERATIONS[c] - 1
    PROVE  LET end == BlockAt(a, c, i) + HEADER_SIZE + SIZE_CLASSES[c]
           IN  /\ BlockAt(a, c, i) >= a + META_SIZE
               /\ \A j \in 0 .. ITERATIONS[c] - 1 : i < j => end <= BlockAt(a, c, j)
               /\ end <= a + RegionSize(c)
<1> DEFINE b == BlockSize(c)
           n == ITERATIONS[c]
           s == SIZE_CLASSES[c]
<1>1. b \in Nat /\ s \in Nat /\ n \in Nat \ {0} /\ b >= s + 16
  BY BlockFacts, ClassFacts, Zenon DEF HEADER_SIZE
<1>2. i \in Nat /\ i < n
  BY <1>1
<1>3. RegionSize(c) = 32 + b * n /\ BlockAt(a, c, i) = a + 32 + i * b
  BY Zenon DEF RegionSize, META_SIZE, BlockAt
<1>4. i * b + b <= n * b /\ i * b \in Nat /\ n * b \in Nat
  BY <1>1, <1>2, Spaced, Zenon
<1>5. b * n = n * b
  BY <1>1
<1>6. ASSUME NEW j \in 0 .. n - 1, i < j
      PROVE  BlockAt(a, c, i) + HEADER_SIZE + s <= BlockAt(a, c, j)
  <2>1. j \in Nat
    BY <1>1
  <2>2. i * b + b <= j * b /\ j * b \in Nat
    BY <1>1, <1>2, <1>6, <2>1, Spaced, Zenon
  <2>3. BlockAt(a, c, j) = a + 32 + j * b
    BY Zenon DEF BlockAt, META_SIZE
  <2> HIDE DEF b, s
  <2> QED BY <1>1, <1>3, <1>4, <2>2, <2>3 DEF HEADER_SIZE
<1> HIDE DEF b, n, s
<1>7. BlockAt(a, c, i) + HEADER_SIZE + s <= a + RegionSize(c)
  BY <1>1, <1>3, <1>4, <1>5 DEF HEADER_SIZE
<1>8. BlockAt(a, c, i) >= a + META_SIZE
  BY <1>3, <1>4 DEF META_SIZE
<1> QED BY <1>6, <1>7, <1>8, Zenon DEF b, n, s

-----------------------------------------------------------------------------
(* The invariant of the memory. *)

(* A memory is a record of eight fields. *)
IsMem(m) ==
    m = [va |-> m.va, hdr |-> m.hdr, meta |-> m.meta, tag |-> m.tag, multi |-> m.multi,
         lost |-> m.lost, wiped |-> m.wiped, alive |-> m.alive]

Headers == [class : Classes \cup {BIG}, magic : {"MAGIC", "FREED"}]

(* The pages of the bytes from a up to e. *)
Span(a, e) == a \div PAGE .. (e - 1) \div PAGE

(* The end of the block at h, and the pages it lies on. *)
End(m, h) == h + HEADER_SIZE + Capacity(m, h)

Foot(m, h) == Span(h, End(m, h))

(* A block with pages of its own. *)
Alone(m, h) == h \div PAGE \notin m.multi

(* A big block starts a page; another block with pages of its own comes    *)
(* behind the metadata of its region, or starts a page when it was a big   *)
(* one before.  A block of a region of several does not leave it.          *)
BlockOK(m, h) ==
    /\ h \in Nat /\ h % 16 = 0 /\ m.hdr[h] \in Headers
    /\ m.hdr[h].class = BIG =>
          /\ h % PAGE = 0 /\ Alone(m, h) /\ m.hdr[h].magic = "MAGIC" /\ h \in DOMAIN m.meta
          /\ m.meta[h] \in Nat /\ (m.meta[h] = 0 \/ m.meta[h] > MAX_CLASS_SIZE)
    /\ m.hdr[h].class # BIG /\ Alone(m, h) => h % PAGE \in {0, META_SIZE}
    /\ IF Alone(m, h) THEN Foot(m, h) \cap (m.multi \cup m.lost) = {}
       ELSE Foot(m, h) \subseteq m.multi /\ ITERATIONS[m.hdr[h].class] # 1

(* Blocks do not overlap, and pages of their own they share with nobody. *)
Apart(m) ==
    \A h, k \in DOMAIN m.hdr :
        /\ h < k => End(m, h) <= k
        /\ h # k /\ Alone(m, h) => Foot(m, h) \cap Foot(m, k) = {}

(* Every marked page belongs to a block, to a region of several, or to a   *)
(* growth that failed; every entry in the table to a big block.            *)
Accounted(m) ==
    /\ m.va \subseteq Pages /\ m.multi \subseteq m.va /\ m.lost \subseteq m.va
    /\ \A h \in DOMAIN m.hdr : Foot(m, h) \subseteq m.va
    /\ \A p \in m.va : p \in m.multi \/ p \in m.lost \/ \E h \in DOMAIN m.hdr : p \in Foot(m, h)
    /\ \A h \in DOMAIN m.meta : h \in DOMAIN m.hdr /\ m.hdr[h].class = BIG

(* No tag lies on a header. *)
TagsClear(m) ==
    \A q \in DOMAIN m.tag : q \in Nat /\ \A h \in DOMAIN m.hdr : q <= h \/ h + 32 <= q

(* The memory is in order. *)
MemOK(m) ==
    /\ IsMem(m) /\ m.alive
    /\ \A h \in DOMAIN m.hdr : BlockOK(m, h)
    /\ Apart(m) /\ Accounted(m) /\ TagsClear(m)

-----------------------------------------------------------------------------
(* The invariant of the pointers. *)

(* The blocks that are not in a cache. *)
InUse(m) == {h \in DOMAIN m.hdr : m.hdr[h].magic = "MAGIC"}

Pointers == [ptr : Nat, size : Nat, align : Nat \ {0}]

(* The pointer p to the block at h was returned by malloc, or aligned with *)
(* a tag inside the block.                                                 *)
Points(m, p, h) ==
    \/ p = h + HEADER_SIZE
    \/ p \in DOMAIN m.tag /\ m.tag[p] = h + HEADER_SIZE /\ h + 32 <= p /\ p < End(m, h)

(* A good pointer: to a block in use, with the bytes asked for behind it.  *)
PtrOK(m, x) ==
    LET h == HeaderOf(m, x.ptr)
    IN  /\ x \in Pointers /\ h \in InUse(m) /\ Points(m, x.ptr, h)
        /\ x.ptr + x.size <= End(m, h) /\ x.ptr % x.align = 0

(* The inductive invariant. *)
IInv ==
    /\ MemOK(mem)
    /\ \A x \in ptrs : PtrOK(mem, x)
    /\ \A x, y \in ptrs : HeaderOf(mem, x.ptr) = HeaderOf(mem, y.ptr) => x = y
    /\ CopyFits

-----------------------------------------------------------------------------
(* The memory that the operations leave. *)

(* Pages are marked, *)
LEMMA TakeIs ==
    ASSUME NEW m, IsMem(m), NEW run
    PROVE  LET n == Take(m, run)
           IN  /\ IsMem(n) /\ n.va = m.va \cup run
               /\ n.hdr = m.hdr /\ n.meta = m.meta /\ n.tag = m.tag /\ n.multi = m.multi
               /\ n.lost = m.lost /\ n.wiped = m.wiped /\ n.alive = m.alive
BY DEF IsMem, Take

(* and given back. *)
LEMMA GiveIs ==
    ASSUME NEW m, IsMem(m), NEW a, NEW len
    PROVE  LET n == Give(m, a, len)
           IN  /\ IsMem(n) /\ n.va = m.va \ RunAt(a, len)
               /\ n.hdr = m.hdr /\ n.meta = m.meta /\ n.tag = m.tag /\ n.multi = m.multi
               /\ n.lost = m.lost /\ n.wiped = m.wiped /\ n.alive = m.alive
BY DEF IsMem, Give

(* Zeroed bytes lose their headers and tags. *)
LEMMA DiscardIs ==
    ASSUME NEW m, IsMem(m), NEW from, NEW to
    PROVE  LET n == Discard(m, from, to)
           IN  /\ IsMem(n) /\ n.va = m.va /\ n.meta = m.meta /\ n.multi = m.multi
               /\ n.lost = m.lost /\ n.alive = m.alive
               /\ n.wiped = m.wiped \cup {<<from, to>>}
               /\ DOMAIN n.hdr = {h \in DOMAIN m.hdr : ~Overlap(h, h + HEADER_SIZE, from, to)}
               /\ \A h \in DOMAIN n.hdr : n.hdr[h] = m.hdr[h]
               /\ DOMAIN n.tag = {p \in DOMAIN m.tag : ~Overlap(p - TAG_SIZE, p, from, to)}
               /\ \A p \in DOMAIN n.tag : n.tag[p] = m.tag[p]
<1> DEFINE H == {h \in DOMAIN m.hdr : ~Overlap(h, h + HEADER_SIZE, from, to)}
           Q == {p \in DOMAIN m.tag : ~Overlap(p - TAG_SIZE, p, from, to)}
           n == Discard(m, from, to)
<1>1. n = [m EXCEPT !.hdr = Keep(m.hdr, H), !.tag = Keep(m.tag, Q),
                    !.wiped = m.wiped \cup {<<from, to>>}]
  BY Zenon DEF Discard
<1>2. DOMAIN m.hdr \cap H = H /\ DOMAIN m.tag \cap Q = Q
  BY Zenon
<1> HIDE DEF H, Q, n
<1>3. /\ IsMem(n) /\ n.va = m.va /\ n.meta = m.meta /\ n.multi = m.multi
      /\ n.lost = m.lost /\ n.alive = m.alive /\ n.wiped = m.wiped \cup {<<from, to>>}
      /\ n.hdr = Keep(m.hdr, H) /\ n.tag = Keep(m.tag, Q)
  BY <1>1, Zenon DEF IsMem
<1>4. /\ DOMAIN n.hdr = H /\ \A h \in H : n.hdr[h] = m.hdr[h]
      /\ DOMAIN n.tag = Q /\ \A p \in Q : n.tag[p] = m.tag[p]
  BY <1>2, <1>3, Zenon DEF Keep
<1> QED BY <1>3, <1>4, Zenon DEF n, H, Q

(* A block changes between in use and cached. *)
LEMMA SetMagicIs ==
    ASSUME NEW m, IsMem(m), NEW h \in DOMAIN m.hdr, m.hdr[h] \in Headers,
           NEW magic \in {"MAGIC", "FREED"}
    PROVE  LET n == SetMagic(m, h, magic)
           IN  /\ IsMem(n) /\ n.va = m.va /\ n.meta = m.meta /\ n.multi = m.multi
               /\ n.lost = m.lost /\ n.alive = m.alive /\ n.wiped = m.wiped /\ n.tag = m.tag
               /\ DOMAIN n.hdr = DOMAIN m.hdr
               /\ n.hdr[h] \in Headers /\ n.hdr[h].class = m.hdr[h].class
               /\ n.hdr[h].magic = magic
               /\ \A k \in DOMAIN m.hdr \ {h} : n.hdr[k] = m.hdr[k]
<1> DEFINE v == [m.hdr[h] EXCEPT !.magic = magic]
           g == [m.hdr EXCEPT ![h] = v]
           n == SetMagic(m, h, magic)
<1>1. n = [m EXCEPT !.hdr = g]
  BY DEF SetMagic
<1>2. v \in Headers /\ v.class = m.hdr[h].class /\ v.magic = magic
  BY DEF Headers
<1> HIDE DEF v
<1>3. /\ DOMAIN g = DOMAIN m.hdr /\ g[h] = v /\ \A k \in DOMAIN m.hdr \ {h} : g[k] = m.hdr[k]
  BY Zenon
<1> HIDE DEF g, n
<1>4. /\ IsMem(n) /\ n.va = m.va /\ n.meta = m.meta /\ n.multi = m.multi /\ n.tag = m.tag
      /\ n.lost = m.lost /\ n.alive = m.alive /\ n.wiped = m.wiped /\ n.hdr = g
  BY <1>1, Zenon DEF IsMem
<1> QED BY <1>2, <1>3, <1>4, Zenon DEF n

-----------------------------------------------------------------------------
(* Pages and bytes. *)

(* Bytes on different pages lie one behind the other. *)
LEMMA Beside ==
    ASSUME NEW a \in Nat, NEW e \in Nat, NEW b \in Nat, NEW f \in Nat, a < e, b < f,
           Span(a, e) \cap Span(b, f) = {}
    PROVE  e <= b \/ f <= a
<1>1. PICK i \in Nat, j \in Nat, k \in Nat, l \in Nat :
         /\ i = a \div 4096 /\ j = (e - 1) \div 4096 /\ k = b \div 4096 /\ l = (f - 1) \div 4096
  OBVIOUS
<1>2. (i .. j) \cap (k .. l) = {}
  BY <1>1 DEF Span, PAGE
<1>3. i <= j /\ k <= l
  BY <1>1
<1>4. j < k \/ l < i
  <2>1. i \in i .. j /\ k \in k .. l
    BY <1>3
  <2>2. ~(i \in k .. l) /\ ~(k \in i .. j)
    BY <1>2, <2>1, Zenon
  <2> QED BY <1>3, <2>2
<1> QED BY <1>1, <1>4

(* Part of a range lies on part of its pages. *)
LEMMA SpanPart ==
    ASSUME NEW a \in Nat, NEW e \in Nat, NEW b \in Nat, NEW f \in Nat, a <= b, f <= e, 0 < f
    PROVE  Span(b, f) \subseteq Span(a, e)
<1>1. /\ a \div 4096 <= b \div 4096 /\ (f - 1) \div 4096 <= (e - 1) \div 4096
      /\ a \div 4096 \in Nat /\ b \div 4096 \in Nat
      /\ (f - 1) \div 4096 \in Nat /\ (e - 1) \div 4096 \in Nat
  OBVIOUS
<1> QED BY <1>1 DEF Span, PAGE

(* The pages of a run that starts a page. *)
LEMMA RunIsSpan ==
    ASSUME NEW a \in Nat, a % PAGE = 0, NEW len \in Nat \ {0}
    PROVE  RunAt(a, len) = Span(a, a + len)
<1>1. a \div 4096 + (len + 4096 - 1) \div 4096 - 1 = (a + len - 1) \div 4096
  BY DEF PAGE
<1> QED BY <1>1 DEF RunAt, Span, PAGE


(* A block lies on the page it starts on. *)
LEMMA FirstPage ==
    ASSUME NEW a \in Nat, NEW e \in Nat, a < e
    PROVE  a \div PAGE \in Span(a, e)
BY DEF Span, PAGE

(* The capacity of a block is a number, and its first page is its own. *)
LEMMA BlockIs ==
    ASSUME NEW m, NEW h, BlockOK(m, h)
    PROVE  /\ h \in Nat /\ Capacity(m, h) \in Nat /\ End(m, h) \in Nat
           /\ End(m, h) = h + 16 + Capacity(m, h) /\ h + 16 <= End(m, h)
           /\ h \div PAGE \in Foot(m, h)
<1>1. h \in Nat /\ m.hdr[h] \in Headers
  BY Zenon DEF BlockOK
<1>2. Capacity(m, h) \in Nat
  <2>1. CASE m.hdr[h].class = BIG
    BY <2>1, Zenon DEF BlockOK, Capacity
  <2>2. CASE m.hdr[h].class # BIG
    <3>1. m.hdr[h].class \in Classes
      BY <1>1, <2>2 DEF Headers
    <3> QED BY <2>2, <3>1, ClassFacts, Zenon DEF Capacity
  <2> QED BY <2>1, <2>2, Zenon
<1>3. End(m, h) = h + 16 + Capacity(m, h)
  BY Zenon DEF End, HEADER_SIZE
<1> HIDE DEF Capacity
<1>4. PICK c \in Nat : c = Capacity(m, h)
  BY <1>2, Zenon
<1>5. End(m, h) = h + 16 + c
  BY <1>3, <1>4, Zenon
<1>6. h + 16 + c \in Nat /\ h + 16 <= h + 16 + c
  BY <1>1
<1>7. h < h + 16 + c
  BY <1>1
<1>8. h \div PAGE \in Foot(m, h)
  BY <1>1, <1>5, <1>6, <1>7, FirstPage, Zenon DEF Foot
<1> QED BY <1>1, <1>2, <1>3, <1>5, <1>6, <1>8, Zenon

(* Nothing but magic numbers and tags has changed. *)
LEMMA SameBlocks ==
    ASSUME NEW m, MemOK(m), NEW n, IsMem(n), TagsClear(n),
           n.va = m.va, n.meta = m.meta, n.multi = m.multi, n.lost = m.lost, n.alive = m.alive,
           DOMAIN n.hdr = DOMAIN m.hdr,
           \A k \in DOMAIN m.hdr : /\ n.hdr[k] \in Headers /\ n.hdr[k].class = m.hdr[k].class
                                   /\ n.hdr[k].class = BIG => n.hdr[k].magic = "MAGIC"
    PROVE  /\ MemOK(n)
           /\ \A k \in DOMAIN m.hdr : Capacity(n, k) = Capacity(m, k) /\ End(n, k) = End(m, k)
<1>1. \A k \in DOMAIN m.hdr : Capacity(n, k) = Capacity(m, k)
  BY Zenon DEF Capacity
<1>2. \A k \in DOMAIN m.hdr : /\ End(n, k) = End(m, k) /\ Foot(n, k) = Foot(m, k)
                              /\ Alone(n, k) <=> Alone(m, k)
  BY <1>1, Zenon DEF End, Foot, Alone
<1>3. \A k \in DOMAIN m.hdr : BlockOK(n, k)
  BY <1>2, Zenon DEF MemOK, BlockOK
<1>4. Apart(n)
  BY <1>2, Zenon DEF MemOK, Apart
<1>5. Accounted(n)
  BY <1>2, Zenon DEF MemOK, Accounted
<1> QED BY <1>1, <1>2, <1>3, <1>4, <1>5, Zenon DEF MemOK

(* The blocks of K stay, the others and their pages `out' are given up,    *)
(* and the blocks of B come with the pages `in', which were given up or    *)
(* free.                                                                   *)
Rebuilds(m, n, K, B, out, in) ==
    /\ IsMem(n) /\ n.alive
    /\ K \subseteq DOMAIN m.hdr /\ B \cap K = {} /\ DOMAIN n.hdr = K \cup B
    /\ \A k \in K : /\ n.hdr[k] = m.hdr[k]
                    /\ m.hdr[k].class = BIG => k \in DOMAIN n.meta /\ n.meta[k] = m.meta[k]
                    /\ Foot(m, k) \cap out = {}
    /\ \A h \in DOMAIN m.hdr \ K : Foot(m, h) \subseteq out
    /\ \A k \in DOMAIN n.meta : k \in DOMAIN n.hdr /\ n.hdr[k].class = BIG
    /\ n.va = (m.va \ out) \cup in /\ in \subseteq Pages /\ in \cap (m.va \ out) = {}
    /\ m.multi \cap out = {} /\ m.multi \subseteq n.multi /\ n.multi \subseteq m.multi \cup in
    /\ m.lost \cap out = {} /\ m.lost \subseteq n.lost /\ n.lost \subseteq m.lost \cup in
    /\ \A p \in in : p \in n.multi \/ p \in n.lost \/ \E b \in B : p \in Foot(n, b)
    /\ \A b \in B : BlockOK(n, b) /\ Foot(n, b) \subseteq in
    /\ \A b, c \in B : /\ b < c => End(n, b) <= c
                       /\ b # c /\ Alone(n, b) => Foot(n, b) \cap Foot(n, c) = {}
    /\ DOMAIN n.tag \subseteq DOMAIN m.tag
    /\ \A q \in DOMAIN n.tag, b \in B : q <= b \/ b + 32 <= q

(* Memory that is rebuilt so is in order, and the blocks of K are the same. *)
LEMMA Rebuilt ==
    ASSUME NEW m, MemOK(m), NEW n, NEW K, NEW B, NEW out, NEW in, Rebuilds(m, n, K, B, out, in)
    PROVE  /\ MemOK(n)
           /\ \A k \in K : Capacity(n, k) = Capacity(m, k) /\ End(n, k) = End(m, k)
<1>1. \A k \in K : Capacity(n, k) = Capacity(m, k)
  BY Zenon DEF Rebuilds, Capacity
<1>2. \A k \in K : /\ End(n, k) = End(m, k) /\ Foot(n, k) = Foot(m, k)
                   /\ Foot(m, k) \subseteq m.va \ out /\ BlockOK(m, k)
  BY <1>1, Zenon DEF End, Foot, Rebuilds, MemOK, Accounted
<1>3. \A k \in K : Alone(n, k) <=> Alone(m, k)
  <2> SUFFICES ASSUME NEW k \in K
               PROVE  Alone(n, k) <=> Alone(m, k)
    BY Zenon
  <2>1. k \div PAGE \in m.va \ out
    BY <1>2, BlockIs, Zenon
  <2> QED BY <2>1, Zenon DEF Alone, Rebuilds
<1>4. \A k \in K : BlockOK(n, k)
  <2> SUFFICES ASSUME NEW k \in K
               PROVE  BlockOK(n, k)
    BY Zenon
  <2>1. /\ BlockOK(m, k) /\ n.hdr[k] = m.hdr[k] /\ Foot(n, k) = Foot(m, k)
        /\ m.hdr[k].class = BIG => k \in DOMAIN n.meta /\ n.meta[k] = m.meta[k]
        /\ Alone(n, k) <=> Alone(m, k)
    BY <1>2, <1>3, Zenon DEF Rebuilds
  <2>2. IF Alone(m, k) THEN Foot(m, k) \cap (n.multi \cup n.lost) = {}
        ELSE Foot(m, k) \subseteq n.multi /\ ITERATIONS[m.hdr[k].class] # 1
    <3>1. CASE Alone(m, k)
      <4>1. Foot(m, k) \cap (m.multi \cup m.lost) = {} /\ Foot(m, k) \cap in = {}
        BY <1>2, <2>1, <3>1, Zenon DEF BlockOK, Rebuilds
      <4>2. n.multi \cup n.lost \subseteq m.multi \cup m.lost \cup in
        BY Zenon DEF Rebuilds
      <4> QED BY <3>1, <4>1, <4>2, Zenon
    <3>2. CASE ~Alone(m, k)
      BY <2>1, <3>2, Zenon DEF BlockOK, Rebuilds
    <3> QED BY <3>1, <3>2, Zenon
  <2> QED BY <2>1, <2>2, Zenon DEF BlockOK
<1>5. \A b \in B : BlockOK(n, b) /\ Foot(n, b) \subseteq in
  BY Zenon DEF Rebuilds
<1>6. \A k \in K, b \in B : Foot(n, k) \cap Foot(n, b) = {}
  BY <1>2, <1>5, Zenon DEF Rebuilds
<1>7. ASSUME NEW h \in DOMAIN n.hdr, NEW k \in DOMAIN n.hdr, Foot(n, h) \cap Foot(n, k) = {}, h < k
      PROVE  End(n, h) <= k
  <2>1. BlockOK(n, h) /\ BlockOK(n, k)
    BY <1>4, <1>5, Zenon DEF Rebuilds
  <2>2. PICK e \in Nat, f \in Nat : /\ e = End(n, h) /\ f = End(n, k)
                                    /\ h \in Nat /\ k \in Nat /\ h + 16 <= e /\ k + 16 <= f
    BY <2>1, BlockIs, Zenon
  <2>3. h < e /\ k < f
    BY <2>2
  <2>4. e <= k \/ f <= h
    BY <1>7, <2>2, <2>3, Beside, Zenon DEF Foot
  <2> QED BY <1>7, <2>2, <2>3, <2>4
<1>8. Apart(n)
  <2> SUFFICES ASSUME NEW h \in DOMAIN n.hdr, NEW k \in DOMAIN n.hdr
               PROVE  /\ h < k => End(n, h) <= k
                      /\ h # k /\ Alone(n, h) => Foot(n, h) \cap Foot(n, k) = {}
    BY Zenon DEF Apart
  <2>1. CASE h \in K /\ k \in K
    <3>1. h \in DOMAIN m.hdr /\ k \in DOMAIN m.hdr
      BY <2>1, Zenon DEF Rebuilds
    <3>2. /\ h < k => End(m, h) <= k
          /\ h # k /\ Alone(m, h) => Foot(m, h) \cap Foot(m, k) = {}
      BY <3>1, Zenon DEF MemOK, Apart
    <3>3. End(n, h) = End(m, h) /\ Foot(n, h) = Foot(m, h) /\ Foot(n, k) = Foot(m, k)
      BY <1>2, <2>1, Zenon
    <3> QED BY <1>3, <2>1, <3>2, <3>3, Zenon
  <2>2. CASE h \in B /\ k \in B
    BY <2>2, Zenon DEF Rebuilds
  <2>3. CASE (h \in K /\ k \in B) \/ (h \in B /\ k \in K)
    <3>1. Foot(n, h) \cap Foot(n, k) = {}
      BY <1>6, <2>3, Zenon
    <3> QED BY <1>7, <3>1, Zenon
  <2> QED BY <2>1, <2>2, <2>3, Zenon DEF Rebuilds
<1>9. Accounted(n)
  <2>1. n.va \subseteq Pages /\ n.multi \subseteq n.va /\ n.lost \subseteq n.va
    BY Zenon DEF MemOK, Accounted, Rebuilds
  <2>2. \A h \in DOMAIN n.hdr : Foot(n, h) \subseteq n.va
    BY <1>2, <1>5, Zenon DEF Rebuilds
  <2>3. ASSUME NEW p \in n.va
        PROVE  p \in n.multi \/ p \in n.lost \/ \E h \in DOMAIN n.hdr : p \in Foot(n, h)
    <3>1. CASE p \in in
      BY <3>1, Zenon DEF Rebuilds
    <3>2. CASE p \in m.va \ out
      <4>1. p \in m.multi \/ p \in m.lost \/ \E h \in DOMAIN m.hdr : p \in Foot(m, h)
        BY <3>2, Zenon DEF MemOK, Accounted
      <4>2. \A h \in DOMAIN m.hdr : p \in Foot(m, h) => h \in K /\ p \in Foot(n, h)
        BY <1>2, <3>2, Zenon DEF Rebuilds
      <4> QED BY <4>1, <4>2, Zenon DEF Rebuilds
    <3> QED BY <3>1, <3>2, Zenon DEF Rebuilds
  <2> QED BY <2>1, <2>2, <2>3, Zenon DEF Accounted, Rebuilds
<1>10. TagsClear(n)
  BY Zenon DEF MemOK, TagsClear, Rebuilds
<1> QED BY <1>1, <1>2, <1>4, <1>5, <1>8, <1>9, <1>10, Zenon DEF MemOK, Rebuilds


-----------------------------------------------------------------------------
(* What a call leaves alone. *)

(* The bytes w leave those from a up to e alone. *)
Misses(w, a, e) == w[1] \in Nat /\ w[2] \in Nat /\ (w[2] <= a \/ e <= w[1])

(* The blocks of H are the same in n as in m, with the tags in them, and   *)
(* nothing of them was zeroed on the way.                                  *)
Keeps(m, n, H) ==
    /\ \A h \in H : h \in DOMAIN n.hdr /\ n.hdr[h] = m.hdr[h] /\ Capacity(n, h) = Capacity(m, h)
    /\ \A h \in H, q \in DOMAIN m.tag :
          h + 32 <= q /\ q <= End(m, h) => q \in DOMAIN n.tag /\ n.tag[q] = m.tag[q]
    /\ \A h \in H, w \in n.wiped \ m.wiped : Misses(w, h, End(m, h))

(* The ends of such blocks are the same. *)
LEMMA KeepsEnd ==
    ASSUME NEW m, NEW n, NEW H, Keeps(m, n, H)
    PROVE  \A h \in H : End(n, h) = End(m, h)
BY Zenon DEF Keeps, End

(* Two calls, one after the other. *)
LEMMA KeepsTwice ==
    ASSUME NEW l, NEW m, NEW n, NEW H, Keeps(l, m, H), Keeps(m, n, H)
    PROVE  Keeps(l, n, H)
<1>1. \A h \in H : End(m, h) = End(l, h)
  BY KeepsEnd, Zenon
<1>2. \A h \in H : h \in DOMAIN n.hdr /\ n.hdr[h] = l.hdr[h] /\ Capacity(n, h) = Capacity(l, h)
  BY Zenon DEF Keeps
<1>3. ASSUME NEW h \in H, NEW q \in DOMAIN l.tag, h + 32 <= q, q <= End(l, h)
      PROVE  q \in DOMAIN n.tag /\ n.tag[q] = l.tag[q]
  <2>1. q \in DOMAIN m.tag /\ m.tag[q] = l.tag[q] /\ q <= End(m, h)
    BY <1>1, <1>3, Zenon DEF Keeps
  <2> QED BY <1>3, <2>1, Zenon DEF Keeps
<1>4. ASSUME NEW h \in H, NEW w \in n.wiped \ l.wiped
      PROVE  Misses(w, h, End(l, h))
  BY <1>1, Zenon DEF Keeps
<1> QED BY <1>2, <1>3, <1>4, Zenon DEF Keeps

(* Fewer blocks are kept all the more. *)
LEMMA KeepsLess ==
    ASSUME NEW m, NEW n, NEW H, NEW J, Keeps(m, n, H), J \subseteq H
    PROVE  Keeps(m, n, J)
BY Zenon DEF Keeps

(* free and realloc find the block of a pointer. *)
LEMMA Header ==
    ASSUME NEW m, MemOK(m), NEW h \in DOMAIN m.hdr, NEW p \in Nat, Points(m, p, h)
    PROVE  HeaderOf(m, p) = h /\ RawOf(m, p) = h + 16 /\ h \in Nat
<1>1. BlockOK(m, h) /\ Foot(m, h) \subseteq Pages /\ TagsClear(m)
  BY Zenon DEF MemOK, Accounted
<1>2. PICK e \in Nat : e = End(m, h) /\ h \in Nat /\ h % 16 = 0 /\ h + 16 <= e
  BY <1>1, BlockIs, Zenon DEF BlockOK
<1>3. CASE p = h + 16
  <2>1. p \notin DOMAIN m.tag
    <3>1. ~(p <= h) /\ ~(h + 32 <= p)
      BY <1>2, <1>3
    <3> QED BY <1>1, <3>1, Zenon DEF TagsClear
  <2>2. RawOf(m, p) = p
    BY <2>1, Zenon DEF RawOf
  <2> QED BY <1>2, <1>3, <2>2 DEF HeaderOf, HEADER_SIZE
<1>4. CASE p # h + 16
  <2>1. p \in DOMAIN m.tag /\ m.tag[p] = h + 16 /\ h + 32 <= p /\ p < e
    BY <1>2, <1>4, Zenon DEF Points, HEADER_SIZE
  <2>2. is_ours(h + 16)
    <3>1. (e - 1) \div 4096 \in Pages
      <4>1. (e - 1) \div 4096 \in h \div 4096 .. (e - 1) \div 4096
        BY <1>2
      <4> QED BY <1>1, <1>2, <4>1 DEF Foot, Span, PAGE
    <3>2. NPages \in Nat
      BY AbiAssumption, Zenon
    <3>3. (e - 1) \div 4096 <= NPages - 1
      BY <3>1, <3>2 DEF Pages
    <3>4. (h + 16) % 8 = 0
      BY <1>2
    <3>5. e - 1 < NPages * 4096
      BY <1>2, <3>2, <3>3
    <3>6. h + 16 < NPages * 4096
      BY <1>2, <2>1, <3>2, <3>5
    <3> QED BY <1>2, <3>4, <3>6 DEF is_ours, PAGE
  <2>3. RawOf(m, p) = h + 16
    BY <2>1, <2>2, Zenon DEF RawOf
  <2> QED BY <1>2, <2>3 DEF HeaderOf, HEADER_SIZE
<1> QED BY <1>3, <1>4, Zenon

(* A pointer whose block is kept is as good as before. *)
LEMMA PtrKept ==
    ASSUME NEW m, NEW n, MemOK(n), NEW H, Keeps(m, n, H), NEW x, PtrOK(m, x),
           HeaderOf(m, x.ptr) \in H
    PROVE  PtrOK(n, x) /\ HeaderOf(n, x.ptr) = HeaderOf(m, x.ptr)
<1>1. PICK h \in H : h = HeaderOf(m, x.ptr)
  BY Zenon
<1>2. /\ x \in Pointers /\ h \in InUse(m) /\ Points(m, x.ptr, h)
      /\ x.ptr + x.size <= End(m, h) /\ x.ptr % x.align = 0
  BY <1>1, Zenon DEF PtrOK
<1>3. End(n, h) = End(m, h) /\ h \in DOMAIN n.hdr /\ n.hdr[h] = m.hdr[h]
  <2>1. \A k \in H : End(n, k) = End(m, k)
    BY KeepsEnd, Zenon
  <2> QED BY <2>1, Zenon DEF Keeps
<1>4. h \in InUse(n)
  BY <1>2, <1>3, Zenon DEF InUse
<1>5. x.ptr \in Nat
  BY <1>2, Zenon DEF Pointers
<1>6. Points(n, x.ptr, h)
  <2>1. CASE x.ptr = h + HEADER_SIZE
    BY <2>1, Zenon DEF Points
  <2>2. CASE x.ptr # h + HEADER_SIZE
    <3>1. /\ x.ptr \in DOMAIN m.tag /\ m.tag[x.ptr] = h + HEADER_SIZE
          /\ h + 32 <= x.ptr /\ x.ptr < End(m, h)
      BY <1>2, <2>2, Zenon DEF Points
    <3>2. x.ptr <= End(m, h)
      <4>1. BlockOK(n, h)
        BY <1>3, Zenon DEF MemOK
      <4>2. End(m, h) \in Nat
        BY <1>3, <4>1, BlockIs, Zenon
      <4> QED BY <1>5, <3>1, <4>2
    <3> QED BY <1>3, <3>1, <3>2, Zenon DEF Points, Keeps
  <2> QED BY <2>1, <2>2, Zenon
<1>7. HeaderOf(n, x.ptr) = h
  BY <1>3, <1>5, <1>6, Header, Zenon
<1> QED BY <1>1, <1>2, <1>3, <1>4, <1>6, <1>7, Zenon DEF PtrOK

(* Bytes beside a block can be zeroed. *)
LEMMA BesideBlock ==
    ASSUME NEW m, NEW k, BlockOK(m, k), NEW from \in Nat, NEW to \in Nat,
           to <= k \/ End(m, k) <= from
    PROVE  /\ ~Overlap(k, k + HEADER_SIZE, from, to)
           /\ \A q \in Nat : k + 32 <= q /\ q <= End(m, k) => ~Overlap(q - TAG_SIZE, q, from, to)
<1>1. PICK e \in Nat : e = End(m, k) /\ k \in Nat /\ k + 16 <= e
  BY BlockIs, Zenon
<1>2. to <= k \/ e <= from
  BY <1>1, Zenon
<1>3. ~(k < to /\ from < k + 16)
  BY <1>1, <1>2
<1>4. \A q \in Nat : k + 32 <= q /\ q <= e => ~(q - 16 < to /\ from < q)
  BY <1>1, <1>2
<1>5. TAG_SIZE = 16
  BY DEF TAG_SIZE, OFFSET_SIZE
<1> QED BY <1>1, <1>3, <1>4, <1>5, Zenon DEF Overlap, HEADER_SIZE


-----------------------------------------------------------------------------
(* malloc. *)

(* The class of a request. *)
LEMMA ClassOf ==
    ASSUME NEW size \in Nat
    PROVE  LET c == match_size_class(size)
           IN  \/ c = BIG /\ (size = 0 \/ size > MAX_CLASS_SIZE)
               \/ /\ c \in Classes /\ c # BIG /\ size # 0
                  /\ size <= MAX_CLASS_SIZE /\ size <= SIZE_CLASSES[c]
<1>1. CASE size = 0 \/ size > MAX_CLASS_SIZE
  BY <1>1, Zenon DEF match_size_class
<1>2. CASE ~(size = 0 \/ size > MAX_CLASS_SIZE)
  <2>1. size > 0 /\ size <= MAX_CLASS_SIZE
    BY <1>2, ClassFacts
  <2>2. match_size_class(size) \in Classes /\ SIZE_CLASSES[match_size_class(size)] >= size
    BY <2>1, SmallestClass, Zenon DEF Least
  <2>3. \A c \in 1 .. 34 : c # 100
    OBVIOUS
  <2>4. match_size_class(size) # BIG
    BY <2>2, <2>3, ClassFacts, ZenonT(30) DEF BIG
  <2>5. SIZE_CLASSES[match_size_class(size)] \in Nat
    BY <2>2, ClassFacts, Zenon
  <2>6. size <= SIZE_CLASSES[match_size_class(size)]
    BY <2>2, <2>5
  <2> QED BY <1>2, <2>1, <2>2, <2>4, <2>6, Zenon
<1> QED BY <1>1, <1>2, Zenon

(* No class is the class of big blocks. *)
LEMMA NotBig ==
    \A c \in Classes : c # BIG
BY SizeClassAssumption DEF Classes, BIG

(* The block at h is fresh in n, and what was in use stays as it was. *)
Gives(m, n, h, size) ==
    /\ MemOK(n) /\ Keeps(m, n, InUse(m))
    /\ h \in Nat /\ h \in InUse(n) /\ h \notin InUse(m) /\ size <= Capacity(n, h)

(* A block from a cache. *)
LEMMA CachedGives ==
    ASSUME NEW m, MemOK(m), NEW c \in Classes, NEW h \in Cached(m, c), NEW size,
           size <= SIZE_CLASSES[c]
    PROVE  Gives(m, SetMagic(m, h, "MAGIC"), h, size)
<1> DEFINE n == SetMagic(m, h, "MAGIC")
<1>1. h \in DOMAIN m.hdr /\ m.hdr[h] = [class |-> c, magic |-> "FREED"]
  BY Zenon DEF Cached
<1>2. \A k \in DOMAIN m.hdr : BlockOK(m, k) /\ m.hdr[k] \in Headers
  BY Zenon DEF MemOK, BlockOK
<1>3. /\ IsMem(n) /\ n.va = m.va /\ n.meta = m.meta /\ n.multi = m.multi
      /\ n.lost = m.lost /\ n.alive = m.alive /\ n.wiped = m.wiped /\ n.tag = m.tag
      /\ DOMAIN n.hdr = DOMAIN m.hdr
      /\ n.hdr[h] \in Headers /\ n.hdr[h].class = m.hdr[h].class
      /\ n.hdr[h].magic = "MAGIC"
      /\ \A k \in DOMAIN m.hdr \ {h} : n.hdr[k] = m.hdr[k]
  <2>1. IsMem(m)
    BY Zenon DEF MemOK
  <2> QED BY <1>1, <1>2, <2>1, SetMagicIs
<1> HIDE DEF n
<1>4. m.hdr[h].class = c /\ m.hdr[h].magic = "FREED" /\ c # BIG
  <2>1. c # BIG
    BY NotBig, Zenon
  <2> QED BY <1>1, <2>1
<1>5. TagsClear(n)
  BY <1>3, Zenon DEF MemOK, TagsClear
<1>6. \A k \in DOMAIN m.hdr : /\ n.hdr[k] \in Headers /\ n.hdr[k].class = m.hdr[k].class
                              /\ n.hdr[k].class = BIG => n.hdr[k].magic = "MAGIC"
  BY <1>2, <1>3, Zenon DEF BlockOK
<1>7. MemOK(n) /\ \A k \in DOMAIN m.hdr : Capacity(n, k) = Capacity(m, k)
  BY <1>3, <1>5, <1>6, SameBlocks, Zenon
<1>8. h \notin InUse(m) /\ h \in InUse(n)
  BY <1>1, <1>3, <1>4, Zenon DEF InUse
<1>9. Keeps(m, n, InUse(m))
  BY <1>3, <1>7, <1>8, Zenon DEF Keeps, InUse
<1>10. Capacity(n, h) = SIZE_CLASSES[c] /\ h \in Nat
  BY <1>1, <1>2, <1>4, <1>7, Zenon DEF Capacity, BlockOK
<1> QED BY <1>7, <1>8, <1>9, <1>10, Zenon DEF Gives, n

(* The blocks of a fresh region. *)
Carved(a, c) == {BlockAt(a, c, i) : i \in 0 .. Min(ITERATIONS[c], MaxCarve) - 1}

(* They lie one behind the other in the region, behind its metadata. *)
LEMMA CarvedAre ==
    ASSUME NEW a \in Nat, a % PAGE = 0, NEW c \in Classes
    PROVE  /\ RegionSize(c) \in Nat \ {0} /\ BlockAt(a, c, 0) = a + 32 /\ a + 32 \in Carved(a, c)
           /\ \A b \in Carved(a, c) : /\ b \in Nat /\ b % 16 = 0 /\ a + 32 <= b
                                      /\ b + 16 + SIZE_CLASSES[c] <= a + RegionSize(c)
           /\ \A b, d \in Carved(a, c) : b < d => b + 16 + SIZE_CLASSES[c] <= d
           /\ ITERATIONS[c] = 1 => /\ Carved(a, c) = {a + 32}
                                   /\ RegionSize(c) = 48 + SIZE_CLASSES[c]
<1> DEFINE s == SIZE_CLASSES[c]
           b == BlockSize(c)
           n == Min(ITERATIONS[c], MaxCarve)
<1>1. s \in Nat /\ s % 16 = 0 /\ ITERATIONS[c] \in Nat \ {0} /\ MaxCarve \in Nat \ {0}
  BY ClassFacts, AbiAssumption, Zenon
<1>2. n \in Nat \ {0} /\ n <= ITERATIONS[c] /\ (ITERATIONS[c] = 1 => n = 1)
  BY <1>1 DEF Min
<1>3. b = s + 16
  BY <1>1 DEF BlockSize, align_to, HEADER_SIZE
<1>4. PICK q \in Nat : b = 16 * q
  <2>1. b \in Nat /\ b % 16 = 0
    BY <1>1, <1>3
  <2>2. b = 16 * (b \div 16) /\ b \div 16 \in Nat
    BY <2>1
  <2> QED BY <2>2, Zenon
<1>5. PICK t \in Nat : t = ITERATIONS[c]
  BY <1>1, Zenon
<1>6. RegionSize(c) = 32 + b * t
  BY <1>5, Zenon DEF RegionSize, META_SIZE
<1> HIDE DEF b, s, n
<1>7. RegionSize(c) \in Nat \ {0}
  <2>1. \A x, y \in Nat : x * y \in Nat
    OBVIOUS
  <2>2. b * t \in Nat
    BY <1>1, <1>3, <2>1
  <2> QED BY <1>6, <2>2
<1>8. BlockAt(a, c, 0) = a + 32
  BY <1>1, <1>3 DEF BlockAt, META_SIZE, b
<1>9. a + 32 \in Carved(a, c)
  <2>1. 0 \in 0 .. n - 1
    BY <1>2
  <2> QED BY <1>8, <2>1, Zenon DEF Carved, n
<1>10. \A i \in 0 .. n - 1 : i \in 0 .. ITERATIONS[c] - 1
  BY <1>1, <1>2
<1>11. ASSUME NEW i \in 0 .. n - 1
       PROVE  /\ BlockAt(a, c, i) \in Nat /\ BlockAt(a, c, i) % 16 = 0
              /\ a + 32 <= BlockAt(a, c, i)
              /\ BlockAt(a, c, i) + 16 + SIZE_CLASSES[c] <= a + RegionSize(c)
              /\ \A j \in 0 .. n - 1 : i < j =>
                    BlockAt(a, c, i) + 16 + SIZE_CLASSES[c] <= BlockAt(a, c, j)
  <2>1. i \in 0 .. ITERATIONS[c] - 1
    BY <1>10, Zenon
  <2>2. /\ BlockAt(a, c, i) >= a + META_SIZE
        /\ \A j \in 0 .. ITERATIONS[c] - 1 : i < j =>
              BlockAt(a, c, i) + HEADER_SIZE + SIZE_CLASSES[c] <= BlockAt(a, c, j)
        /\ BlockAt(a, c, i) + HEADER_SIZE + SIZE_CLASSES[c] <= a + RegionSize(c)
    BY <2>1, BlocksSideBySide, Zenon
  <2>3. i \in Nat
    BY <1>2
  <2>4. BlockAt(a, c, i) = a + 32 + i * (16 * q)
    BY <1>4, Zenon DEF BlockAt, META_SIZE, b
  <2>5. PICK k \in Nat : k = i * q
    BY <2>3
  <2>6. i * (16 * q) = 16 * k
    <3>1. i * (16 * q) = 16 * (i * q)
      BY <2>3
    <3> QED BY <2>5, <3>1, Zenon
  <2>7. BlockAt(a, c, i) = a + 32 + 16 * k
    BY <2>4, <2>6, Zenon
  <2>8. BlockAt(a, c, i) \in Nat /\ a + 32 <= BlockAt(a, c, i) /\ BlockAt(a, c, i) % 16 = 0
    BY <2>7 DEF PAGE
  <2> QED BY <1>10, <2>2, <2>8, Zenon DEF HEADER_SIZE
<1>12. ASSUME NEW d \in Carved(a, c), NEW e \in Carved(a, c), d < e
       PROVE  d + 16 + SIZE_CLASSES[c] <= e
  <2>1. PICK i \in 0 .. n - 1, j \in 0 .. n - 1 : d = BlockAt(a, c, i) /\ e = BlockAt(a, c, j)
    BY Zenon DEF Carved, n
  <2>2. i < j => d + 16 + SIZE_CLASSES[c] <= e
    BY <1>11, <2>1, Zenon
  <2>3. j < i => e + 16 + SIZE_CLASSES[c] <= d
    BY <1>11, <2>1, Zenon
  <2>4. d \in Nat /\ e \in Nat
    BY <1>11, <2>1, Zenon
  <2>5. i # j
    <3>1. i = j => d = e
      BY <2>1, Zenon
    <3> QED BY <1>12, <2>4, <3>1
  <2>6. i < j \/ j < i
    BY <1>2, <2>5
  <2>7. ~(j < i)
    BY <1>1, <1>12, <2>3, <2>4 DEF s
  <2> QED BY <2>2, <2>6, <2>7, Zenon
<1>13. ASSUME ITERATIONS[c] = 1
       PROVE  Carved(a, c) = {a + 32} /\ RegionSize(c) = 48 + SIZE_CLASSES[c]
  <2>1. n = 1 /\ 0 .. 1 - 1 = {0}
    BY <1>2, <1>13
  <2>2. Carved(a, c) = {BlockAt(a, c, i) : i \in {0}}
    BY <2>1, Zenon DEF Carved, n
  <2>3. RegionSize(c) = 48 + s
    BY <1>1, <1>3, <1>5, <1>6, <1>13
  <2>4. {BlockAt(a, c, i) : i \in {0}} = {BlockAt(a, c, 0)}
    BY Zenon
  <2>5. Carved(a, c) = {a + 32}
    BY <1>8, <2>2, <2>4
  <2> QED BY <2>3, <2>5, Zenon DEF s
<1>14. \A d \in Carved(a, c) : /\ d \in Nat /\ d % 16 = 0 /\ a + 32 <= d
                                /\ d + 16 + SIZE_CLASSES[c] <= a + RegionSize(c)
  BY <1>11, Zenon DEF Carved, n
<1> QED BY <1>7, <1>8, <1>9, <1>12, <1>13, <1>14, Zenon


(* The memory after bulk_fill has formatted the blocks of a region at a. *)
Region(m, a, c) ==
    LET mapped == Discard(Take(m, RunAt(a, RegionSize(c))), a, a + RegionSize(c))
    IN  [mapped EXCEPT
           !.hdr = [h \in DOMAIN @ \cup Carved(a, c) |->
                      IF h \in Carved(a, c) THEN [class |-> c, magic |-> "FREED"] ELSE @[h]],
           !.multi = IF ITERATIONS[c] = 1 THEN @ ELSE @ \cup RunAt(a, RegionSize(c))]

(* What is in it. *)
IsRegion(m, n, a, c) ==
    LET run == RunAt(a, RegionSize(c))
        to == a + RegionSize(c)
    IN  /\ IsMem(n) /\ n.va = m.va \cup run /\ n.meta = m.meta
        /\ n.lost = m.lost /\ n.alive = m.alive
        /\ n.wiped = m.wiped \cup {<<a, to>>}
        /\ n.multi = IF ITERATIONS[c] = 1 THEN m.multi ELSE m.multi \cup run
        /\ DOMAIN n.hdr = {h \in DOMAIN m.hdr : ~Overlap(h, h + HEADER_SIZE, a, to)}
                             \cup Carved(a, c)
        /\ \A h \in Carved(a, c) : n.hdr[h] = [class |-> c, magic |-> "FREED"]
        /\ \A h \in DOMAIN n.hdr \ Carved(a, c) : n.hdr[h] = m.hdr[h]
        /\ DOMAIN n.tag = {p \in DOMAIN m.tag : ~Overlap(p - TAG_SIZE, p, a, to)}
        /\ \A p \in DOMAIN n.tag : n.tag[p] = m.tag[p]

(* What bulk_fill makes is such a region. *)
LEMMA RegionIs ==
    ASSUME NEW m, IsMem(m), NEW a, NEW c
    PROVE  IsRegion(m, Region(m, a, c), a, c)
<1> DEFINE run == RunAt(a, RegionSize(c))
           to == a + RegionSize(c)
           t == Take(m, run)
           d == Discard(t, a, to)
           B == Carved(a, c)
           v == [class |-> c, magic |-> "FREED"]
           g == [h \in DOMAIN d.hdr \cup B |-> IF h \in B THEN v ELSE d.hdr[h]]
           u == IF ITERATIONS[c] = 1 THEN d.multi ELSE d.multi \cup run
           n == Region(m, a, c)
<1>1. n = [d EXCEPT !.hdr = g, !.multi = u]
  BY Zenon DEF Region
<1>2. /\ IsMem(t) /\ t.va = m.va \cup run
      /\ t.hdr = m.hdr /\ t.meta = m.meta /\ t.tag = m.tag /\ t.multi = m.multi
      /\ t.lost = m.lost /\ t.wiped = m.wiped /\ t.alive = m.alive
  BY TakeIs, Zenon
<1> HIDE DEF t, run, to, B
<1>3. /\ IsMem(d) /\ d.va = t.va /\ d.meta = t.meta /\ d.multi = t.multi
      /\ d.lost = t.lost /\ d.alive = t.alive
      /\ d.wiped = t.wiped \cup {<<a, to>>}
      /\ DOMAIN d.hdr = {h \in DOMAIN t.hdr : ~Overlap(h, h + HEADER_SIZE, a, to)}
      /\ \A h \in DOMAIN d.hdr : d.hdr[h] = t.hdr[h]
      /\ DOMAIN d.tag = {p \in DOMAIN t.tag : ~Overlap(p - TAG_SIZE, p, a, to)}
      /\ \A p \in DOMAIN d.tag : d.tag[p] = t.tag[p]
  BY <1>2, DiscardIs
<1> HIDE DEF d, v
<1>4. /\ DOMAIN g = DOMAIN d.hdr \cup B /\ \A h \in B : g[h] = v
      /\ \A h \in DOMAIN g \ B : g[h] = d.hdr[h] /\ h \in DOMAIN d.hdr
  BY Zenon
<1>5. u = IF ITERATIONS[c] = 1 THEN m.multi ELSE m.multi \cup run
  BY <1>2, <1>3, Zenon
<1> HIDE DEF g, u, n
<1>6. /\ IsMem(n) /\ n.va = d.va /\ n.meta = d.meta /\ n.lost = d.lost /\ n.alive = d.alive
      /\ n.wiped = d.wiped /\ n.tag = d.tag /\ n.hdr = g /\ n.multi = u
  BY <1>1, <1>3, Zenon DEF IsMem
<1>7. /\ n.va = m.va \cup run /\ n.meta = m.meta /\ n.lost = m.lost /\ n.alive = m.alive
      /\ n.wiped = m.wiped \cup {<<a, to>>}
      /\ n.multi = IF ITERATIONS[c] = 1 THEN m.multi ELSE m.multi \cup run
  BY <1>2, <1>3, <1>5, <1>6
<1>8. /\ DOMAIN n.hdr = {h \in DOMAIN m.hdr : ~Overlap(h, h + HEADER_SIZE, a, to)} \cup B
      /\ \A h \in B : n.hdr[h] = v
      /\ \A h \in DOMAIN n.hdr \ B : n.hdr[h] = m.hdr[h]
  <2>1. {h \in DOMAIN t.hdr : ~Overlap(h, h + HEADER_SIZE, a, to)}
          = {h \in DOMAIN m.hdr : ~Overlap(h, h + HEADER_SIZE, a, to)}
    BY <1>2, Zenon
  <2> QED BY <1>2, <1>3, <1>4, <1>6, <2>1, Zenon
<1>9. /\ DOMAIN n.tag = {p \in DOMAIN m.tag : ~Overlap(p - TAG_SIZE, p, a, to)}
      /\ \A p \in DOMAIN n.tag : n.tag[p] = m.tag[p]
  BY <1>2, <1>3, <1>6, Zenon
<1> QED BY <1>6, <1>7, <1>8, <1>9, Zenon DEF IsRegion, n, run, to, B, v

(* A page that is free starts no block, and lies under none. *)
LEMMA FreeRun ==
    ASSUME NEW m, MemOK(m), NEW len \in Nat \ {0}, NEW a \in FreeRuns(m, len)
    PROVE  /\ a \in Nat /\ a % PAGE = 0 /\ a % 16 = 0
           /\ RunAt(a, len) = Span(a, a + len)
           /\ RunAt(a, len) \subseteq Pages /\ RunAt(a, len) \cap m.va = {}
           /\ \A k \in DOMAIN m.hdr : a + len <= k \/ End(m, k) <= a
<1>1. PICK p \in Pages : a = p * PAGE
  BY Zenon DEF FreeRuns
<1>2. a \in Nat /\ a % PAGE = 0 /\ a % 16 = 0
  BY <1>1, AbiAssumption DEF Pages, PAGE
<1>3. RunAt(a, len) = Span(a, a + len)
  BY <1>2, RunIsSpan, Zenon
<1>4. RunAt(a, len) \subseteq Pages \ m.va
  BY Zenon DEF FreeRuns
<1>5. RunAt(a, len) \subseteq Pages /\ RunAt(a, len) \cap m.va = {}
  BY <1>4, Zenon
<1>6. ASSUME NEW k \in DOMAIN m.hdr
      PROVE  a + len <= k \/ End(m, k) <= a
  <2>1. BlockOK(m, k) /\ Foot(m, k) \subseteq m.va
    BY Zenon DEF MemOK, Accounted
  <2>2. PICK e \in Nat : e = End(m, k) /\ k \in Nat /\ k + 16 <= e
    BY <2>1, BlockIs, Zenon
  <2>3. PICK f \in Nat : f = a + len /\ a < f
    BY <1>2
  <2>4. Span(a, f) \cap Span(k, e) = {}
    BY <1>3, <1>5, <2>1, <2>2, <2>3, Zenon DEF Foot
  <2>5. k < e
    BY <2>2
  <2>6. f <= k \/ e <= a
    BY <1>2, <2>2, <2>3, <2>4, <2>5, Beside
  <2> QED BY <1>2, <2>2, <2>3, <2>6
<1> QED BY <1>2, <1>3, <1>5, <1>6, Zenon


(* A fresh region. *)
LEMMA RegionGives ==
    ASSUME NEW m, MemOK(m), NEW c \in Classes, NEW a \in FreeRuns(m, RegionSize(c)), NEW size,
           size <= SIZE_CLASSES[c]
    PROVE  Gives(m, SetMagic(Region(m, a, c), BlockAt(a, c, 0), "MAGIC"), BlockAt(a, c, 0), size)
<1> DEFINE len == RegionSize(c)
           to == a + len
           run == RunAt(a, len)
           B == Carved(a, c)
           K == DOMAIN m.hdr
           s == SIZE_CLASSES[c]
           f == Region(m, a, c)
           n == SetMagic(f, a + 32, "MAGIC")
<1>1. IsMem(m) /\ m.alive /\ Accounted(m) /\ TagsClear(m) /\ \A k \in K : BlockOK(m, k)
  BY Zenon DEF MemOK
<1>2. len \in Nat \ {0}
  <2>1. 0 \in Nat /\ 0 % PAGE = 0
    BY DEF PAGE
  <2> QED BY <2>1, CarvedAre, Zenon
<1>3. /\ a \in Nat /\ a % PAGE = 0 /\ run = Span(a, to) /\ run \subseteq Pages /\ run \cap m.va = {}
      /\ \A k \in K : to <= k \/ End(m, k) <= a
  BY <1>2, FreeRun, Zenon
<1>4. /\ BlockAt(a, c, 0) = a + 32 /\ a + 32 \in B
      /\ \A b \in B : b \in Nat /\ b % 16 = 0 /\ a + 32 <= b /\ b + 16 + s <= to
      /\ \A b, d \in B : b < d => b + 16 + s <= d
      /\ ITERATIONS[c] = 1 => B = {a + 32} /\ len = 48 + s
  BY <1>3, CarvedAre, Zenon
<1>5. s \in Nat /\ ITERATIONS[c] \in Nat /\ c # BIG
  BY ClassFacts, NotBig, Zenon
<1>6. /\ IsMem(f) /\ f.va = m.va \cup run /\ f.meta = m.meta
      /\ f.lost = m.lost /\ f.alive = m.alive
      /\ f.wiped = m.wiped \cup {<<a, to>>}
      /\ f.multi = IF ITERATIONS[c] = 1 THEN m.multi ELSE m.multi \cup run
      /\ DOMAIN f.hdr = {h \in K : ~Overlap(h, h + HEADER_SIZE, a, to)} \cup B
      /\ \A h \in B : f.hdr[h] = [class |-> c, magic |-> "FREED"]
      /\ \A h \in DOMAIN f.hdr \ B : f.hdr[h] = m.hdr[h]
      /\ DOMAIN f.tag = {p \in DOMAIN m.tag : ~Overlap(p - TAG_SIZE, p, a, to)}
      /\ \A p \in DOMAIN f.tag : f.tag[p] = m.tag[p]
  <2>1. IsRegion(m, f, a, c)
    BY <1>1, RegionIs, Zenon
  <2> HIDE DEF f
  <2> QED BY <2>1, Zenon DEF IsRegion
<1> HIDE DEF f, B, run, s, len, to
<1>7. to \in Nat
  BY <1>2, <1>3 DEF to
<1>8. \A k \in K : /\ ~Overlap(k, k + HEADER_SIZE, a, to)
                   /\ \A q \in Nat : k + 32 <= q /\ q <= End(m, k) => ~Overlap(q - TAG_SIZE, q, a, to)
  BY <1>1, <1>3, <1>7, BesideBlock
<1>9. B \cap K = {}
  <2> SUFFICES ASSUME NEW k \in K, k \in B
               PROVE  FALSE
    BY Zenon
  <2>1. k \in Nat /\ k + 16 <= End(m, k) /\ End(m, k) \in Nat
    BY <1>1, BlockIs, Zenon
  <2>2. a + 32 <= k /\ k + 16 + s <= to /\ (to <= k \/ End(m, k) <= a)
    BY <1>3, <1>4, Zenon
  <2> QED BY <1>3, <1>5, <1>7, <2>1, <2>2
<1>10. {h \in K : ~Overlap(h, h + HEADER_SIZE, a, to)} = K
  BY <1>8, Zenon
<1>11. DOMAIN f.hdr = K \cup B
  BY <1>6, <1>10, Zenon
<1>12. f.hdr[a + 32] \in Headers /\ a + 32 \in DOMAIN f.hdr
  BY <1>4, <1>6, <1>11 DEF Headers
<1>13. /\ IsMem(n) /\ n.va = f.va /\ n.meta = f.meta /\ n.multi = f.multi
       /\ n.lost = f.lost /\ n.alive = f.alive /\ n.wiped = f.wiped /\ n.tag = f.tag
       /\ DOMAIN n.hdr = DOMAIN f.hdr
       /\ n.hdr[a + 32] \in Headers /\ n.hdr[a + 32].class = f.hdr[a + 32].class
       /\ n.hdr[a + 32].magic = "MAGIC"
       /\ \A k \in DOMAIN f.hdr \ {a + 32} : n.hdr[k] = f.hdr[k]
  BY <1>6, <1>12, SetMagicIs
<1> HIDE DEF n
<1>14. \A b \in B : n.hdr[b] \in Headers /\ n.hdr[b].class = c
  <2> SUFFICES ASSUME NEW b \in B
               PROVE  n.hdr[b] \in Headers /\ n.hdr[b].class = c
    BY Zenon
  <2>1. f.hdr[b] \in Headers /\ f.hdr[b].class = c
    BY <1>6 DEF Headers
  <2>2. b \in DOMAIN f.hdr
    BY <1>11, Zenon
  <2>3. CASE b = a + 32
    BY <1>13, <2>1, <2>3, Zenon
  <2>4. CASE b # a + 32
    BY <1>13, <2>1, <2>2, <2>4, Zenon
  <2> QED BY <2>3, <2>4, Zenon
<1>15. \A k \in K : n.hdr[k] = m.hdr[k]
  BY <1>4, <1>6, <1>9, <1>11, <1>13, Zenon
<1>16. \A b \in B : /\ Capacity(n, b) = s /\ End(n, b) = b + 16 + s
                    /\ Foot(n, b) = Span(b, b + 16 + s) /\ Span(b, b + 16 + s) \subseteq run
                    /\ b \div PAGE \in run
  <2> SUFFICES ASSUME NEW b \in B
               PROVE  /\ Capacity(n, b) = s /\ End(n, b) = b + 16 + s
                      /\ Foot(n, b) = Span(b, b + 16 + s) /\ Span(b, b + 16 + s) \subseteq run
                      /\ b \div PAGE \in run
    BY Zenon
  <2>1. Capacity(n, b) = s
    BY <1>5, <1>14, Zenon DEF Capacity, s
  <2>2. End(n, b) = b + 16 + s
    BY <2>1, Zenon DEF End, HEADER_SIZE
  <2>3. Foot(n, b) = Span(b, b + 16 + s)
    BY <2>2, Zenon DEF Foot
  <2>4. /\ b \in Nat /\ b + 16 + s \in Nat /\ a <= b /\ 0 < b + 16 + s /\ b < b + 16 + s
        /\ b + 16 + s <= to
    BY <1>3, <1>4, <1>5
  <2>5. Span(b, b + 16 + s) \subseteq run
    BY <1>3, <1>7, <2>4, SpanPart
  <2>6. b \div PAGE \in run
    BY <2>4, <2>5, FirstPage, Zenon
  <2> QED BY <2>1, <2>2, <2>3, <2>5, <2>6, Zenon
<1> DEFINE Cut == /\ \A b \in B : BlockOK(n, b)
                  /\ \A p \in run : p \in n.multi \/ \E b \in B : p \in Foot(n, b)
                  /\ \A b, d \in B : b # d => ~Alone(n, b)
                  /\ m.multi \subseteq n.multi /\ n.multi \subseteq m.multi \cup run
<1>17. ASSUME ITERATIONS[c] = 1
       PROVE  Cut
  <2>1. B = {a + 32} /\ len = 48 + s /\ n.multi = m.multi
    BY <1>4, <1>6, <1>13, <1>17, Zenon
  <2>2. (a + 32) % PAGE \in {0, META_SIZE} /\ (a + 32) \div PAGE = a \div PAGE
    BY <1>3 DEF PAGE, META_SIZE
  <2>3. Foot(n, a + 32) = run
    <3>1. a + 32 + 16 + s = to
      BY <1>3, <1>5, <2>1 DEF to
    <3>2. Span(a + 32, to) = Span(a, to)
      BY <2>2, Zenon DEF Span
    <3> QED BY <1>3, <1>4, <1>16, <3>1, <3>2
  <2>4. Alone(n, a + 32) /\ run \cap (n.multi \cup n.lost) = {}
    <3>1. run \cap (m.multi \cup m.lost) = {}
      BY <1>1, <1>3, Zenon DEF Accounted
    <3>2. run \cap (n.multi \cup n.lost) = {}
      BY <1>6, <1>13, <2>1, <3>1, Zenon
    <3> QED BY <1>4, <1>16, <3>2, Zenon DEF Alone
  <2>5. BlockOK(n, a + 32)
    <3>1. Foot(n, a + 32) \cap (n.multi \cup n.lost) = {}
      BY <2>3, <2>4, Zenon
    <3>2. n.hdr[a + 32].class # BIG
      BY <1>4, <1>5, <1>14, Zenon
    <3> QED BY <1>4, <1>14, <2>2, <2>4, <3>1, <3>2, Zenon DEF BlockOK
  <2> QED BY <2>1, <2>3, <2>5, Zenon
<1>18. ASSUME ITERATIONS[c] # 1
       PROVE  Cut
  <2>1. n.multi = m.multi \cup run
    BY <1>6, <1>13, <1>18, Zenon
  <2>2. ASSUME NEW b \in B
        PROVE  BlockOK(n, b) /\ ~Alone(n, b)
    <3>1. Foot(n, b) \subseteq n.multi /\ b \div PAGE \in n.multi
      BY <1>16, <2>1, Zenon
    <3>2. b \in Nat /\ b % 16 = 0 /\ n.hdr[b] \in Headers /\ n.hdr[b].class = c
      BY <1>4, <1>14, Zenon
    <3> QED BY <1>5, <1>18, <3>1, <3>2, Zenon DEF BlockOK, Alone
  <2> QED BY <2>1, <2>2, Zenon
<1>19. Cut
  BY <1>17, <1>18, Zenon
<1>20. \A q \in DOMAIN n.tag, b \in B : q <= b \/ b + 32 <= q
  <2> SUFFICES ASSUME NEW q \in DOMAIN n.tag, NEW b \in B
               PROVE  q <= b \/ b + 32 <= q
    BY Zenon
  <2>1. q \in DOMAIN m.tag /\ ~Overlap(q - TAG_SIZE, q, a, to)
    BY <1>6, <1>13, Zenon
  <2>2. q \in Nat
    BY <1>1, <2>1, Zenon DEF TagsClear
  <2>3. b \in Nat /\ a + 32 <= b /\ b + 16 + s <= to
    BY <1>4, Zenon
  <2> QED BY <1>3, <1>5, <1>7, <2>1, <2>2, <2>3 DEF Overlap, TAG_SIZE, OFFSET_SIZE
<1>21. Rebuilds(m, n, K, B, {}, run)
  <2>1. IsMem(n) /\ n.alive /\ DOMAIN n.hdr = K \cup B
    BY <1>1, <1>6, <1>11, <1>13, Zenon
  <2>2. /\ n.va = (m.va \ {}) \cup run /\ n.lost = m.lost /\ n.meta = m.meta
        /\ DOMAIN n.tag \subseteq DOMAIN m.tag
    BY <1>6, <1>13, Zenon
  <2>3. \A k \in DOMAIN n.meta : k \in DOMAIN n.hdr /\ n.hdr[k].class = BIG
    BY <1>1, <1>15, <2>1, <2>2, Zenon DEF Accounted
  <2>4. \A b, d \in B : b < d => End(n, b) <= d
    BY <1>4, <1>16
  <2>5. \A k \in K : m.hdr[k].class = BIG => k \in DOMAIN n.meta /\ n.meta[k] = m.meta[k]
    BY <1>1, <2>2, Zenon DEF BlockOK
  <2>6. \A b \in B : BlockOK(n, b) /\ Foot(n, b) \subseteq run
    BY <1>16, <1>19, Zenon
  <2> HIDE DEF K
  <2>7. \A b, d \in B : /\ b < d => End(n, b) <= d
                        /\ b # d /\ Alone(n, b) => Foot(n, b) \cap Foot(n, d) = {}
    BY <1>19, <2>4, Zenon
  <2> QED BY <1>3, <1>9, <1>15, <1>19, <1>20, <2>1, <2>2, <2>3, <2>5, <2>6, <2>7, Zenon
          DEF Rebuilds, K
<1>22. MemOK(n) /\ \A k \in K : Capacity(n, k) = Capacity(m, k)
  BY <1>21, Rebuilt, Zenon
<1>23. Keeps(m, n, InUse(m))
  <2>1. \A h \in InUse(m), q \in DOMAIN m.tag :
           h + 32 <= q /\ q <= End(m, h) => q \in DOMAIN n.tag /\ n.tag[q] = m.tag[q]
    <3>1. \A q \in DOMAIN m.tag : q \in Nat
      BY <1>1, Zenon DEF TagsClear
    <3> QED BY <1>6, <1>8, <1>13, <3>1, Zenon DEF InUse
  <2>2. \A h \in InUse(m), w \in n.wiped \ m.wiped : Misses(w, h, End(m, h))
    <3>1. \A w \in n.wiped \ m.wiped : w = <<a, to>>
      BY <1>6, <1>13, Zenon
    <3>2. <<a, to>>[1] = a /\ <<a, to>>[2] = to
      OBVIOUS
    <3> QED BY <1>3, <1>7, <3>1, <3>2, Zenon DEF InUse, Misses
  <2>3. \A h \in InUse(m) : /\ h \in DOMAIN n.hdr /\ n.hdr[h] = m.hdr[h]
                            /\ Capacity(n, h) = Capacity(m, h)
    BY <1>11, <1>13, <1>15, <1>22, Zenon DEF InUse
  <2> QED BY <2>1, <2>2, <2>3, Zenon DEF Keeps
<1>24. a + 32 \in Nat /\ a + 32 \in InUse(n) /\ a + 32 \notin InUse(m)
  BY <1>4, <1>9, <1>12, <1>13, Zenon DEF InUse
<1>25. Capacity(n, a + 32) = s
  BY <1>4, <1>16, Zenon
<1> QED BY <1>4, <1>22, <1>23, <1>24, <1>25, Zenon DEF Gives, n, f, s


(* A big block of a size rounded up to pages. *)
LEMMA PageRound ==
    ASSUME NEW size \in Nat
    PROVE  LET t == align_to(size + HEADER_SIZE, PAGE)
           IN  /\ t \in Nat \ {0} /\ t % PAGE = 0 /\ size + 16 <= t
               /\ \A a \in Nat : a % PAGE = 0 => Span(a, a + t) = Span(a, a + 16 + size)
<1>1. align_to(size + HEADER_SIZE, PAGE) = ((size + 16 + 4096 - 1) \div 4096) * 4096
  BY DEF align_to, HEADER_SIZE, PAGE
<1>2. PICK t \in Nat : /\ t = align_to(size + HEADER_SIZE, PAGE)
                       /\ t = ((size + 16 + 4096 - 1) \div 4096) * 4096
  BY <1>1
<1>3. t % 4096 = 0 /\ size + 16 <= t /\ t # 0
  BY <1>2
<1>4. \A a \in Nat : a % 4096 = 0 => (a + t - 1) \div 4096 = (a + 16 + size - 1) \div 4096
  BY <1>2
<1>5. \A a \in Nat : a % 4096 = 0 => Span(a, a + t) = Span(a, a + 16 + size)
  BY <1>4 DEF Span, PAGE
<1>6. t % PAGE = 0 /\ \A a \in Nat : a % PAGE = 0 => Span(a, a + t) = Span(a, a + 16 + size)
  BY <1>3, <1>5 DEF PAGE
<1> QED BY <1>2, <1>3, <1>6

(* The memory after big_malloc has set up a block at a. *)
BigBlock(m, a, size) ==
    [Format(Take(m, RunAt(a, align_to(size + HEADER_SIZE, PAGE))), a, BIG, "MAGIC")
       EXCEPT !.meta = Put(@, a, size)]

(* What is in it. *)
IsBigBlock(m, n, a, size) ==
    /\ IsMem(n) /\ n.va = m.va \cup RunAt(a, align_to(size + HEADER_SIZE, PAGE))
    /\ n.multi = m.multi /\ n.lost = m.lost /\ n.alive = m.alive /\ n.wiped = m.wiped
    /\ DOMAIN n.meta = DOMAIN m.meta \cup {a} /\ n.meta[a] = size
    /\ \A k \in DOMAIN m.meta \ {a} : n.meta[k] = m.meta[k]
    /\ DOMAIN n.hdr = DOMAIN m.hdr \cup {a}
    /\ n.hdr[a] = [class |-> BIG, magic |-> "MAGIC"]
    /\ \A k \in DOMAIN m.hdr \ {a} : n.hdr[k] = m.hdr[k]
    /\ DOMAIN n.tag = {p \in DOMAIN m.tag : ~Overlap(p - TAG_SIZE, p, a, a + HEADER_SIZE)}
    /\ \A p \in DOMAIN n.tag : n.tag[p] = m.tag[p]

(* A header is written. *)
LEMMA FormatIs ==
    ASSUME NEW m, IsMem(m), NEW h, NEW c, NEW magic
    PROVE  LET n == Format(m, h, c, magic)
           IN  /\ IsMem(n) /\ n.va = m.va /\ n.meta = m.meta /\ n.multi = m.multi
               /\ n.lost = m.lost /\ n.alive = m.alive /\ n.wiped = m.wiped
               /\ DOMAIN n.hdr = DOMAIN m.hdr \cup {h}
               /\ n.hdr[h] = [class |-> c, magic |-> magic]
               /\ \A k \in DOMAIN m.hdr \ {h} : n.hdr[k] = m.hdr[k]
               /\ DOMAIN n.tag = {p \in DOMAIN m.tag : ~Overlap(p - TAG_SIZE, p, h, h + HEADER_SIZE)}
               /\ \A p \in DOMAIN n.tag : n.tag[p] = m.tag[p]
<1> DEFINE v == [class |-> c, magic |-> magic]
           Q == {p \in DOMAIN m.tag : ~Overlap(p - TAG_SIZE, p, h, h + HEADER_SIZE)}
           n == Format(m, h, c, magic)
<1>1. n = [m EXCEPT !.hdr = Put(m.hdr, h, v), !.tag = Keep(m.tag, Q)]
  BY Zenon DEF Format
<1>2. DOMAIN m.tag \cap Q = Q
  BY Zenon
<1> HIDE DEF v, Q, n
<1>3. /\ IsMem(n) /\ n.va = m.va /\ n.meta = m.meta /\ n.multi = m.multi
      /\ n.lost = m.lost /\ n.alive = m.alive /\ n.wiped = m.wiped
      /\ n.hdr = Put(m.hdr, h, v) /\ n.tag = Keep(m.tag, Q)
  BY <1>1, Zenon DEF IsMem
<1>4. /\ DOMAIN n.hdr = DOMAIN m.hdr \cup {h} /\ n.hdr[h] = v
      /\ \A k \in DOMAIN m.hdr \ {h} : n.hdr[k] = m.hdr[k]
      /\ DOMAIN n.tag = Q /\ \A p \in Q : n.tag[p] = m.tag[p]
  BY <1>2, <1>3, Zenon DEF Put, Keep
<1> QED BY <1>3, <1>4, Zenon DEF n, Q, v

(* What big_malloc makes is such a block. *)
LEMMA BigBlockIs ==
    ASSUME NEW m, IsMem(m), NEW a, NEW size
    PROVE  IsBigBlock(m, BigBlock(m, a, size), a, size)
<1> DEFINE run == RunAt(a, align_to(size + HEADER_SIZE, PAGE))
           t == Take(m, run)
           f == Format(t, a, BIG, "MAGIC")
           e == Put(m.meta, a, size)
           Q == {p \in DOMAIN m.tag : ~Overlap(p - TAG_SIZE, p, a, a + HEADER_SIZE)}
           v == [class |-> BIG, magic |-> "MAGIC"]
           n == BigBlock(m, a, size)
<1>1. n = [f EXCEPT !.meta = Put(f.meta, a, size)]
  BY Zenon DEF BigBlock
<1>2. /\ IsMem(t) /\ t.va = m.va \cup run
      /\ t.hdr = m.hdr /\ t.meta = m.meta /\ t.tag = m.tag /\ t.multi = m.multi
      /\ t.lost = m.lost /\ t.wiped = m.wiped /\ t.alive = m.alive
  BY TakeIs, Zenon
<1> HIDE DEF t, run
<1>3. /\ IsMem(f) /\ f.va = t.va /\ f.meta = t.meta /\ f.multi = t.multi
      /\ f.lost = t.lost /\ f.alive = t.alive /\ f.wiped = t.wiped
      /\ DOMAIN f.hdr = DOMAIN t.hdr \cup {a} /\ f.hdr[a] = v
      /\ \A k \in DOMAIN t.hdr \ {a} : f.hdr[k] = t.hdr[k]
      /\ DOMAIN f.tag = {p \in DOMAIN t.tag : ~Overlap(p - TAG_SIZE, p, a, a + HEADER_SIZE)}
      /\ \A p \in DOMAIN f.tag : f.tag[p] = t.tag[p]
  BY <1>2, FormatIs
<1> HIDE DEF f, v
<1>4. n = [f EXCEPT !.meta = e]
  BY <1>1, <1>2, <1>3, Zenon
<1>5. /\ DOMAIN e = DOMAIN m.meta \cup {a} /\ e[a] = size
      /\ \A k \in DOMAIN m.meta \ {a} : e[k] = m.meta[k]
  BY Zenon DEF Put
<1>6. DOMAIN f.tag = Q
  BY <1>2, <1>3, Zenon
<1> HIDE DEF e, n, Q
<1>7. /\ IsMem(n) /\ n.va = f.va /\ n.multi = f.multi /\ n.lost = f.lost /\ n.alive = f.alive
      /\ n.wiped = f.wiped /\ n.tag = f.tag /\ n.hdr = f.hdr /\ n.meta = e
  BY <1>3, <1>4, Zenon DEF IsMem
<1>8. /\ IsMem(n) /\ n.va = m.va \cup run
      /\ n.multi = m.multi /\ n.lost = m.lost /\ n.alive = m.alive /\ n.wiped = m.wiped
      /\ DOMAIN n.hdr = DOMAIN m.hdr \cup {a} /\ n.hdr[a] = v
      /\ \A k \in DOMAIN m.hdr \ {a} : n.hdr[k] = m.hdr[k]
      /\ DOMAIN n.tag = Q /\ \A p \in DOMAIN n.tag : n.tag[p] = m.tag[p]
  BY <1>2, <1>3, <1>6, <1>7, Zenon
<1> QED BY <1>5, <1>7, <1>8, Zenon DEF IsBigBlock, n, Q, run, v

(* A fresh big block. *)
LEMMA BigGives ==
    ASSUME NEW m, MemOK(m), NEW size \in Nat, match_size_class(size) = BIG,
           NEW a \in FreeRuns(m, align_to(size + HEADER_SIZE, PAGE))
    PROVE  Gives(m, BigBlock(m, a, size), a, size)
<1> DEFINE len == align_to(size + HEADER_SIZE, PAGE)
           run == RunAt(a, len)
           K == DOMAIN m.hdr
           n == BigBlock(m, a, size)
<1>1. IsMem(m) /\ m.alive /\ Accounted(m) /\ TagsClear(m) /\ \A k \in K : BlockOK(m, k)
  BY Zenon DEF MemOK
<1>2. /\ len \in Nat \ {0} /\ size + 16 <= len
      /\ \A b \in Nat : b % PAGE = 0 => Span(b, b + len) = Span(b, b + 16 + size)
  BY PageRound
<1>3. /\ a \in Nat /\ a % PAGE = 0 /\ a % 16 = 0 /\ run = Span(a, a + len)
      /\ run \subseteq Pages /\ run \cap m.va = {}
      /\ \A k \in K : a + len <= k \/ End(m, k) <= a
  BY <1>2, FreeRun, Zenon
<1>4. size = 0 \/ size > MAX_CLASS_SIZE
  BY ClassOf, Zenon
<1>5. /\ IsMem(n) /\ n.va = m.va \cup run
      /\ n.multi = m.multi /\ n.lost = m.lost /\ n.alive = m.alive /\ n.wiped = m.wiped
      /\ DOMAIN n.meta = DOMAIN m.meta \cup {a} /\ n.meta[a] = size
      /\ \A k \in DOMAIN m.meta \ {a} : n.meta[k] = m.meta[k]
      /\ DOMAIN n.hdr = K \cup {a}
      /\ n.hdr[a] = [class |-> BIG, magic |-> "MAGIC"]
      /\ \A k \in K \ {a} : n.hdr[k] = m.hdr[k]
      /\ DOMAIN n.tag = {p \in DOMAIN m.tag : ~Overlap(p - TAG_SIZE, p, a, a + HEADER_SIZE)}
      /\ \A p \in DOMAIN n.tag : n.tag[p] = m.tag[p]
  <2>1. IsBigBlock(m, n, a, size)
    BY <1>1, BigBlockIs, Zenon
  <2> HIDE DEF n
  <2> QED BY <2>1, Zenon DEF IsBigBlock
<1> HIDE DEF n, run, len
<1>6. \A k \in K : /\ k \in Nat /\ End(m, k) \in Nat /\ k + 16 <= End(m, k)
                   /\ a + 16 <= k \/ End(m, k) <= a
  <2> SUFFICES ASSUME NEW k \in K
               PROVE  /\ k \in Nat /\ End(m, k) \in Nat /\ k + 16 <= End(m, k)
                      /\ a + 16 <= k \/ End(m, k) <= a
    BY Zenon
  <2>1. k \in Nat /\ End(m, k) \in Nat /\ k + 16 <= End(m, k)
    BY <1>1, BlockIs, Zenon
  <2>2. a + len <= k \/ End(m, k) <= a
    BY <1>3, Zenon
  <2> QED BY <1>2, <1>3, <2>1, <2>2
<1>7. a \notin K
  <2> SUFFICES ASSUME a \in K
               PROVE  FALSE
    BY Zenon
  <2>1. /\ End(m, a) \in Nat /\ a + 16 <= End(m, a)
        /\ a + 16 <= a \/ End(m, a) <= a
    BY <1>6, Zenon
  <2> QED BY <1>3, <2>1
<1>8. n.hdr[a].class = BIG /\ n.hdr[a].magic = "MAGIC" /\ n.hdr[a] \in Headers
  BY <1>5 DEF Headers
<1>9. Capacity(n, a) = size /\ End(n, a) = a + 16 + size
  BY <1>5, <1>8, Zenon DEF Capacity, End, HEADER_SIZE
<1>10. Foot(n, a) = run
  <2>1. Foot(n, a) = Span(a, a + 16 + size)
    BY <1>9, Zenon DEF Foot
  <2> QED BY <1>2, <1>3, <2>1
<1>11. Alone(n, a) /\ run \cap (n.multi \cup n.lost) = {}
  <2>1. run \cap (m.multi \cup m.lost) = {}
    BY <1>1, <1>3, Zenon DEF Accounted
  <2>2. a \div PAGE \in run
    <3>1. a < a + len /\ a + len \in Nat
      BY <1>2, <1>3
    <3>2. a \div PAGE \in Span(a, a + len)
      BY <1>3, <3>1, FirstPage, Zenon
    <3> QED BY <1>3, <3>2, Zenon
  <2> QED BY <1>5, <2>1, <2>2, Zenon DEF Alone
<1>12. BlockOK(n, a)
  BY <1>3, <1>4, <1>5, <1>8, <1>10, <1>11, Zenon DEF BlockOK
<1>13. ASSUME NEW q \in DOMAIN n.tag
       PROVE  q <= a \/ a + 32 <= q
  <2>1. q \in DOMAIN m.tag /\ ~Overlap(q - TAG_SIZE, q, a, a + HEADER_SIZE)
    BY <1>5, Zenon
  <2>2. q \in Nat
    BY <1>1, <2>1, Zenon DEF TagsClear
  <2> QED BY <1>3, <2>1, <2>2 DEF Overlap, TAG_SIZE, OFFSET_SIZE, HEADER_SIZE
<1>14. Rebuilds(m, n, K, {a}, {}, run)
  <2>1. /\ IsMem(n) /\ n.alive /\ DOMAIN n.hdr = K \cup {a} /\ K \cap {a} = {}
        /\ n.va = (m.va \ {}) \cup run /\ DOMAIN n.tag \subseteq DOMAIN m.tag
    BY <1>1, <1>5, <1>7, Zenon
  <2>2. \A k \in K : /\ n.hdr[k] = m.hdr[k]
                     /\ m.hdr[k].class = BIG => k \in DOMAIN n.meta /\ n.meta[k] = m.meta[k]
    BY <1>1, <1>5, <1>7, Zenon DEF BlockOK
  <2>3. \A k \in DOMAIN n.meta : k \in DOMAIN n.hdr /\ n.hdr[k].class = BIG
    BY <1>1, <1>5, <1>8, <2>2, ZenonT(30) DEF Accounted
  <2>4. ~(a < a)
    BY <1>3
  <2> HIDE DEF K
  <2> QED BY <1>3, <1>5, <1>10, <1>12, <1>13, <2>1, <2>2, <2>3, <2>4, ZenonT(30) DEF Rebuilds, K
<1>15. MemOK(n) /\ \A k \in K : Capacity(n, k) = Capacity(m, k)
  BY <1>14, Rebuilt, ZenonT(30)
<1>16. Keeps(m, n, InUse(m))
  <2>1. ASSUME NEW h \in InUse(m), NEW q \in DOMAIN m.tag, h + 32 <= q, q <= End(m, h)
        PROVE  q \in DOMAIN n.tag
    <3>1. /\ h \in Nat /\ End(m, h) \in Nat /\ h + 16 <= End(m, h)
          /\ a + 16 <= h \/ End(m, h) <= a
      BY <1>6, Zenon DEF InUse
    <3>2. q \in Nat
      BY <1>1, Zenon DEF TagsClear
    <3>3. ~Overlap(q - TAG_SIZE, q, a, a + HEADER_SIZE)
      BY <1>3, <2>1, <3>1, <3>2 DEF Overlap, TAG_SIZE, OFFSET_SIZE, HEADER_SIZE
    <3> QED BY <1>5, <3>3, Zenon
  <2>2. \A h \in InUse(m) : /\ h \in DOMAIN n.hdr /\ n.hdr[h] = m.hdr[h]
                            /\ Capacity(n, h) = Capacity(m, h)
    BY <1>5, <1>7, <1>15, Zenon DEF InUse
  <2> QED BY <1>5, <2>1, <2>2, Zenon DEF Keeps
<1>17. a \in InUse(n) /\ a \notin InUse(m)
  BY <1>5, <1>7, <1>8, Zenon DEF InUse
<1>18. size <= size
  OBVIOUS
<1> QED BY <1>3, <1>9, <1>15, <1>16, <1>17, <1>18, Zenon DEF Gives, n

(* What malloc returns is null, or a block that was not in use and is      *)
(* large enough.                                                           *)
LEMMA MallocGives ==
    ASSUME NEW m, MemOK(m), NEW size \in Nat, NEW r \in malloc(m, size)
    PROVE  \/ r = Result(m, NULL)
           \/ \E h \in Nat : r = Result(r.mem, h + HEADER_SIZE) /\ Gives(m, r.mem, h, size)
<1>1. CASE r = Result(m, NULL)
  BY <1>1, Zenon
<1>2. CASE r # Result(m, NULL)
  <2> SUFFICES ASSUME NEW n, NEW h, r = Result(n, h + HEADER_SIZE), Gives(m, n, h, size)
               PROVE  \E k \in Nat : r = Result(r.mem, k + HEADER_SIZE) /\ Gives(m, r.mem, k, size)
    <3>1. \E n, h : r = Result(n, h + HEADER_SIZE) /\ Gives(m, n, h, size)
      <4> DEFINE c == match_size_class(size)
      <4>1. (r \in big_malloc(m, size) /\ c = BIG) \/ (r \in allocate(m, c) /\ c # BIG)
        <5>1. ~(size > LIMIT) => size <= LIMIT
          BY AbiAssumption
        <5> QED BY <1>2, <5>1, Zenon DEF malloc
      <4>2. CASE r \in big_malloc(m, size) /\ c = BIG
        <5>1. PICK a \in FreeRuns(m, align_to(size + HEADER_SIZE, PAGE)) :
                 r = Result(BigBlock(m, a, size), a + HEADER_SIZE)
          BY <1>2, <4>2, Zenon DEF big_malloc, BigBlock
        <5>2. Gives(m, BigBlock(m, a, size), a, size)
          BY <4>2, BigGives, Zenon
        <5> QED BY <5>1, <5>2, Zenon
      <4>3. CASE r \in allocate(m, c) /\ c # BIG
        <5>1. c \in Classes /\ size <= SIZE_CLASSES[c]
          BY <4>3, ClassOf, Zenon
        <5> HIDE DEF c
        <5>2. CASE r \in CacheHit(m, c)
          <6>1. PICK h \in Cached(m, c) : r = Result(SetMagic(m, h, "MAGIC"), h + HEADER_SIZE)
            BY <5>2, Zenon DEF CacheHit
          <6>2. Gives(m, SetMagic(m, h, "MAGIC"), h, size)
            BY <5>1, CachedGives, Zenon
          <6> QED BY <6>1, <6>2, Zenon
        <5>3. CASE r \in bulk_fill(m, c)
          <6>1. PICK a \in FreeRuns(m, RegionSize(c)) :
                   r = Result(SetMagic(Region(m, a, c), BlockAt(a, c, 0), "MAGIC"),
                              BlockAt(a, c, 0) + HEADER_SIZE)
            BY <1>2, <5>3, Zenon DEF bulk_fill, Region, Carved
          <6>2. Gives(m, SetMagic(Region(m, a, c), BlockAt(a, c, 0), "MAGIC"), BlockAt(a, c, 0), size)
            BY <5>1, RegionGives, Zenon
          <6> QED BY <6>1, <6>2, Zenon
        <5> QED BY <4>3, <5>2, <5>3, Zenon DEF allocate
      <4> QED BY <4>1, <4>2, <4>3, Zenon
    <3> QED BY <3>1, Zenon
  <2>1. r.mem = n
    BY DEF Result
  <2>2. h \in Nat
    BY Zenon DEF Gives
  <2> QED BY <2>1, <2>2, Zenon
<1> QED BY <1>1, <1>2, Zenon


-----------------------------------------------------------------------------
(* free. *)

(* A block goes back to a cache. *)
LEMMA CacheFree ==
    ASSUME NEW m, MemOK(m), NEW h \in InUse(m), m.hdr[h].class # BIG
    PROVE  LET n == SetMagic(m, h, "FREED")
           IN  MemOK(n) /\ Keeps(m, n, InUse(m) \ {h})
<1> DEFINE n == SetMagic(m, h, "FREED")
<1>1. \A k \in DOMAIN m.hdr : BlockOK(m, k) /\ m.hdr[k] \in Headers
  BY Zenon DEF MemOK, BlockOK
<1>2. h \in DOMAIN m.hdr /\ IsMem(m) /\ TagsClear(m)
  BY Zenon DEF MemOK, InUse
<1>3. /\ IsMem(n) /\ n.va = m.va /\ n.meta = m.meta /\ n.multi = m.multi
      /\ n.lost = m.lost /\ n.alive = m.alive /\ n.wiped = m.wiped /\ n.tag = m.tag
      /\ DOMAIN n.hdr = DOMAIN m.hdr
      /\ n.hdr[h] \in Headers /\ n.hdr[h].class = m.hdr[h].class
      /\ \A k \in DOMAIN m.hdr \ {h} : n.hdr[k] = m.hdr[k]
  BY <1>1, <1>2, SetMagicIs
<1> HIDE DEF n
<1>4. TagsClear(n)
  BY <1>2, <1>3, Zenon DEF TagsClear
<1>5. \A k \in DOMAIN m.hdr : /\ n.hdr[k] \in Headers /\ n.hdr[k].class = m.hdr[k].class
                              /\ n.hdr[k].class = BIG => n.hdr[k].magic = "MAGIC"
  BY <1>1, <1>3, Zenon DEF BlockOK
<1>6. MemOK(n) /\ \A k \in DOMAIN m.hdr : Capacity(n, k) = Capacity(m, k)
  BY <1>3, <1>4, <1>5, SameBlocks, Zenon
<1>7. Keeps(m, n, InUse(m) \ {h})
  BY <1>3, <1>6, Zenon DEF Keeps, InUse
<1> QED BY <1>6, <1>7, Zenon DEF n

(* The bytes of the pages of a block with pages of its own lie beside all  *)
(* other blocks.                                                           *)
LEMMA OwnPages ==
    ASSUME NEW m, MemOK(m), NEW h \in DOMAIN m.hdr, Alone(m, h),
           NEW from \in Nat, NEW to \in Nat, from < to, Span(from, to) \subseteq Foot(m, h)
    PROVE  \A k \in DOMAIN m.hdr \ {h} : to <= k \/ End(m, k) <= from
<1> SUFFICES ASSUME NEW k \in DOMAIN m.hdr \ {h}
             PROVE  to <= k \/ End(m, k) <= from
  BY Zenon
<1>1. BlockOK(m, k) /\ Foot(m, h) \cap Foot(m, k) = {}
  BY Zenon DEF MemOK, Apart
<1>2. PICK e \in Nat : e = End(m, k) /\ k \in Nat /\ k + 16 <= e
  BY <1>1, BlockIs, Zenon
<1>3. Span(from, to) \cap Span(k, e) = {}
  BY <1>1, <1>2, Zenon DEF Foot
<1>4. k < e
  BY <1>2
<1>5. to <= k \/ e <= from
  BY <1>2, <1>3, <1>4, Beside
<1> QED BY <1>2, <1>5, Zenon

(* A big block and its pages are given back. *)
LEMMA BigFree ==
    ASSUME NEW m, MemOK(m), NEW h \in InUse(m), m.hdr[h].class = BIG
    PROVE  MemOK(big_free(m, h)) /\ Keeps(m, big_free(m, h), InUse(m) \ {h})
<1> DEFINE size == m.meta[h]
           len == align_to(m.meta[h] + HEADER_SIZE, PAGE)
           to == h + len
           G == Keep(m.meta, DOMAIN m.meta \ {h})
           g == [m EXCEPT !.meta = G]
           d == Discard(g, h, to)
           n == Give(d, h, len)
           K == DOMAIN m.hdr \ {h}
<1>1. /\ IsMem(m) /\ m.alive /\ Accounted(m) /\ TagsClear(m)
      /\ \A k \in DOMAIN m.hdr : BlockOK(m, k)
      /\ h \in DOMAIN m.hdr
  BY Zenon DEF MemOK, InUse
<1>2. h \in Nat /\ h % PAGE = 0 /\ Alone(m, h) /\ h \in DOMAIN m.meta /\ size \in Nat
  BY <1>1, Zenon DEF BlockOK
<1>3. /\ len \in Nat \ {0}
      /\ \A b \in Nat : b % PAGE = 0 => Span(b, b + len) = Span(b, b + 16 + size)
  BY <1>2, PageRound, Zenon
<1>4. n = big_free(m, h)
  BY Zenon DEF big_free
<1>5. /\ IsMem(g) /\ g.va = m.va /\ g.hdr = m.hdr /\ g.tag = m.tag /\ g.multi = m.multi
      /\ g.lost = m.lost /\ g.wiped = m.wiped /\ g.alive = m.alive
      /\ g.meta = G
  <2>1. IsMem(m)
    BY <1>1, Zenon
  <2>2. g = [m EXCEPT !.meta = G]
    BY Zenon
  <2> HIDE DEF g, G
  <2> QED BY <2>1, <2>2, Zenon DEF IsMem
<1> HIDE DEF g
<1>6. /\ IsMem(d) /\ d.va = g.va /\ d.meta = g.meta /\ d.multi = g.multi
      /\ d.lost = g.lost /\ d.alive = g.alive /\ d.wiped = g.wiped \cup {<<h, to>>}
      /\ DOMAIN d.hdr = {k \in DOMAIN g.hdr : ~Overlap(k, k + HEADER_SIZE, h, to)}
      /\ \A k \in DOMAIN d.hdr : d.hdr[k] = g.hdr[k]
      /\ DOMAIN d.tag = {p \in DOMAIN g.tag : ~Overlap(p - TAG_SIZE, p, h, to)}
      /\ \A p \in DOMAIN d.tag : d.tag[p] = g.tag[p]
  BY <1>5, DiscardIs
<1> HIDE DEF d
<1>7. /\ IsMem(n) /\ n.va = d.va \ RunAt(h, len)
      /\ n.hdr = d.hdr /\ n.meta = d.meta /\ n.tag = d.tag /\ n.multi = d.multi
      /\ n.lost = d.lost /\ n.wiped = d.wiped /\ n.alive = d.alive
  BY <1>6, GiveIs
<1> HIDE DEF n, len, to
<1>8. Foot(m, h) = Span(h, to) /\ RunAt(h, len) = Foot(m, h) /\ to \in Nat /\ h < to
  <2>1. End(m, h) = h + 16 + size
    BY Zenon DEF End, Capacity, HEADER_SIZE
  <2> HIDE DEF size
  <2>2. Foot(m, h) = Span(h, h + 16 + size)
    BY <2>1, Zenon DEF Foot
  <2>3. Span(h, to) = Span(h, h + 16 + size)
    BY <1>2, <1>3, Zenon DEF to
  <2>4. RunAt(h, len) = Span(h, to)
    BY <1>2, <1>3, RunIsSpan, Zenon DEF to
  <2>5. to \in Nat /\ h < to
    BY <1>2, <1>3 DEF to
  <2> QED BY <2>2, <2>3, <2>4, <2>5, Zenon
<1>9. \A k \in K : to <= k \/ End(m, k) <= h
  BY <1>1, <1>2, <1>8, OwnPages
<1>10. \A k \in K : /\ ~Overlap(k, k + HEADER_SIZE, h, to)
                    /\ \A q \in Nat : k + 32 <= q /\ q <= End(m, k) => ~Overlap(q - TAG_SIZE, q, h, to)
  BY <1>1, <1>2, <1>8, <1>9, BesideBlock
<1>11. Overlap(h, h + HEADER_SIZE, h, to)
  BY <1>2, <1>8 DEF Overlap, HEADER_SIZE
<1>12. DOMAIN n.hdr = K /\ \A k \in K : n.hdr[k] = m.hdr[k]
  <2>1. {k \in DOMAIN m.hdr : ~Overlap(k, k + HEADER_SIZE, h, to)} = K
    BY <1>10, <1>11, Zenon
  <2> QED BY <1>5, <1>6, <1>7, <2>1, Zenon
<1>13. DOMAIN n.meta = DOMAIN m.meta \ {h} /\ \A k \in DOMAIN n.meta : n.meta[k] = m.meta[k]
  <2>1. DOMAIN G = DOMAIN m.meta \ {h} /\ \A k \in DOMAIN m.meta \ {h} : G[k] = m.meta[k]
    BY Zenon DEF Keep
  <2>2. n.meta = G
    BY <1>5, <1>6, <1>7, Zenon
  <2> HIDE DEF G
  <2> QED BY <2>1, <2>2, Zenon
<1>14. /\ n.va = m.va \ Foot(m, h) /\ n.multi = m.multi /\ n.lost = m.lost /\ n.alive
       /\ n.wiped = m.wiped \cup {<<h, to>>}
  BY <1>1, <1>5, <1>6, <1>7, <1>8, Zenon
<1>15. /\ DOMAIN n.tag = {p \in DOMAIN m.tag : ~Overlap(p - TAG_SIZE, p, h, to)}
       /\ \A p \in DOMAIN n.tag : n.tag[p] = m.tag[p]
  BY <1>5, <1>6, <1>7, Zenon
<1>16. Rebuilds(m, n, K, {}, Foot(m, h), {})
  <2>1. \A k \in K : /\ m.hdr[k].class = BIG => k \in DOMAIN n.meta /\ n.meta[k] = m.meta[k]
                     /\ Foot(m, k) \cap Foot(m, h) = {}
    BY <1>1, <1>2, <1>13, Zenon DEF BlockOK, MemOK, Apart
  <2>2. \A k \in DOMAIN n.meta : k \in DOMAIN n.hdr /\ n.hdr[k].class = BIG
    BY <1>1, <1>12, <1>13, Zenon DEF Accounted
  <2>3. Foot(m, h) \cap (m.multi \cup m.lost) = {}
    BY <1>1, <1>2, Zenon DEF BlockOK
  <2>4. n.va = (m.va \ Foot(m, h)) \cup {}
    BY <1>14, Zenon
  <2> QED BY <1>7, <1>12, <1>14, <1>15, <2>1, <2>2, <2>3, <2>4, Zenon DEF Rebuilds
<1>17. MemOK(n) /\ \A k \in K : Capacity(n, k) = Capacity(m, k)
  <2> HIDE DEF K
  <2> QED BY <1>16, Rebuilt, Zenon
<1>18. Keeps(m, n, InUse(m) \ {h})
  <2>1. \A k \in InUse(m) \ {h}, q \in DOMAIN m.tag :
           k + 32 <= q /\ q <= End(m, k) => q \in DOMAIN n.tag /\ n.tag[q] = m.tag[q]
    <3>1. \A q \in DOMAIN m.tag : q \in Nat
      BY <1>1, Zenon DEF TagsClear
    <3> QED BY <1>10, <1>15, <3>1, Zenon DEF InUse
  <2>2. \A k \in InUse(m) \ {h}, w \in n.wiped \ m.wiped : Misses(w, k, End(m, k))
    <3>1. \A w \in n.wiped \ m.wiped : w = <<h, to>>
      BY <1>14, Zenon
    <3>2. <<h, to>>[1] = h /\ <<h, to>>[2] = to
      OBVIOUS
    <3>3. h \in Nat /\ to \in Nat
      BY <1>2, <1>8, Zenon
    <3> QED BY <1>9, <3>1, <3>2, <3>3, Zenon DEF InUse, Misses
  <2>3. \A k \in InUse(m) \ {h} : /\ k \in DOMAIN n.hdr /\ n.hdr[k] = m.hdr[k]
                                  /\ Capacity(n, k) = Capacity(m, k)
    BY <1>12, <1>17, Zenon DEF InUse
  <2> QED BY <2>1, <2>2, <2>3, Zenon DEF Keeps
<1> QED BY <1>4, <1>17, <1>18, Zenon

(* free touches the block of the pointer only. *)
LEMMA FreeKeeps ==
    ASSUME NEW m, MemOK(m), NEW p, HeaderOf(m, p) \in InUse(m)
    PROVE  MemOK(free(m, p)) /\ Keeps(m, free(m, p), InUse(m) \ {HeaderOf(m, p)})
<1> DEFINE h == HeaderOf(m, p)
<1>1. h \in DOMAIN m.hdr /\ m.hdr[h].magic = "MAGIC" /\ BlockOK(m, h)
  BY Zenon DEF InUse, MemOK
<1>2. Valid(m, h)
  BY <1>1, Zenon DEF Valid, BlockOK
<1>3. CASE m.hdr[h].class = BIG
  <2>1. free(m, p) = big_free(m, h)
    BY <1>2, <1>3, Zenon DEF free
  <2> HIDE DEF h
  <2>2. MemOK(big_free(m, h)) /\ Keeps(m, big_free(m, h), InUse(m) \ {h})
    BY <1>3, BigFree, Zenon DEF h
  <2> QED BY <2>1, <2>2, Zenon DEF h
<1>4. CASE m.hdr[h].class # BIG
  <2>1. free(m, p) = SetMagic(m, h, "FREED")
    BY <1>2, <1>4, Zenon DEF free
  <2> HIDE DEF h
  <2>2. MemOK(SetMagic(m, h, "FREED")) /\ Keeps(m, SetMagic(m, h, "FREED"), InUse(m) \ {h})
    BY <1>4, CacheFree, Zenon DEF h
  <2> QED BY <2>1, <2>2, Zenon DEF h
<1> QED BY <1>3, <1>4, Zenon


-----------------------------------------------------------------------------
(* realloc in place. *)

(* From m to n the block at h, on pages of its own, changes its class or   *)
(* its size and its last pages, and all else stays.                        *)
Resizes(m, n, h) ==
    /\ IsMem(n) /\ n.alive = m.alive /\ n.multi = m.multi /\ n.lost = m.lost
    /\ DOMAIN n.hdr = DOMAIN m.hdr /\ \A k \in DOMAIN m.hdr \ {h} : n.hdr[k] = m.hdr[k]
    /\ n.hdr[h] \in Headers /\ n.hdr[h].magic = "MAGIC"
    /\ n.hdr[h].class = BIG =>
          /\ h % PAGE = 0 /\ h \in DOMAIN n.meta /\ n.meta[h] \in Nat
          /\ n.meta[h] = 0 \/ n.meta[h] > MAX_CLASS_SIZE
    /\ n.hdr[h].class # BIG => h % PAGE \in {0, META_SIZE} /\ h \notin DOMAIN n.meta
    /\ DOMAIN n.meta \ {h} = DOMAIN m.meta \ {h}
    /\ \A k \in DOMAIN m.meta \ {h} : n.meta[k] = m.meta[k]
    /\ n.va = (m.va \ Foot(m, h)) \cup Foot(n, h)
    /\ Foot(n, h) \subseteq Pages /\ Foot(n, h) \cap (m.va \ Foot(m, h)) = {}
    /\ DOMAIN n.tag \subseteq DOMAIN m.tag
    /\ \A k \in DOMAIN m.hdr \ {h}, q \in DOMAIN m.tag :
          k + 32 <= q /\ q <= End(m, k) => q \in DOMAIN n.tag /\ n.tag[q] = m.tag[q]
    /\ \A k \in DOMAIN m.hdr \ {h}, w \in n.wiped \ m.wiped : Misses(w, k, End(m, k))

(* Such a change keeps the memory in order and all other blocks in use. *)
LEMMA Resized ==
    ASSUME NEW m, MemOK(m), NEW h \in InUse(m), Alone(m, h), NEW n, Resizes(m, n, h)
    PROVE  MemOK(n) /\ Keeps(m, n, InUse(m) \ {h}) /\ h \in InUse(n)
<1> DEFINE K == DOMAIN m.hdr \ {h}
<1>1. /\ IsMem(m) /\ m.alive /\ Accounted(m) /\ TagsClear(m)
      /\ \A k \in DOMAIN m.hdr : BlockOK(m, k)
      /\ h \in DOMAIN m.hdr
  BY Zenon DEF MemOK, InUse
<1>2. Foot(m, h) \cap (m.multi \cup m.lost) = {}
  BY <1>1, Zenon DEF BlockOK
<1>3. Foot(n, h) \cap (n.multi \cup n.lost) = {} /\ Alone(n, h)
  BY <1>1, <1>2, Zenon DEF Resizes, Accounted, Alone
<1>4. BlockOK(n, h)
  <2>1. h \in Nat /\ h % 16 = 0
    BY <1>1, Zenon DEF BlockOK
  <2> QED BY <1>3, <2>1, Zenon DEF Resizes, BlockOK
<1>5. Rebuilds(m, n, K, {h}, Foot(m, h), Foot(n, h))
  <2>1. \A k \in K : /\ n.hdr[k] = m.hdr[k]
                     /\ m.hdr[k].class = BIG => k \in DOMAIN n.meta /\ n.meta[k] = m.meta[k]
                     /\ Foot(m, k) \cap Foot(m, h) = {}
    BY <1>1, Zenon DEF BlockOK, MemOK, Apart, Resizes
  <2>2. \A k \in DOMAIN n.meta : k \in DOMAIN n.hdr /\ n.hdr[k].class = BIG
    <3> SUFFICES ASSUME NEW k \in DOMAIN n.meta
                 PROVE  k \in DOMAIN n.hdr /\ n.hdr[k].class = BIG
      BY Zenon
    <3>1. CASE k = h
      BY <1>1, <3>1, Zenon DEF Resizes
    <3>2. CASE k # h
      <4>1. k \in DOMAIN m.meta
        BY <3>2, Zenon DEF Resizes
      <4>2. k \in DOMAIN m.hdr /\ m.hdr[k].class = BIG
        BY <1>1, <4>1, Zenon DEF Accounted
      <4> QED BY <3>2, <4>2, Zenon DEF Resizes
    <3> QED BY <3>1, <3>2, Zenon
  <2>3. /\ IsMem(n) /\ n.alive /\ DOMAIN n.hdr = K \cup {h}
        /\ {h} \cap K = {} /\ K \subseteq DOMAIN m.hdr
    BY <1>1, Zenon DEF Resizes
  <2>4. \A q \in DOMAIN n.tag : q <= h \/ h + 32 <= q
    BY <1>1, Zenon DEF Resizes, TagsClear
  <2>5. ~(h < h)
    BY <1>4 DEF BlockOK
  <2>6. \A k \in DOMAIN m.hdr \ K : Foot(m, k) \subseteq Foot(m, h)
    BY Zenon
  <2>7. /\ n.va = (m.va \ Foot(m, h)) \cup Foot(n, h) /\ n.multi = m.multi /\ n.lost = m.lost
        /\ Foot(n, h) \subseteq Pages /\ Foot(n, h) \cap (m.va \ Foot(m, h)) = {}
        /\ DOMAIN n.tag \subseteq DOMAIN m.tag
    BY Zenon DEF Resizes
  <2> HIDE DEF K
  <2> QED BY <1>2, <1>4, <2>1, <2>2, <2>3, <2>4, <2>5, <2>6, <2>7, Zenon DEF Rebuilds
<1>6. MemOK(n) /\ \A k \in K : Capacity(n, k) = Capacity(m, k)
  <2> HIDE DEF K
  <2> QED BY <1>5, Rebuilt, Zenon
<1>7. Keeps(m, n, InUse(m) \ {h})
  BY <1>6, Zenon DEF Keeps, InUse, Resizes
<1>8. h \in InUse(n)
  BY <1>1, Zenon DEF InUse, Resizes
<1> QED BY <1>6, <1>7, <1>8, Zenon

(* The code measures the pages of a block from its first page: that counts *)
(* them right for big blocks, and for blocks of a class behind the         *)
(* metadata of their region.                                               *)
Measured(h, size) ==
    \/ h % PAGE = 0
    \/ h % PAGE = META_SIZE /\ size % PAGE <= PAGE - HEADER_SIZE - META_SIZE

(* The last page of a block that is measured right. *)
LEMMA LastPage ==
    ASSUME NEW h \in Nat, NEW size \in Nat, Measured(h, size)
    PROVE  /\ (h + 16 + size - 1) \div PAGE
                = h \div PAGE + align_to(size + HEADER_SIZE, PAGE) \div PAGE - 1
           /\ align_to(size + HEADER_SIZE, PAGE) \div PAGE \in Nat
<1>1. align_to(size + HEADER_SIZE, PAGE) = ((size + 16 + 4096 - 1) \div 4096) * 4096
  BY DEF align_to, HEADER_SIZE, PAGE
<1>2. PICK i \in Nat : i = (size + 16 + 4096 - 1) \div 4096
  OBVIOUS
<1>3. (i * 4096) \div 4096 = i
  OBVIOUS
<1>4. align_to(size + HEADER_SIZE, PAGE) \div PAGE = i
  BY <1>1, <1>2, <1>3 DEF PAGE
<1>5. (h + 16 + size - 1) \div 4096 = h \div 4096 + i - 1
  <2>1. CASE h % 4096 = 0
    BY <1>2, <2>1
  <2>2. CASE h % 4096 = 32 /\ size % 4096 <= 4048
    <3> DEFINE a == h \div 4096
               b == size \div 4096
               c == size % 4096
    <3>1. /\ h = a * 4096 + 32 /\ size = b * 4096 + c /\ c <= 4048
          /\ a \in Nat /\ b \in Nat /\ c \in Nat
      BY <2>2
    <3> HIDE DEF a, b, c
    <3>2. i = b + 1
      <4>1. size + 16 + 4096 - 1 = (b + 1) * 4096 + (c + 15)
        BY <3>1
      <4> QED BY <1>2, <3>1, <4>1
    <3>3. (h + 16 + size - 1) \div 4096 = a + b
      <4>1. h + 16 + size - 1 = (a + b) * 4096 + (c + 47)
        BY <3>1
      <4> QED BY <3>1, <4>1
    <3>4. h \div 4096 + i - 1 = a + b
      BY <3>1, <3>2 DEF a
    <3> QED BY <3>3, <3>4
  <2> QED BY <2>1, <2>2 DEF Measured, PAGE, META_SIZE, HEADER_SIZE
<1> QED BY <1>2, <1>4, <1>5 DEF PAGE


(* No class is larger than the largest. *)
LEMMA LargestClass ==
    ASSUME NEW d \in Classes
    PROVE  SIZE_CLASSES[d] <= MAX_CLASS_SIZE
<1>1. SIZE_CLASSES[d] \in Nat /\ d \in 1 .. 34
  BY ClassFacts, Zenon
<1>2. CASE d = NUM_SIZE_CLASSES
  BY <1>1, <1>2 DEF MAX_CLASS_SIZE
<1>3. CASE d # NUM_SIZE_CLASSES
  <2>1. NUM_SIZE_CLASSES \in 1 .. 34 /\ d < NUM_SIZE_CLASSES
    BY <1>3, SizeClassAssumption DEF Classes
  <2>2. SIZE_CLASSES[d] < SIZE_CLASSES[NUM_SIZE_CLASSES]
    BY <1>1, <2>1, SizeClassAssumption, Zenon
  <2>3. MAX_CLASS_SIZE \in Nat
    BY ClassFacts, Zenon
  <2> QED BY <1>1, <2>2, <2>3, SMTT(30) DEF MAX_CLASS_SIZE
<1> QED BY <1>2, <1>3, Zenon

(* The size of the block that realloc wants. *)
LEMMA Wanted ==
    ASSUME NEW new \in Nat, new # 0
    PROVE  LET d == match_size_class(new)
               size == NewSize(new)
           IN  /\ size \in Nat /\ new <= size /\ d \in Classes \cup {BIG}
               /\ d = BIG => size = new /\ size > MAX_CLASS_SIZE
               /\ d # BIG => /\ d \in Classes /\ size = SIZE_CLASSES[d] /\ size <= MAX_CLASS_SIZE
                             /\ size % PAGE <= PAGE - HEADER_SIZE - META_SIZE
<1>1. CASE match_size_class(new) = BIG
  <2>1. NewSize(new) = new
    BY <1>1, Zenon DEF NewSize
  <2>2. new > MAX_CLASS_SIZE
    BY <1>1, ClassOf, Zenon
  <2>3. new <= new
    OBVIOUS
  <2> QED BY <1>1, <2>1, <2>2, <2>3, Zenon
<1>2. CASE match_size_class(new) # BIG
  <2>1. PICK d \in Classes : d = match_size_class(new) /\ new <= SIZE_CLASSES[d] /\ d # BIG
    BY <1>2, ClassOf, Zenon
  <2>2. NewSize(new) = SIZE_CLASSES[d]
    BY <1>2, <2>1, Zenon DEF NewSize
  <2>3. SIZE_CLASSES[d] \in Nat /\ d \in 1 .. 34
    BY ClassFacts, Zenon
  <2>4. SIZE_CLASSES[d] % PAGE <= PAGE - HEADER_SIZE - META_SIZE
    BY <2>3, SizeClassAssumption, Zenon
  <2>5. SIZE_CLASSES[d] <= MAX_CLASS_SIZE
    BY LargestClass, Zenon
  <2> QED BY <2>1, <2>2, <2>3, <2>4, <2>5, Zenon
<1> QED BY <1>1, <1>2, Zenon

(* The size of the block that is there. *)
LEMMA Present ==
    ASSUME NEW m, MemOK(m), NEW h \in InUse(m)
    PROVE  LET c == m.hdr[h].class
               size == Capacity(m, h)
           IN  /\ size \in Nat /\ h \in Nat
               /\ c = BIG => h % PAGE = 0 /\ Alone(m, h) /\ (size = 0 \/ size > MAX_CLASS_SIZE)
               /\ c # BIG => /\ c \in Classes /\ size = SIZE_CLASSES[c]
                             /\ size % PAGE <= PAGE - HEADER_SIZE - META_SIZE
                             /\ Alone(m, h) => h % PAGE \in {0, META_SIZE}
                             /\ ITERATIONS[c] = 1 => Alone(m, h)
<1>1. BlockOK(m, h)
  BY Zenon DEF MemOK, InUse
<1>2. Capacity(m, h) \in Nat /\ h \in Nat
  BY <1>1, BlockIs, Zenon
<1>3. CASE m.hdr[h].class = BIG
  <2>1. Capacity(m, h) = m.meta[h]
    BY <1>3, Zenon DEF Capacity
  <2> QED BY <1>1, <1>2, <1>3, <2>1, Zenon DEF BlockOK
<1>4. CASE m.hdr[h].class # BIG
  <2>1. m.hdr[h].class \in Classes
    BY <1>1, <1>4 DEF BlockOK, Headers
  <2>2. m.hdr[h].class \in 1 .. 34
    BY <2>1, ClassFacts, Zenon
  <2>3. Capacity(m, h) = SIZE_CLASSES[m.hdr[h].class]
    BY <1>4, Zenon DEF Capacity
  <2>4. SIZE_CLASSES[m.hdr[h].class] % PAGE <= PAGE - HEADER_SIZE - META_SIZE
    BY <2>2, SizeClassAssumption, Zenon
  <2> QED BY <1>1, <1>2, <1>4, <2>1, <2>3, <2>4, Zenon DEF BlockOK
<1> QED BY <1>3, <1>4, Zenon

(* How the rounded sizes compare. *)
LEMMA Rounding ==
    ASSUME NEW s \in Nat, NEW t \in Nat
    PROVE  /\ align_to(s + HEADER_SIZE, PAGE) \in Nat /\ align_to(s + HEADER_SIZE, 16) \in Nat
           /\ align_to(s + HEADER_SIZE, PAGE) % PAGE = 0
           /\ align_to(s + HEADER_SIZE, PAGE) < align_to(t + HEADER_SIZE, PAGE) => s < t
           /\ s % 16 = 0 => align_to(s + HEADER_SIZE, 16) = s + 16
           /\ s + 16 <= align_to(s + HEADER_SIZE, PAGE)
<1>1. \A u \in Nat : align_to(u + HEADER_SIZE, PAGE) = ((u + 16 + 4096 - 1) \div 4096) * 4096
  BY DEF align_to, HEADER_SIZE, PAGE
<1>2. align_to(s + HEADER_SIZE, 16) = ((s + 16 + 16 - 1) \div 16) * 16
  BY DEF align_to, HEADER_SIZE
<1>3. align_to(s + HEADER_SIZE, PAGE) \in Nat /\ s + 16 <= align_to(s + HEADER_SIZE, PAGE)
  BY <1>1
<1>4. align_to(s + HEADER_SIZE, PAGE) % PAGE = 0
  BY <1>1 DEF PAGE
<1>5. align_to(s + HEADER_SIZE, PAGE) < align_to(t + HEADER_SIZE, PAGE) => s < t
  BY <1>1
<1>6. /\ align_to(s + HEADER_SIZE, 16) \in Nat
      /\ s % 16 = 0 => align_to(s + HEADER_SIZE, 16) = s + 16
  BY <1>2
<1> QED BY <1>3, <1>4, <1>5, <1>6, Zenon

(* A resizing from big to big, or from class to class. *)
SameKind(m, h, new) == m.hdr[h].class = BIG <=> match_size_class(new) = BIG

(* What the difference tells of the two sizes, when the block is not to    *)
(* stay empty.                                                             *)
LEMMA Kinds ==
    ASSUME NEW m, MemOK(m), NEW h \in InUse(m), NEW new \in Nat, new # 0,
           m.hdr[h].class # BIG => match_size_class(new) # m.hdr[h].class,
           Capacity(m, h) = 0 => ~(Shrinkage(m, h, new) > 0)
    PROVE  LET s == Shrinkage(m, h, new)
           IN  /\ s \in Int
               /\ s = 0 => SameKind(m, h, new) /\ m.hdr[h].class = BIG
               /\ s > 0 => new <= Capacity(m, h)
               /\ s > 0 /\ s % PAGE = 0 => SameKind(m, h, new)
               /\ s < 0 => Capacity(m, h) < NewSize(new)
               /\ m.hdr[h].class # BIG /\ SameKind(m, h, new) => s = Capacity(m, h) - NewSize(new)
               /\ m.hdr[h].class = BIG /\ SameKind(m, h, new) =>
                     s = align_to(Capacity(m, h) + HEADER_SIZE, PAGE)
                           - align_to(NewSize(new) + HEADER_SIZE, PAGE)
<1> DEFINE c == m.hdr[h].class
           d == match_size_class(new)
           C == Capacity(m, h)
           N == NewSize(new)
           A(x) == align_to(x + HEADER_SIZE, PAGE)
           s == Shrinkage(m, h, new)
<1>1. /\ N \in Nat /\ new <= N
      /\ d = BIG => N = new /\ N > MAX_CLASS_SIZE
      /\ d # BIG => /\ d \in Classes /\ N = SIZE_CLASSES[d] /\ N <= MAX_CLASS_SIZE
                    /\ N % PAGE <= PAGE - HEADER_SIZE - META_SIZE
  BY Wanted, Zenon
<1>2. /\ C \in Nat
      /\ c = BIG => C = 0 \/ C > MAX_CLASS_SIZE
      /\ c # BIG => c \in Classes /\ C = SIZE_CLASSES[c]
  BY Present, Zenon
<1>3. s = Total(c, C) - Total(d, N)
  BY Zenon DEF Shrinkage
<1>4. MAX_CLASS_SIZE \in Nat /\ \A k \in Classes : SIZE_CLASSES[k] % 16 = 0
  BY ClassFacts, Zenon
<1> HIDE DEF s, C, N, c, d
<1>5. CASE c = BIG /\ d = BIG
  <2>1. Total(c, C) = A(C) /\ Total(d, N) = A(N)
    BY <1>5, Zenon DEF Total
  <2>2. A(C) \in Nat /\ A(N) \in Nat /\ (A(N) < A(C) => N < C) /\ (A(C) < A(N) => C < N)
    BY <1>1, <1>2, Rounding, Zenon
  <2> HIDE DEF A
  <2>3. s = A(C) - A(N) /\ s \in Int
    BY <1>3, <2>1, <2>2
  <2>4. (s > 0 => new <= C) /\ (s < 0 => C < N)
    BY <1>1, <1>2, <1>5, <2>2, <2>3
  <2>5. SameKind(m, h, new)
    BY <1>5, Zenon DEF SameKind, c, d
  <2> QED BY <1>5, <2>3, <2>4, <2>5, Zenon DEF s, C, N, c, d, A
<1>6. CASE c = BIG /\ d # BIG
  <2>1. Total(c, C) = A(C) /\ Total(d, N) = align_to(N + HEADER_SIZE, 16)
    BY <1>6, Zenon DEF Total
  <2>2. A(C) \in Nat /\ A(C) % PAGE = 0 /\ C + 16 <= A(C) /\ align_to(N + HEADER_SIZE, 16) = N + 16
    BY <1>1, <1>2, <1>4, <1>6, Rounding, Zenon
  <2> HIDE DEF A
  <2>3. s = A(C) - (N + 16) /\ s \in Int
    BY <1>1, <1>3, <2>1, <2>2
  <2>4. C > MAX_CLASS_SIZE => s > 0 /\ new <= C
    BY <1>1, <1>2, <1>4, <1>6, <2>2, <2>3, SMTT(30)
  <2>5. s % PAGE # 0
    <3>1. PICK x \in Nat : x = A(C) /\ x % 4096 = 0
      BY <2>2 DEF PAGE
    <3>2. N % 4096 <= 4048
      BY <1>1, <1>6 DEF PAGE, HEADER_SIZE, META_SIZE
    <3>3. (x - (N + 16)) % 4096 # 0
      BY <1>1, <3>1, <3>2
    <3> QED BY <2>3, <3>1, <3>3 DEF PAGE
  <2>6. s # 0
    BY <2>5 DEF PAGE
  <2>7. C = 0 => ~(s > 0) /\ C < N
    <3>1. C = 0 => ~(s > 0)
      BY Zenon DEF C, s
    <3> QED BY <1>1, <3>1
  <2>8. (s > 0 => new <= C) /\ (s < 0 => C < N)
    BY <1>2, <1>6, <2>3, <2>4, <2>7
  <2>9. ~SameKind(m, h, new)
    BY <1>6, Zenon DEF SameKind, c, d
  <2> QED BY <2>3, <2>5, <2>6, <2>8, <2>9, Zenon DEF s, C, N
<1>7. CASE c # BIG /\ d # BIG
  <2>1. d # c
    BY <1>7, Zenon DEF c, d
  <2>2. Total(c, C) = align_to(C + HEADER_SIZE, 16) /\ Total(d, N) = align_to(N + HEADER_SIZE, 16)
    BY <1>7, Zenon DEF Total
  <2>3. align_to(C + HEADER_SIZE, 16) = C + 16 /\ align_to(N + HEADER_SIZE, 16) = N + 16
    BY <1>1, <1>2, <1>4, <1>7, Rounding, Zenon
  <2>4. C # N
    <3>1. c \in 1 .. 34 /\ d \in 1 .. 34 /\ C = SIZE_CLASSES[c] /\ N = SIZE_CLASSES[d]
      BY <1>1, <1>2, <1>7, ClassFacts, Zenon
    <3>2. c < d \/ d < c
      BY <2>1, <3>1
    <3>3. C < N \/ N < C
      BY <3>1, <3>2, SizeClassAssumption, Zenon
    <3> QED BY <1>1, <1>2, <3>3
  <2>5. s = C - N /\ s \in Int /\ s # 0
    BY <1>1, <1>2, <1>3, <2>2, <2>3, <2>4
  <2>6. (s > 0 => new <= C) /\ (s < 0 => C < N)
    BY <1>1, <1>2, <2>5
  <2>7. SameKind(m, h, new)
    BY <1>7, Zenon DEF SameKind, c, d
  <2> QED BY <1>7, <2>5, <2>6, <2>7, Zenon DEF s, C, N, c
<1>8. CASE c # BIG /\ d = BIG
  <2>1. Total(c, C) = align_to(C + HEADER_SIZE, 16) /\ Total(d, N) = A(N)
    BY <1>8, Zenon DEF Total
  <2>2. align_to(C + HEADER_SIZE, 16) = C + 16 /\ A(N) \in Nat /\ N + 16 <= A(N)
    <3>1. C \in Nat /\ C % 16 = 0
      BY <1>2, <1>4, <1>8, Zenon
    <3>2. align_to(C + HEADER_SIZE, 16) = C + 16
      BY <3>1, Rounding, Zenon
    <3>3. A(N) \in Nat /\ N + 16 <= A(N)
      BY <1>1, Rounding, Zenon
    <3> QED BY <3>2, <3>3, Zenon
  <2>3. C <= MAX_CLASS_SIZE /\ MAX_CLASS_SIZE < N
    <3>1. C <= MAX_CLASS_SIZE
      BY <1>2, <1>8, LargestClass, Zenon
    <3> QED BY <1>1, <1>4, <1>8, <3>1
  <2> HIDE DEF A
  <2>4. s = (C + 16) - A(N) /\ s \in Int
    BY <1>2, <1>3, <2>1, <2>2
  <2>5. s < 0 /\ ~(s = 0) /\ ~(s > 0) /\ C < N
    BY <1>1, <1>2, <1>4, <2>2, <2>3, <2>4, SMTT(30)
  <2>6. ~SameKind(m, h, new)
    BY <1>8, Zenon DEF SameKind, c, d
  <2> QED BY <2>4, <2>5, <2>6, Zenon DEF s, C, N
<1> QED BY <1>5, <1>6, <1>7, <1>8, Zenon

(* A block gets another class, and maybe an entry in the table. *)
LEMMA RelabelIs ==
    ASSUME NEW m, IsMem(m), NEW h \in DOMAIN m.hdr, m.hdr[h] \in Headers,
           NEW c \in Classes \cup {BIG}, NEW size
    PROVE  LET n == Relabel(m, h, c, size)
           IN  /\ IsMem(n) /\ n.va = m.va /\ n.multi = m.multi
               /\ n.lost = m.lost /\ n.alive = m.alive /\ n.wiped = m.wiped /\ n.tag = m.tag
               /\ DOMAIN n.hdr = DOMAIN m.hdr
               /\ n.hdr[h] \in Headers /\ n.hdr[h].class = c
               /\ n.hdr[h].magic = m.hdr[h].magic
               /\ \A k \in DOMAIN m.hdr \ {h} : n.hdr[k] = m.hdr[k]
               /\ DOMAIN n.meta \ {h} = DOMAIN m.meta \ {h}
               /\ \A k \in DOMAIN m.meta \ {h} : n.meta[k] = m.meta[k]
               /\ c = BIG => h \in DOMAIN n.meta /\ n.meta[h] = size
               /\ c # BIG /\ m.hdr[h].class = BIG => h \notin DOMAIN n.meta
               /\ c # BIG /\ m.hdr[h].class # BIG => n.meta = m.meta
<1> DEFINE v == [m.hdr[h] EXCEPT !.class = c]
           g == [m.hdr EXCEPT ![h] = v]
           e == CASE c = BIG -> Put(m.meta, h, size)
                  [] c # BIG /\ m.hdr[h].class = BIG -> Keep(m.meta, DOMAIN m.meta \ {h})
                  [] OTHER -> m.meta
           n == Relabel(m, h, c, size)
<1>1. n = [m EXCEPT !.hdr = g, !.meta = e]
  BY DEF Relabel
<1>2. v \in Headers /\ v.class = c /\ v.magic = m.hdr[h].magic
  BY DEF Headers
<1>3. /\ DOMAIN e \ {h} = DOMAIN m.meta \ {h}
      /\ \A k \in DOMAIN m.meta \ {h} : e[k] = m.meta[k]
      /\ c = BIG => h \in DOMAIN e /\ e[h] = size
      /\ c # BIG /\ m.hdr[h].class = BIG => h \notin DOMAIN e
      /\ c # BIG /\ m.hdr[h].class # BIG => e = m.meta
  <2>1. CASE c = BIG
    <3>1. e = Put(m.meta, h, size)
      BY <2>1, Zenon
    <3> QED BY <2>1, <3>1, Zenon DEF Put
  <2>2. CASE c # BIG /\ m.hdr[h].class = BIG
    <3>1. e = Keep(m.meta, DOMAIN m.meta \ {h})
      BY <2>2, Zenon
    <3> QED BY <2>2, <3>1, Zenon DEF Keep
  <2>3. CASE c # BIG /\ m.hdr[h].class # BIG
    <3>1. e = m.meta
      BY <2>3, Zenon
    <3> QED BY <2>3, <3>1, Zenon
  <2> QED BY <2>1, <2>2, <2>3, Zenon
<1> HIDE DEF v, e
<1>4. /\ DOMAIN g = DOMAIN m.hdr /\ g[h] = v /\ \A k \in DOMAIN m.hdr \ {h} : g[k] = m.hdr[k]
  BY Zenon
<1> HIDE DEF g, n
<1>5. /\ IsMem(n) /\ n.va = m.va /\ n.multi = m.multi /\ n.tag = m.tag
      /\ n.lost = m.lost /\ n.alive = m.alive /\ n.wiped = m.wiped /\ n.hdr = g /\ n.meta = e
  BY <1>1, Zenon DEF IsMem
<1> QED BY <1>2, <1>3, <1>4, <1>5, Zenon DEF n

(* A big block of the new size would start a page. *)
Fits(h, new) == match_size_class(new) = BIG => h % PAGE = 0

(* A resizing that does not change the kind of the block fits. *)
LEMMA SameKindFits ==
    ASSUME NEW m, MemOK(m), NEW h \in InUse(m), NEW new, SameKind(m, h, new)
    PROVE  Fits(h, new)
BY Present, Zenon DEF Fits, SameKind

(* The block at h has the new size and its header, and what it has of its  *)
(* data is not zeroed.                                                     *)
InPlace(m, n, h, new) ==
    /\ MemOK(n) /\ Keeps(m, n, InUse(m) \ {h}) /\ h \in InUse(n) /\ new <= Capacity(n, h)
    /\ \A w \in n.wiped \ m.wiped : Misses(w, h, h + HEADER_SIZE + new)

(* The new class or size is written when the pages are as they should be.  *)
LEMMA RelabelOK ==
    ASSUME NEW m, MemOK(m), NEW h \in InUse(m), Alone(m, h), NEW new \in Nat, new # 0,
           Fits(h, new), NEW l, IsMem(l),
           l.alive = m.alive, l.multi = m.multi, l.lost = m.lost, l.meta = m.meta,
           DOMAIN l.hdr = DOMAIN m.hdr, \A k \in DOMAIN m.hdr : l.hdr[k] = m.hdr[k],
           l.va = (m.va \ Foot(m, h)) \cup Span(h, h + 16 + NewSize(new)),
           Span(h, h + 16 + NewSize(new)) \subseteq Pages,
           Span(h, h + 16 + NewSize(new)) \cap (m.va \ Foot(m, h)) = {},
           DOMAIN l.tag \subseteq DOMAIN m.tag,
           \A k \in DOMAIN m.hdr \ {h}, q \in DOMAIN m.tag :
              k + 32 <= q /\ q <= End(m, k) => q \in DOMAIN l.tag /\ l.tag[q] = m.tag[q],
           \A k \in DOMAIN m.hdr \ {h}, w \in l.wiped \ m.wiped : Misses(w, k, End(m, k)),
           \A w \in l.wiped \ m.wiped :
              w[1] \in Nat /\ w[2] \in Nat /\ h + HEADER_SIZE + NewSize(new) <= w[1]
    PROVE  InPlace(m, Relabel(l, h, match_size_class(new), NewSize(new)), h, new)
<1> DEFINE d == match_size_class(new)
           N == NewSize(new)
           n == Relabel(l, h, d, N)
<1>1. /\ IsMem(m) /\ Accounted(m) /\ h \in DOMAIN m.hdr /\ BlockOK(m, h)
      /\ m.hdr[h].magic = "MAGIC"
  BY Zenon DEF MemOK, InUse
<1>2. /\ N \in Nat /\ new <= N /\ d \in Classes \cup {BIG}
      /\ d = BIG => N = new /\ N > MAX_CLASS_SIZE
      /\ d # BIG => d \in Classes /\ N = SIZE_CLASSES[d]
  BY Wanted, Zenon
<1>3. /\ h \in Nat /\ (d = BIG => h % PAGE = 0) /\ h % PAGE \in {0, META_SIZE}
  BY Present, Zenon DEF Fits
<1>4. l.hdr[h] = m.hdr[h] /\ m.hdr[h] \in Headers
  BY <1>1, Zenon DEF BlockOK
<1> HIDE DEF d, N
<1>5. /\ IsMem(n) /\ n.va = l.va /\ n.multi = l.multi
      /\ n.lost = l.lost /\ n.alive = l.alive /\ n.wiped = l.wiped /\ n.tag = l.tag
      /\ DOMAIN n.hdr = DOMAIN l.hdr
      /\ n.hdr[h] \in Headers /\ n.hdr[h].class = d
      /\ n.hdr[h].magic = l.hdr[h].magic
      /\ \A k \in DOMAIN l.hdr \ {h} : n.hdr[k] = l.hdr[k]
      /\ DOMAIN n.meta \ {h} = DOMAIN l.meta \ {h}
      /\ \A k \in DOMAIN l.meta \ {h} : n.meta[k] = l.meta[k]
      /\ d = BIG => h \in DOMAIN n.meta /\ n.meta[h] = N
      /\ d # BIG /\ l.hdr[h].class = BIG => h \notin DOMAIN n.meta
      /\ d # BIG /\ l.hdr[h].class # BIG => n.meta = l.meta
  BY <1>1, <1>2, <1>4, RelabelIs, Zenon
<1> HIDE DEF n
<1>6. Capacity(n, h) = N
  BY <1>2, <1>5, Zenon DEF Capacity
<1>7. Foot(n, h) = Span(h, h + 16 + N)
  BY <1>6, Zenon DEF Foot, End, HEADER_SIZE
<1>8. h \notin DOMAIN n.meta \/ d = BIG
  BY <1>1, <1>4, <1>5, Zenon DEF Accounted
<1>9. Resizes(m, n, h)
  <2>1. /\ n.va = (m.va \ Foot(m, h)) \cup Foot(n, h)
        /\ Foot(n, h) \subseteq Pages /\ Foot(n, h) \cap (m.va \ Foot(m, h)) = {}
    BY <1>5, <1>7, Zenon DEF N
  <2>2. /\ IsMem(n) /\ n.alive = m.alive /\ n.multi = m.multi /\ n.lost = m.lost
        /\ DOMAIN n.hdr = DOMAIN m.hdr /\ \A k \in DOMAIN m.hdr \ {h} : n.hdr[k] = m.hdr[k]
        /\ n.hdr[h] \in Headers /\ n.hdr[h].magic = "MAGIC"
        /\ DOMAIN n.meta \ {h} = DOMAIN m.meta \ {h}
        /\ \A k \in DOMAIN m.meta \ {h} : n.meta[k] = m.meta[k]
    BY <1>1, <1>4, <1>5, Zenon
  <2>3. n.hdr[h].class = BIG =>
          /\ h % PAGE = 0 /\ h \in DOMAIN n.meta /\ n.meta[h] \in Nat
          /\ n.meta[h] = 0 \/ n.meta[h] > MAX_CLASS_SIZE
    BY <1>2, <1>3, <1>5, Zenon
  <2>4. n.hdr[h].class # BIG => h % PAGE \in {0, META_SIZE} /\ h \notin DOMAIN n.meta
    BY <1>3, <1>5, <1>8, Zenon
  <2> QED BY <1>5, <2>1, <2>2, <2>3, <2>4, ZenonT(30) DEF Resizes
<1>10. MemOK(n) /\ Keeps(m, n, InUse(m) \ {h}) /\ h \in InUse(n)
  BY <1>9, Resized, Zenon
<1>11. \A w \in n.wiped \ m.wiped : Misses(w, h, h + HEADER_SIZE + new)
  <2> SUFFICES ASSUME NEW w \in n.wiped \ m.wiped
               PROVE  Misses(w, h, h + HEADER_SIZE + new)
    BY Zenon
  <2>1. w[1] \in Nat /\ w[2] \in Nat /\ h + HEADER_SIZE + N <= w[1]
    BY <1>5, Zenon DEF N
  <2>2. h + HEADER_SIZE + new <= w[1]
    BY <1>2, <1>3, <2>1 DEF HEADER_SIZE
  <2> QED BY <2>1, <2>2, Zenon DEF Misses
<1> QED BY <1>2, <1>6, <1>10, <1>11, Zenon DEF InPlace, n, d, N


(* The last page of the block that is there, and of the one wanted. *)
LEMMA LastPages ==
    ASSUME NEW m, MemOK(m), NEW h \in InUse(m), Alone(m, h), NEW new \in Nat, new # 0,
           Fits(h, new)
    PROVE  \E i, j \in Nat :
              /\ (h + 16 + Capacity(m, h) - 1) \div PAGE = h \div PAGE + i - 1
              /\ (h + 16 + NewSize(new) - 1) \div PAGE = h \div PAGE + j - 1
              /\ i = align_to(Capacity(m, h) + HEADER_SIZE, PAGE) \div PAGE
              /\ j = align_to(NewSize(new) + HEADER_SIZE, PAGE) \div PAGE
<1>1. Capacity(m, h) \in Nat /\ h \in Nat /\ Measured(h, Capacity(m, h))
  BY Present, Zenon DEF Measured
<1>2. NewSize(new) \in Nat /\ Measured(h, NewSize(new))
  BY Present, Wanted, Zenon DEF Measured, Fits
<1>3. /\ (h + 16 + Capacity(m, h) - 1) \div PAGE
            = h \div PAGE + align_to(Capacity(m, h) + HEADER_SIZE, PAGE) \div PAGE - 1
      /\ align_to(Capacity(m, h) + HEADER_SIZE, PAGE) \div PAGE \in Nat
  BY <1>1, LastPage, Zenon
<1>4. /\ (h + 16 + NewSize(new) - 1) \div PAGE
            = h \div PAGE + align_to(NewSize(new) + HEADER_SIZE, PAGE) \div PAGE - 1
      /\ align_to(NewSize(new) + HEADER_SIZE, PAGE) \div PAGE \in Nat
  BY <1>1, <1>2, LastPage, ZenonT(30)
<1> QED BY <1>3, <1>4, Zenon

(* The pages are the same. *)
LEMMA SameSizeOK ==
    ASSUME NEW m, MemOK(m), NEW h \in InUse(m), NEW new \in Nat, new # 0,
           m.hdr[h].class = BIG, SameKind(m, h, new),
           align_to(Capacity(m, h) + HEADER_SIZE, PAGE) = align_to(NewSize(new) + HEADER_SIZE, PAGE)
    PROVE  InPlace(m, Relabel(m, h, match_size_class(new), NewSize(new)), h, new)
<1>1. /\ Alone(m, h) /\ IsMem(m) /\ Foot(m, h) \subseteq m.va /\ m.va \subseteq Pages
      /\ Fits(h, new)
  BY Present, SameKindFits, Zenon DEF MemOK, Accounted, InUse
<1>2. PICK i \in Nat, j \in Nat :
         /\ (h + 16 + Capacity(m, h) - 1) \div PAGE = h \div PAGE + i - 1
         /\ (h + 16 + NewSize(new) - 1) \div PAGE = h \div PAGE + j - 1
         /\ i = align_to(Capacity(m, h) + HEADER_SIZE, PAGE) \div PAGE
         /\ j = align_to(NewSize(new) + HEADER_SIZE, PAGE) \div PAGE
  BY <1>1, LastPages, Zenon
<1> DEFINE e == h + 16 + Capacity(m, h)
           f == h + 16 + NewSize(new)
<1>3. Span(h, f) = Span(h, e)
  <2>1. i = j
    BY <1>2, Zenon
  <2>2. (f - 1) \div PAGE = (e - 1) \div PAGE
    <3>1. h \in Nat /\ Capacity(m, h) \in Nat /\ NewSize(new) \in Nat
      BY Present, Wanted, Zenon
    <3> QED BY <1>2, <2>1, <3>1 DEF PAGE
  <2> HIDE DEF e, f
  <2> QED BY <2>2, Zenon DEF Span
<1>4. Span(h, h + 16 + NewSize(new)) = Foot(m, h)
  BY <1>3, Zenon DEF Foot, End, HEADER_SIZE
<1>5. m.va = (m.va \ Foot(m, h)) \cup Foot(m, h)
  BY <1>1, Zenon
<1> QED BY <1>1, <1>4, <1>5, RelabelOK

(* The pages behind the smaller block are cut off. *)
IsCut(h, e, f, from, len) ==
    /\ RunAt(from, len) = Span(from, from + len) /\ from < from + len
    /\ Span(h, f) = Span(h, e) \ RunAt(from, len) /\ RunAt(from, len) \subseteq Span(h, e)
    /\ f <= from

(* So it is when the cut starts with the page behind the smaller block. *)
LEMMA CutOff ==
    ASSUME NEW h \in Nat, NEW e \in Nat, NEW f \in Nat, NEW from \in Nat, NEW len \in Nat \ {0},
           h < f, from % PAGE = 0, len % PAGE = 0,
           from \div PAGE = (f - 1) \div PAGE + 1,
           (e - 1) \div PAGE = (f - 1) \div PAGE + len \div PAGE
    PROVE  IsCut(h, e, f, from, len)
<1> DEFINE i == h \div 4096
           j == (f - 1) \div 4096
           k == len \div 4096
<1>1. i \in Nat /\ j \in Nat /\ k \in Nat /\ i <= j
  OBVIOUS
<1>2. from = (j + 1) * 4096 /\ len = k * 4096 /\ (e - 1) \div 4096 = j + k
  BY DEF PAGE
<1>3. f <= from
  <2>1. f - 1 < (j + 1) * 4096
    OBVIOUS
  <2> HIDE DEF j
  <2> QED BY <1>1, <1>2, <2>1
<1>4. RunAt(from, len) = Span(from, from + len) /\ from < from + len
  BY RunIsSpan
<1> HIDE DEF i, j, k
<1>5. Span(from, from + len) = j + 1 .. j + k
  <2>1. from \div 4096 = j + 1 /\ (from + len - 1) \div 4096 = j + k
    BY <1>1, <1>2
  <2> QED BY <2>1 DEF Span, PAGE
<1>6. Span(h, f) = i .. j /\ Span(h, e) = i .. j + k
  BY <1>2 DEF Span, PAGE, i, j
<1>7. i .. j = (i .. j + k) \ (j + 1 .. j + k) /\ (j + 1 .. j + k) \subseteq i .. j + k
  BY <1>1
<1> QED BY <1>3, <1>4, <1>5, <1>6, <1>7, Zenon DEF IsCut


(* The start of the page behind a byte. *)
LEMMA PageUp ==
    ASSUME NEW t \in Nat \ {0}
    PROVE  /\ align_to(t, PAGE) \in Nat /\ align_to(t, PAGE) % PAGE = 0
           /\ align_to(t, PAGE) \div PAGE = (t - 1) \div PAGE + 1
<1>1. align_to(t, PAGE) = ((t + 4096 - 1) \div 4096) * 4096
  BY DEF align_to, PAGE
<1>2. PICK k \in Nat : k = (t - 1) \div 4096
  OBVIOUS
<1>3. (t + 4096 - 1) \div 4096 = k + 1
  BY <1>2
<1>4. align_to(t, PAGE) = (k + 1) * 4096
  BY <1>1, <1>3
<1> QED BY <1>2, <1>4 DEF PAGE

(* Where the pages that are cut off begin, and how many they are. *)
LEMMA CutAt ==
    ASSUME NEW m, MemOK(m), NEW h \in InUse(m), Alone(m, h), NEW new \in Nat, new # 0,
           m.hdr[h].class # BIG => match_size_class(new) # m.hdr[h].class,
           Capacity(m, h) = 0 => ~(Shrinkage(m, h, new) > 0), SameKind(m, h, new),
           Shrinkage(m, h, new) > 0, Shrinkage(m, h, new) % PAGE = 0
    PROVE  LET len == Shrinkage(m, h, new)
               from == align_to(h + Total(match_size_class(new), NewSize(new)), PAGE)
               f == h + 16 + NewSize(new)
           IN  /\ len \in Nat \ {0} /\ from \in Nat /\ from % PAGE = 0
               /\ from \div PAGE = (f - 1) \div PAGE + 1
               /\ (End(m, h) - 1) \div PAGE = (f - 1) \div PAGE + len \div PAGE
<1> DEFINE C == Capacity(m, h)
           N == NewSize(new)
           d == match_size_class(new)
           len == Shrinkage(m, h, new)
           T == Total(d, N)
           A(x) == align_to(x + HEADER_SIZE, PAGE)
           e == End(m, h)
           f == h + 16 + N
           t == h + T
<1>1. C \in Nat /\ h \in Nat /\ (m.hdr[h].class = BIG => h % PAGE = 0)
  BY Present, Zenon
<1>2. N \in Nat /\ (d # BIG => d \in Classes /\ N = SIZE_CLASSES[d])
  BY Wanted, Zenon
<1>3. /\ len \in Int
      /\ m.hdr[h].class # BIG => len = C - N
      /\ m.hdr[h].class = BIG => len = A(C) - A(N)
  BY Kinds, Zenon
<1>0. Fits(h, new)
  BY SameKindFits, Zenon
<1>4. PICK i \in Nat, j \in Nat :
         /\ (h + 16 + C - 1) \div PAGE = h \div PAGE + i - 1
         /\ (h + 16 + N - 1) \div PAGE = h \div PAGE + j - 1
         /\ i = A(C) \div PAGE /\ j = A(N) \div PAGE
  BY <1>0, LastPages, ZenonT(30)
<1>5. A(C) \in Nat /\ A(N) \in Nat /\ A(C) % PAGE = 0 /\ A(N) % PAGE = 0
  BY <1>1, <1>2, Rounding, Zenon
<1>6. End(m, h) = h + 16 + C
  BY Zenon DEF End, HEADER_SIZE
<1>7. len > 0 /\ len % PAGE = 0
  OBVIOUS
<1>8. T = IF d = BIG THEN A(N) ELSE align_to(N + HEADER_SIZE, 16)
  BY Zenon DEF Total
<1>9. d # BIG => align_to(N + HEADER_SIZE, 16) = N + 16
  <2>1. d # BIG => N % 16 = 0
    BY <1>2, ClassFacts, Zenon
  <2> QED BY <1>2, <2>1, Rounding, Zenon
<1>10. m.hdr[h].class = BIG <=> d = BIG
  BY Zenon DEF SameKind
<1> HIDE DEF C, N, len, T, A, d
<1>11. /\ T \in Nat \ {0} /\ (h + T - 1) \div PAGE = (h + 16 + N - 1) \div PAGE
       /\ (h + 16 + C - 1) \div PAGE = (h + 16 + N - 1) \div PAGE + len \div PAGE
  <2>1. CASE d = BIG
    <3>1. PICK a \in Nat, b \in Nat : a = A(C) /\ b = A(N)
      BY <1>5, Zenon
    <3>2. /\ h % 4096 = 0 /\ a % 4096 = 0 /\ b % 4096 = 0 /\ len = a - b /\ T = b
          /\ i = a \div 4096 /\ j = b \div 4096
      BY <1>1, <1>3, <1>4, <1>5, <1>8, <1>10, <2>1, <3>1, SMTT(30) DEF PAGE
    <3>3. b # 0
      <4>1. N + 16 <= A(N)
        BY <1>2, Rounding, Zenon DEF A
      <4> QED BY <1>2, <3>1, <4>1
    <3>4. (h + b - 1) \div 4096 = h \div 4096 + j - 1
      BY <1>1, <3>2, <3>3
    <3>5. (a - b) \div 4096 = i - j
      <4>1. a = i * 4096 /\ b = j * 4096
        BY <3>2
      <4> QED BY <4>1
    <3> QED BY <1>1, <1>4, <3>2, <3>3, <3>4, <3>5 DEF PAGE
  <2>2. CASE d # BIG
    <3>1. T = N + 16 /\ C = N + len /\ len % 4096 = 0 /\ len \in Nat
      BY <1>1, <1>2, <1>3, <1>7, <1>8, <1>9, <1>10, <2>2, SMTT(30) DEF PAGE
    <3>2. (h + 16 + N + len - 1) \div 4096 = (h + 16 + N - 1) \div 4096 + len \div 4096
      BY <1>1, <1>2, <3>1
    <3>3. h + T - 1 = h + 16 + N - 1 /\ h + 16 + C - 1 = h + 16 + N + len - 1
      BY <1>1, <1>2, <3>1
    <3> QED BY <1>2, <3>1, <3>2, <3>3, SMTT(30) DEF PAGE
  <2> QED BY <2>1, <2>2, Zenon
<1>12. t \in Nat \ {0} /\ len \in Nat \ {0}
  BY <1>1, <1>3, <1>7, <1>11
<1>13. /\ (t - 1) \div PAGE = (f - 1) \div PAGE
       /\ (e - 1) \div PAGE = (f - 1) \div PAGE + len \div PAGE
  BY <1>1, <1>2, <1>6, <1>11 DEF PAGE
<1> HIDE DEF e, f, t
<1>14. /\ align_to(t, PAGE) \in Nat /\ align_to(t, PAGE) % PAGE = 0
       /\ align_to(t, PAGE) \div PAGE = (t - 1) \div PAGE + 1
  BY <1>12, PageUp, Zenon
<1>15. align_to(t, PAGE) \div PAGE = (f - 1) \div PAGE + 1
  BY <1>13, <1>14, Zenon
<1> QED BY <1>12, <1>13, <1>14, <1>15, Zenon DEF N, len, T, d, e, f, t

(* Smaller in place. *)
LEMMA ShrinkOK ==
    ASSUME NEW m, MemOK(m), NEW h \in InUse(m), Alone(m, h), NEW new \in Nat, new # 0,
           m.hdr[h].class # BIG => match_size_class(new) # m.hdr[h].class,
           Capacity(m, h) = 0 => ~(Shrinkage(m, h, new) > 0), Shrinkage(m, h, new) > 0,
           NEW n \in ShrinkInPlace(m, h, new)
    PROVE  InPlace(m, n, h, new)
<1> DEFINE len == Shrinkage(m, h, new)
           from == align_to(h + Total(match_size_class(new), NewSize(new)), PAGE)
           N == NewSize(new)
           f == h + 16 + N
           to == from + len
           d == Discard(m, from, to)
           cut == Give(d, from, len)
<1>1. /\ IsMem(m) /\ m.alive /\ Accounted(m) /\ TagsClear(m)
      /\ \A k \in DOMAIN m.hdr : BlockOK(m, k)
      /\ h \in DOMAIN m.hdr
  BY Zenon DEF MemOK, InUse
<1>2. new <= Capacity(m, h) /\ (len % PAGE = 0 => SameKind(m, h, new))
  BY Kinds, Zenon
<1>3. CASE n = m
  <2>1. Keeps(m, m, InUse(m) \ {h})
    BY Zenon DEF Keeps, InUse
  <2> QED BY <1>2, <1>3, <2>1, Zenon DEF InPlace
<1>4. CASE n # m
  <2>1. len % PAGE = 0 /\ n = Relabel(cut, h, match_size_class(new), N)
    BY <1>4, Zenon DEF ShrinkInPlace
  <2>2. SameKind(m, h, new) /\ Fits(h, new)
    BY <1>2, <2>1, SameKindFits, Zenon
  <2>3. /\ len \in Nat \ {0} /\ from \in Nat /\ from % PAGE = 0
        /\ from \div PAGE = (f - 1) \div PAGE + 1
        /\ (End(m, h) - 1) \div PAGE = (f - 1) \div PAGE + len \div PAGE
    BY <2>1, <2>2, CutAt, ZenonT(30)
  <2>4. h \in Nat /\ End(m, h) \in Nat /\ N \in Nat
    BY <1>1, Wanted, BlockIs, Zenon
  <2> HIDE DEF N, len, from
  <2>5. f \in Nat /\ h < f /\ h + 16 <= f
    BY <2>4
  <2>6. /\ RunAt(from, len) = Span(from, from + len) /\ from < from + len
        /\ Span(h, f) = Span(h, End(m, h)) \ RunAt(from, len)
        /\ RunAt(from, len) \subseteq Span(h, End(m, h))
        /\ f <= from
    <3>1. PICK e \in Nat : e = End(m, h)
      BY <2>4, Zenon
    <3>2. (e - 1) \div PAGE = (f - 1) \div PAGE + len \div PAGE
      BY <2>3, <3>1, Zenon
    <3> HIDE DEF f
    <3>3. /\ RunAt(from, len) = Span(from, from + len) /\ from < from + len
          /\ Span(h, f) = Span(h, e) \ RunAt(from, len)
          /\ RunAt(from, len) \subseteq Span(h, e)
          /\ f <= from
      <4>1. /\ h \in Nat /\ e \in Nat /\ f \in Nat /\ from \in Nat /\ len \in Nat \ {0}
            /\ h < f /\ from % PAGE = 0 /\ len % PAGE = 0
            /\ from \div PAGE = (f - 1) \div PAGE + 1
        BY <2>1, <2>3, <2>4, <2>5, Zenon
      <4>2. IsCut(h, e, f, from, len)
        BY <3>2, <4>1, CutOff, Zenon
      <4> QED BY <4>2, Zenon DEF IsCut
    <3> QED BY <3>1, <3>3, Zenon
  <2>7. to \in Nat /\ from < to /\ RunAt(from, len) = Span(from, to)
    BY <2>3, <2>6, SMTT(30)
  <2> HIDE DEF to
  <2>8. /\ IsMem(d) /\ d.va = m.va /\ d.meta = m.meta /\ d.multi = m.multi
        /\ d.lost = m.lost /\ d.alive = m.alive /\ d.wiped = m.wiped \cup {<<from, to>>}
        /\ DOMAIN d.hdr = {k \in DOMAIN m.hdr : ~Overlap(k, k + HEADER_SIZE, from, to)}
        /\ \A k \in DOMAIN d.hdr : d.hdr[k] = m.hdr[k]
        /\ DOMAIN d.tag = {p \in DOMAIN m.tag : ~Overlap(p - TAG_SIZE, p, from, to)}
        /\ \A p \in DOMAIN d.tag : d.tag[p] = m.tag[p]
    <3>1. IsMem(m)
      BY <1>1, ZenonT(30)
    <3> QED BY <3>1, DiscardIs
  <2> HIDE DEF d
  <2>9. /\ IsMem(cut) /\ cut.va = d.va \ RunAt(from, len)
        /\ cut.hdr = d.hdr /\ cut.meta = d.meta /\ cut.tag = d.tag /\ cut.multi = d.multi
        /\ cut.lost = d.lost /\ cut.wiped = d.wiped /\ cut.alive = d.alive
    BY <2>8, GiveIs
  <2> HIDE DEF cut
  <2>10. \A k \in DOMAIN m.hdr \ {h} : to <= k \/ End(m, k) <= from
    <3>1. Span(from, to) \subseteq Foot(m, h)
      BY <2>6, <2>7, ZenonT(30) DEF Foot
    <3> QED BY <1>1, <2>3, <2>7, <3>1, OwnPages, Zenon
  <2>11. \A k \in DOMAIN m.hdr \ {h} :
            /\ ~Overlap(k, k + HEADER_SIZE, from, to)
            /\ \A q \in Nat : k + 32 <= q /\ q <= End(m, k) =>
                  ~Overlap(q - TAG_SIZE, q, from, to)
    BY <1>1, <2>3, <2>7, <2>10, BesideBlock, SMTT(30)
  <2>12. ~Overlap(h, h + HEADER_SIZE, from, to)
    BY <2>3, <2>4, <2>5, <2>6 DEF Overlap, HEADER_SIZE
  <2>13. DOMAIN cut.hdr = DOMAIN m.hdr /\ \A k \in DOMAIN m.hdr : cut.hdr[k] = m.hdr[k]
    BY <2>8, <2>9, <2>11, <2>12, Zenon
  <2>14. /\ cut.va = (m.va \ Foot(m, h)) \cup Span(h, h + 16 + NewSize(new))
         /\ Span(h, h + 16 + NewSize(new)) \subseteq Pages
         /\ Span(h, h + 16 + NewSize(new)) \cap (m.va \ Foot(m, h)) = {}
    <3>1. Foot(m, h) = Span(h, End(m, h)) /\ Foot(m, h) \subseteq m.va /\ m.va \subseteq Pages
      BY <1>1, Zenon DEF Foot, Accounted
    <3>2. cut.va = m.va \ RunAt(from, len)
      BY <2>8, <2>9, Zenon
    <3> QED BY <2>6, <3>1, <3>2, Zenon DEF N
  <2>15. \A w \in cut.wiped \ m.wiped : w[1] = from /\ w[2] = to
    <3>1. \A w \in cut.wiped \ m.wiped : w = <<from, to>>
      BY <2>8, <2>9, Zenon
    <3>2. <<from, to>>[1] = from /\ <<from, to>>[2] = to
      OBVIOUS
    <3> QED BY <3>1, <3>2, Zenon
  <2>16. \A w \in cut.wiped \ m.wiped :
            w[1] \in Nat /\ w[2] \in Nat /\ h + HEADER_SIZE + NewSize(new) <= w[1]
    BY <2>3, <2>6, <2>7, <2>15, Zenon DEF N, HEADER_SIZE
  <2>17. \A k \in DOMAIN m.hdr \ {h}, w \in cut.wiped \ m.wiped : Misses(w, k, End(m, k))
    BY <2>3, <2>7, <2>10, <2>15, Zenon DEF Misses
  <2>18. /\ DOMAIN cut.tag \subseteq DOMAIN m.tag
         /\ \A k \in DOMAIN m.hdr \ {h}, q \in DOMAIN m.tag :
               k + 32 <= q /\ q <= End(m, k) => q \in DOMAIN cut.tag /\ cut.tag[q] = m.tag[q]
    BY <1>1, <2>8, <2>9, <2>11, Zenon DEF TagsClear
  <2>19. /\ cut.alive = m.alive /\ cut.multi = m.multi /\ cut.lost = m.lost /\ cut.meta = m.meta
    BY <2>8, <2>9, Zenon
  <2>20. InPlace(m, Relabel(cut, h, match_size_class(new), NewSize(new)), h, new)
    BY <2>2, <2>9, <2>13, <2>14, <2>16, <2>17, <2>18, <2>19, RelabelOK, ZenonT(30)
  <2> QED BY <2>1, <2>20, Zenon DEF N
<1> QED BY <1>3, <1>4, Zenon


(* The pages that a growing block needs are those behind its own. *)
LEMMA GrowPages ==
    ASSUME NEW m, MemOK(m), NEW h \in InUse(m), Alone(m, h), NEW new \in Nat, new # 0,
           m.hdr[h].class # BIG => match_size_class(new) # m.hdr[h].class,
           Capacity(m, h) = 0 => ~(Shrinkage(m, h, new) > 0),
           Fits(h, new), Shrinkage(m, h, new) < 0
    PROVE  /\ Span(h, h + 16 + NewSize(new)) = Foot(m, h) \cup GrowRun(m, h, new)
           /\ Foot(m, h) \cap GrowRun(m, h, new) = {}
<1> DEFINE C == Capacity(m, h)
           N == NewSize(new)
           A(x) == align_to(x + HEADER_SIZE, PAGE)
           e == End(m, h)
           f == h + 16 + N
           a == h \div PAGE
<1>1. C \in Nat /\ h \in Nat /\ N \in Nat
  BY Present, Wanted, Zenon
<1>2. C < N
  BY Kinds, Zenon
<1>3. PICK i \in Nat, j \in Nat :
         /\ (h + 16 + C - 1) \div PAGE = h \div PAGE + i - 1
         /\ (h + 16 + N - 1) \div PAGE = h \div PAGE + j - 1
         /\ i = A(C) \div PAGE /\ j = A(N) \div PAGE
  BY LastPages, Zenon
<1>4. A(C) \in Nat /\ A(N) \in Nat /\ (A(N) < A(C) => N < C) /\ C + 16 <= A(C)
  BY <1>1, Rounding, Zenon
<1>5. GrowRun(m, h, new) = a + i .. a + j - 1
  BY <1>3, Zenon DEF GrowRun
<1>6. e = h + 16 + C
  BY Zenon DEF End, HEADER_SIZE
<1> HIDE DEF A, C, N
<1>7. i <= j /\ 1 <= i
  <2>1. PICK x \in Nat, y \in Nat : x = A(C) /\ y = A(N)
    BY <1>4, Zenon
  <2>2. x <= y
    BY <1>1, <1>2, <1>4, <2>1
  <2>3. i = x \div 4096 /\ j = y \div 4096
    BY <1>3, <2>1 DEF PAGE
  <2>4. (h + 16 + C - 1) \div 4096 >= h \div 4096
    BY <1>1
  <2> QED BY <1>1, <1>3, <2>2, <2>3, <2>4 DEF PAGE
<1>8. a \in Nat
  BY <1>1 DEF PAGE
<1>9. (e - 1) \div PAGE = a + i - 1 /\ (f - 1) \div PAGE = a + j - 1
  BY <1>1, <1>3, <1>6 DEF PAGE
<1>10. Foot(m, h) = a .. a + i - 1 /\ Span(h, f) = a .. a + j - 1
  <2> HIDE DEF f
  <2>1. Foot(m, h) = Span(h, e)
    BY Zenon DEF Foot
  <2> HIDE DEF e
  <2> QED BY <1>9, <2>1, Zenon DEF Span
<1> HIDE DEF a
<1>11. /\ a .. a + j - 1 = (a .. a + i - 1) \cup (a + i .. a + j - 1)
       /\ (a .. a + i - 1) \cap (a + i .. a + j - 1) = {}
  BY <1>7, <1>8
<1> HIDE DEF f
<1>12. /\ Span(h, f) = Foot(m, h) \cup GrowRun(m, h, new)
       /\ Foot(m, h) \cap GrowRun(m, h, new) = {}
  BY <1>5, <1>10, <1>11, Zenon
<1> QED BY <1>12, Zenon DEF f, N

(* Larger in place. *)
LEMMA GrowOK ==
    ASSUME NEW m, MemOK(m), NEW h \in InUse(m), Alone(m, h), NEW new \in Nat, new # 0,
           m.hdr[h].class # BIG => match_size_class(new) # m.hdr[h].class,
           Capacity(m, h) = 0 => ~(Shrinkage(m, h, new) > 0),
           Fits(h, new), Shrinkage(m, h, new) < 0, CanGrow(m, h, new)
    PROVE  InPlace(m, GrowInPlace(m, h, new), h, new)
<1> DEFINE run == GrowRun(m, h, new)
           l == Take(m, run)
           S == Span(h, h + 16 + NewSize(new))
<1>1. IsMem(m) /\ Foot(m, h) \subseteq m.va /\ m.va \subseteq Pages
  BY Zenon DEF MemOK, Accounted, InUse
<1>3. S = Foot(m, h) \cup run /\ Foot(m, h) \cap run = {}
  BY GrowPages, Zenon
<1>4. /\ IsMem(l) /\ l.va = m.va \cup run
      /\ l.hdr = m.hdr /\ l.meta = m.meta /\ l.tag = m.tag /\ l.multi = m.multi
      /\ l.lost = m.lost /\ l.wiped = m.wiped /\ l.alive = m.alive
  BY <1>1, TakeIs, Zenon
<1>5. run \subseteq Pages \ m.va
  BY Zenon DEF CanGrow
<1>6. GrowInPlace(m, h, new) = Relabel(l, h, match_size_class(new), NewSize(new))
  BY Zenon DEF GrowInPlace
<1> HIDE DEF l, run
<1>7. l.va = (m.va \ Foot(m, h)) \cup S /\ S \subseteq Pages /\ S \cap (m.va \ Foot(m, h)) = {}
  <2> HIDE DEF S
  <2> QED BY <1>1, <1>3, <1>4, <1>5, Zenon
<1>8. InPlace(m, Relabel(l, h, match_size_class(new), NewSize(new)), h, new)
  BY <1>4, <1>7, RelabelOK, Zenon
<1> QED BY <1>6, <1>8, Zenon

(* The pages were refused: they are given back or they are lost, and the   *)
(* blocks are what they were.                                              *)
LEMMA GrowFailedOK ==
    ASSUME NEW m, MemOK(m), NEW h, NEW new, CanGrow(m, h, new)
    PROVE  LET n == GrowFailed(m, h, new)
           IN  /\ MemOK(n) /\ Keeps(m, n, InUse(m)) /\ InUse(n) = InUse(m)
               /\ n.wiped = m.wiped
<1> DEFINE run == GrowRun(m, h, new)
           l == Take(m, run)
           n == [l EXCEPT !.lost = l.lost \cup run]
<1>1. CASE GrowFailed(m, h, new) = m
  <2>1. Keeps(m, m, InUse(m))
    BY Zenon DEF Keeps, InUse
  <2> QED BY <1>1, <2>1, Zenon
<1>2. CASE GrowFailed(m, h, new) # m
  <2>1. GrowFailed(m, h, new) = n
    BY <1>2, Zenon DEF GrowFailed
  <2>2. IsMem(m) /\ m.alive /\ Accounted(m) /\ \A k \in DOMAIN m.hdr : BlockOK(m, k)
    BY Zenon DEF MemOK
  <2>3. /\ IsMem(l) /\ l.va = m.va \cup run
        /\ l.hdr = m.hdr /\ l.meta = m.meta /\ l.tag = m.tag /\ l.multi = m.multi
        /\ l.lost = m.lost /\ l.wiped = m.wiped /\ l.alive = m.alive
    BY <2>2, TakeIs, Zenon
  <2>4. run \subseteq Pages \ m.va
    BY Zenon DEF CanGrow
  <2> HIDE DEF l, run
  <2>5. /\ IsMem(n) /\ n.va = l.va /\ n.hdr = l.hdr /\ n.meta = l.meta /\ n.tag = l.tag
        /\ n.multi = l.multi /\ n.lost = l.lost \cup run /\ n.wiped = l.wiped /\ n.alive = l.alive
    BY <2>3 DEF IsMem
  <2> HIDE DEF n
  <2>6. /\ n.va = m.va \cup run /\ n.hdr = m.hdr /\ n.meta = m.meta /\ n.tag = m.tag
        /\ n.multi = m.multi /\ n.lost = m.lost \cup run /\ n.wiped = m.wiped /\ n.alive
    BY <2>2, <2>3, <2>5
  <2>7. Rebuilds(m, n, DOMAIN m.hdr, {}, {}, run)
    <3>1. n.va = (m.va \ {}) \cup run /\ DOMAIN n.hdr = DOMAIN m.hdr \cup {}
      BY <2>6, Zenon
    <3>2. \A k \in DOMAIN m.hdr : m.hdr[k].class = BIG => k \in DOMAIN n.meta
      BY <2>2, <2>6, Zenon DEF BlockOK
    <3>3. \A k \in DOMAIN n.meta : k \in DOMAIN n.hdr /\ n.hdr[k].class = BIG
      BY <2>2, <2>6, Zenon DEF Accounted
    <3> QED BY <2>4, <2>5, <2>6, <3>1, <3>2, <3>3, Zenon DEF Rebuilds
  <2>8. MemOK(n) /\ \A k \in DOMAIN m.hdr : Capacity(n, k) = Capacity(m, k)
    BY <2>7, Rebuilt, Zenon
  <2>9. InUse(n) = InUse(m) /\ Keeps(m, n, InUse(m))
    BY <2>6, <2>8, Zenon DEF Keeps, InUse
  <2> QED BY <2>1, <2>6, <2>8, <2>9, Zenon
<1> QED BY <1>1, <1>2, Zenon


-----------------------------------------------------------------------------
(* realloc. *)

(* What is usable behind a pointer reaches to the end of its block. *)
LEMMA Usable ==
    ASSUME NEW m, MemOK(m), NEW x, PtrOK(m, x)
    PROVE  /\ malloc_usable_size(m, x.ptr) = End(m, HeaderOf(m, x.ptr)) - x.ptr
           /\ malloc_usable_size(m, x.ptr) \in Nat /\ x.size <= malloc_usable_size(m, x.ptr)
           /\ x.size \in Nat /\ x.ptr \in Nat
<1> DEFINE h == HeaderOf(m, x.ptr)
           C == Capacity(m, h)
<1>1. /\ h \in InUse(m) /\ h \in DOMAIN m.hdr /\ Points(m, x.ptr, h)
      /\ x.ptr + x.size <= End(m, h)
  BY Zenon DEF PtrOK, InUse
<1>2. x.ptr \in Nat /\ x.size \in Nat
  BY Zenon DEF PtrOK, Pointers
<1>3. RawOf(m, x.ptr) = h + 16 /\ h \in Nat
  BY <1>1, <1>2, Header, Zenon
<1>4. C \in Nat
  <2>1. BlockOK(m, h)
    BY <1>1, Zenon DEF MemOK
  <2> QED BY <1>1, <2>1, BlockIs, Zenon
<1>5. End(m, h) = h + 16 + C
  BY Zenon DEF End, HEADER_SIZE
<1> HIDE DEF C
<1>6. x.ptr >= h + 16
  BY <1>1, <1>2, <1>3 DEF Points, HEADER_SIZE
<1>7. malloc_usable_size(m, x.ptr) = saturating_sub(C, x.ptr - RawOf(m, x.ptr))
  BY Zenon DEF malloc_usable_size, C
<1>8. saturating_sub(C, x.ptr - RawOf(m, x.ptr)) = End(m, h) - x.ptr
  BY <1>1, <1>2, <1>3, <1>4, <1>5, <1>6, SMTT(30) DEF saturating_sub
<1>9. End(m, h) - x.ptr \in Nat /\ x.size <= End(m, h) - x.ptr
  BY <1>1, <1>2, <1>3, <1>4, <1>5
<1> QED BY <1>2, <1>7, <1>8, <1>9, Zenon

(* The bytes copied are enough, and there is room for them. *)
Copied(c) == c.need <= c.len /\ c.len <= c.src /\ c.len <= c.dst

(* The block of x has moved to k. *)
MovedTo(m, x, new, r, k) ==
    /\ r.ptr = k + HEADER_SIZE /\ x.ptr # r.ptr
    /\ MemOK(r.mem) /\ Keeps(m, r.mem, InUse(m) \ {HeaderOf(m, x.ptr)})
    /\ k \in InUse(r.mem) /\ k \notin InUse(m) /\ new <= Capacity(r.mem, k)
    /\ Copied(r.copy)

(* A move either finds a new block, or leaves all as it was. *)
LEMMA MoveGives ==
    ASSUME NEW m, MemOK(m), NEW x, PtrOK(m, x), NEW new \in Nat, NEW s \in Move(m, x, new)
    PROVE  \/ s = [mem |-> m, ptr |-> NULL, copy |-> NoCopy]
           \/ \E k \in Nat : MovedTo(m, x, new, s, k)
<1>1. PICK r \in malloc(m, new) :
         s = IF r.ptr = NULL THEN [mem |-> r.mem, ptr |-> NULL, copy |-> NoCopy]
             ELSE [mem  |-> free(r.mem, x.ptr), ptr |-> r.ptr,
                   copy |-> [len  |-> CopyLen(m, x.ptr, new), need |-> Min(x.size, new),
                             src  |-> malloc_usable_size(m, x.ptr),
                             dst  |-> malloc_usable_size(r.mem, r.ptr)]]
  BY Zenon DEF Move
<1>2. CASE r = Result(m, NULL)
  <2>1. r.ptr = NULL /\ r.mem = m
    BY <1>2 DEF Result
  <2> QED BY <1>1, <2>1, Zenon
<1>3. ASSUME NEW k \in Nat, r = Result(r.mem, k + HEADER_SIZE), Gives(m, r.mem, k, new)
      PROVE  MovedTo(m, x, new, s, k)
  <2> DEFINE l == r.mem
             h == HeaderOf(m, x.ptr)
             n == free(l, x.ptr)
             p == k + HEADER_SIZE
  <2>1. r.ptr = p /\ p # NULL /\ p \in Nat
    <3>0. Result(l, p).ptr = p
      BY Zenon DEF Result
    <3>1. r.ptr = p
      <4> HIDE DEF p
      <4> QED BY <1>3, <3>0, Zenon DEF p
    <3> QED BY <3>1 DEF HEADER_SIZE, NULL
  <2>2. /\ MemOK(l) /\ Keeps(m, l, InUse(m)) /\ k \in InUse(l)
        /\ k \notin InUse(m) /\ new <= Capacity(l, k)
    BY <1>3, Zenon DEF Gives
  <2>3. h \in InUse(m)
    BY Zenon DEF PtrOK
  <2>4. PtrOK(l, x) /\ HeaderOf(l, x.ptr) = h
    BY <2>2, <2>3, PtrKept, Zenon
  <2>5. h \in InUse(l) /\ k # h
    BY <2>2, <2>3, <2>4, Zenon DEF PtrOK
  <2>6. MemOK(n) /\ Keeps(l, n, InUse(l) \ {h})
    <3>1. HeaderOf(l, x.ptr) \in InUse(l)
      BY <2>4, <2>5, Zenon
    <3> QED BY <2>2, <2>4, <3>1, FreeKeeps, Zenon
  <2>7. k \in InUse(n) /\ new <= Capacity(n, k)
    BY <2>2, <2>5, <2>6, Zenon DEF Keeps, InUse
  <2>8. Keeps(m, n, InUse(m) \ {h})
    <3>1. Keeps(m, l, InUse(m) \ {h})
      BY <2>2, KeepsLess, Zenon
    <3>2. InUse(m) \ {h} \subseteq InUse(l) \ {h}
      BY <2>2, Zenon DEF Keeps, InUse
    <3>3. Keeps(l, n, InUse(m) \ {h})
      BY <2>6, <3>2, KeepsLess, Zenon
    <3> QED BY <3>1, <3>3, KeepsTwice, Zenon
  <2>9. HeaderOf(l, p) = k /\ RawOf(l, p) = p
    <3>1. Points(l, p, k) /\ k \in DOMAIN l.hdr
      BY <2>2, Zenon DEF Points, InUse
    <3> QED BY <2>1, <2>2, <3>1, Header, Zenon DEF HEADER_SIZE
  <2>10. x.ptr # p
    BY <2>4, <2>5, <2>9, Zenon
  <2>11. Capacity(l, k) \in Nat
    <3>1. k \in DOMAIN l.hdr /\ BlockOK(l, k)
      BY <2>2, Zenon DEF MemOK, InUse
    <3> QED BY <3>1, BlockIs, Zenon
  <2> DEFINE u == malloc_usable_size(m, x.ptr)
             v == malloc_usable_size(l, p)
             c == [len |-> CopyLen(m, x.ptr, new), need |-> Min(x.size, new), src |-> u, dst |-> v]
  <2>12. u \in Nat /\ x.size \in Nat /\ x.size <= u
    BY Usable, Zenon
  <2>13. v = Capacity(l, k)
    <3>1. v = saturating_sub(Capacity(l, k), p - p)
      BY <2>9, Zenon DEF malloc_usable_size
    <3> QED BY <2>1, <2>11, <3>1 DEF saturating_sub
  <2>14. CopyLen(m, x.ptr, new) = Min(u, new)
    BY Zenon DEF CopyLen, malloc_usable_size
  <2>15. Copied(c)
    <3>1. Min(x.size, new) <= Min(u, new) /\ Min(u, new) <= u /\ Min(u, new) <= v
      <4> HIDE DEF u, v
      <4> QED BY <2>2, <2>11, <2>12, <2>13 DEF Min
    <3>2. c.need = Min(x.size, new) /\ c.len = Min(u, new) /\ c.src = u /\ c.dst = v
      BY <2>14, Zenon
    <3> QED BY <3>1, <3>2, Zenon DEF Copied
  <2>16. s.mem = n /\ s.ptr = p /\ s.copy = c
    BY <1>1, <2>1, Zenon
  <2> HIDE DEF n, p, c
  <2> QED BY <2>6, <2>7, <2>8, <2>2, <2>10, <2>15, <2>16, ZenonT(30) DEF MovedTo, p
<1>4. \/ r = Result(m, NULL)
      \/ \E k \in Nat : r = Result(r.mem, k + HEADER_SIZE) /\ Gives(m, r.mem, k, new)
  BY MallocGives, Zenon
<1> QED BY <1>2, <1>3, <1>4, Zenon


(* The result r is a pointer to the block at k, in the place of x. *)
Replaces(m, x, new, r, k) ==
    /\ r.ptr = k + HEADER_SIZE
    /\ k \in InUse(r.mem) /\ k \notin InUse(m) \ {HeaderOf(m, x.ptr)}
    /\ new <= Capacity(r.mem, k)
    /\ Keeps(m, r.mem, InUse(m) \ {HeaderOf(m, x.ptr)})
    /\ new > 0 /\ x.ptr = r.ptr =>
          \A w \in r.mem.wiped \ m.wiped : Misses(w, k, k + HEADER_SIZE + new)

(* What a realloc of x comes to. *)
Reallocs(m, x, new, r) ==
    /\ MemOK(r.mem) /\ Copied(r.copy)
    /\ \/ /\ r.ptr = NULL
          /\ Keeps(m, r.mem, IF new = 0 THEN InUse(m) \ {HeaderOf(m, x.ptr)} ELSE InUse(m))
       \/ \E k \in Nat : Replaces(m, x, new, r, k)

(* Nothing is copied in place. *)
LEMMA NoneCopied == Copied(NoCopy)
BY DEF Copied, NoCopy

(* The pointer stays and its block changes. *)
LEMMA Stays ==
    ASSUME NEW m, NEW x, NEW new \in Nat, NEW h \in Nat, h = HeaderOf(m, x.ptr),
           x.ptr = h + HEADER_SIZE, NEW n, InPlace(m, n, h, new)
    PROVE  Reallocs(m, x, new, Stay(n, x))
<1> DEFINE r == Stay(n, x)
<1>1. r.mem = n /\ r.ptr = x.ptr /\ r.copy = NoCopy
  BY Zenon DEF Stay
<1> HIDE DEF r
<1>2. Replaces(m, x, new, r, h)
  BY <1>1, Zenon DEF Replaces, InPlace
<1>3. MemOK(r.mem) /\ Copied(r.copy)
  BY <1>1, NoneCopied, Zenon DEF InPlace
<1> QED BY <1>2, <1>3, Zenon DEF Reallocs, r

(* The block moves, or there is no other. *)
LEMMA Moves ==
    ASSUME NEW m, MemOK(m), NEW x, PtrOK(m, x), NEW new \in Nat, new # 0, NEW s \in Move(m, x, new)
    PROVE  Reallocs(m, x, new, s)
<1>1. CASE s = [mem |-> m, ptr |-> NULL, copy |-> NoCopy]
  <2>1. s.mem = m /\ s.ptr = NULL /\ s.copy = NoCopy
    BY <1>1, Zenon
  <2>2. Keeps(m, m, InUse(m))
    BY Zenon DEF Keeps, InUse
  <2> QED BY <2>1, <2>2, NoneCopied, Zenon DEF Reallocs
<1>2. ASSUME NEW k \in Nat, MovedTo(m, x, new, s, k)
      PROVE  Reallocs(m, x, new, s)
  <2>1. Replaces(m, x, new, s, k)
    BY <1>2, Zenon DEF Replaces, MovedTo
  <2> QED BY <1>2, <2>1, Zenon DEF Reallocs, MovedTo
<1> QED BY <1>1, <1>2, MoveGives, Zenon

(* The block moves after its growth in place has failed. *)
LEMMA MovesLate ==
    ASSUME NEW m, MemOK(m), NEW x, PtrOK(m, x), NEW l, MemOK(l), Keeps(m, l, InUse(m)),
           InUse(l) = InUse(m), l.wiped = m.wiped,
           NEW new \in Nat, new # 0, NEW s \in Move(l, x, new)
    PROVE  Reallocs(m, x, new, s)
<1>1. HeaderOf(m, x.ptr) \in InUse(m)
  BY Zenon DEF PtrOK
<1>2. PtrOK(l, x) /\ HeaderOf(l, x.ptr) = HeaderOf(m, x.ptr)
  BY <1>1, PtrKept, Zenon
<1>3. Reallocs(l, x, new, s)
  BY <1>2, Moves, Zenon
<1>4. ASSUME NEW H, H \subseteq InUse(m), Keeps(l, s.mem, H)
      PROVE  Keeps(m, s.mem, H)
  <2>1. Keeps(m, l, H)
    BY <1>4, KeepsLess, Zenon
  <2> QED BY <1>4, <2>1, KeepsTwice, Zenon
<1>5. CASE s.ptr = NULL /\ Keeps(l, s.mem, InUse(l))
  BY <1>3, <1>4, <1>5, Zenon DEF Reallocs
<1>6. ASSUME NEW k \in Nat, Replaces(l, x, new, s, k)
      PROVE  Reallocs(m, x, new, s)
  <2>1. Keeps(m, s.mem, InUse(m) \ {HeaderOf(m, x.ptr)})
    <3>1. Keeps(l, s.mem, InUse(m) \ {HeaderOf(m, x.ptr)})
      BY <1>2, <1>6, Zenon DEF Replaces
    <3> QED BY <1>4, <3>1, Zenon
  <2>2. Replaces(m, x, new, s, k)
    BY <1>2, <1>6, <2>1, ZenonT(30) DEF Replaces
  <2> QED BY <1>3, <2>2, Zenon DEF Reallocs
<1> QED BY <1>3, <1>5, <1>6, Zenon DEF Reallocs

(* A growth that does not take a block to beyond its pages fits. *)
LEMMA GrowFits ==
    ASSUME NEW m, MemOK(m), NEW x, NEW h \in InUse(m), NEW new \in Nat, new # 0,
           NEW r, r = Stay(GrowInPlace(m, h, new), x), ~Overgrown(m, r.mem)
    PROVE  Fits(h, new)
<1> DEFINE d == match_size_class(new)
           l == Take(m, GrowRun(m, h, new))
           n == GrowInPlace(m, h, new)
<1>1. IsMem(m) /\ h \in DOMAIN m.hdr /\ m.hdr[h] \in Headers
  BY Zenon DEF MemOK, InUse, BlockOK
<1>2. IsMem(l) /\ l.hdr = m.hdr
  BY <1>1, TakeIs, Zenon
<1>3. d \in Classes \cup {BIG}
  BY Wanted, Zenon
<1>4. n = Relabel(l, h, d, NewSize(new))
  BY Zenon DEF GrowInPlace
<1>5. r.mem = n
  BY Zenon DEF Stay
<1> HIDE DEF l, d, n
<1>6. DOMAIN n.hdr = DOMAIN m.hdr /\ n.hdr[h].class = d
  <2>1. h \in DOMAIN l.hdr /\ l.hdr[h] \in Headers
    BY <1>1, <1>2, Zenon
  <2>2. DOMAIN n.hdr = DOMAIN l.hdr /\ n.hdr[h].class = d
    BY <1>2, <1>3, <1>4, <2>1, RelabelIs
  <2> QED BY <1>2, <2>2, Zenon
<1>7. CASE m.hdr[h].class = BIG
  BY <1>7, Present, Zenon DEF Fits
<1>8. CASE m.hdr[h].class # BIG
  BY <1>1, <1>5, <1>6, <1>8, Zenon DEF Overgrown, Fits, d
<1> QED BY <1>7, <1>8, Zenon

(* A block with pages of its own is resized in place, or moves. *)
LEMMA InPlaceOrMoveOK ==
    ASSUME NEW m, MemOK(m), NEW x, PtrOK(m, x), NEW h \in InUse(m), h = HeaderOf(m, x.ptr),
           x.ptr = h + HEADER_SIZE, Alone(m, h), NEW new \in Nat, new # 0,
           m.hdr[h].class # BIG => match_size_class(new) # m.hdr[h].class,
           Capacity(m, h) = 0 => ~(Shrinkage(m, h, new) > 0),
           NEW r \in InPlaceOrMove(m, x, h, new), ~Overgrown(m, r.mem)
    PROVE  Reallocs(m, x, new, r)
<1>1. h \in Nat
  BY Present, Zenon
<1>2. Shrinkage(m, h, new) \in Int
  BY Kinds, Zenon
<1>3. CASE Shrinkage(m, h, new) = 0
  <2>1. r = Stay(Relabel(m, h, match_size_class(new), NewSize(new)), x)
    BY <1>3, Zenon DEF InPlaceOrMove
  <2>2. m.hdr[h].class = BIG /\ SameKind(m, h, new)
    BY <1>3, Kinds, ZenonT(30)
  <2>3. align_to(Capacity(m, h) + HEADER_SIZE, PAGE) = align_to(NewSize(new) + HEADER_SIZE, PAGE)
    <3>1. align_to(Capacity(m, h) + HEADER_SIZE, PAGE) - align_to(NewSize(new) + HEADER_SIZE, PAGE)
             = Shrinkage(m, h, new)
      BY <2>2, Kinds, Zenon
    <3>2. Capacity(m, h) \in Nat /\ NewSize(new) \in Nat
      BY Present, Wanted, Zenon
    <3>3. /\ align_to(Capacity(m, h) + HEADER_SIZE, PAGE) \in Nat
          /\ align_to(NewSize(new) + HEADER_SIZE, PAGE) \in Nat
      BY <3>2, Rounding, Zenon
    <3> QED BY <1>3, <3>1, <3>3
  <2>4. InPlace(m, Relabel(m, h, match_size_class(new), NewSize(new)), h, new)
    BY <2>2, <2>3, SameSizeOK, Zenon
  <2> QED BY <1>1, <2>1, <2>4, Stays, Zenon
<1>4. CASE Shrinkage(m, h, new) > 0
  <2>1. Shrinkage(m, h, new) # 0
    BY <1>4
  <2>2. PICK n \in ShrinkInPlace(m, h, new) : r = Stay(n, x)
    BY <1>4, <2>1, Zenon DEF InPlaceOrMove
  <2>3. InPlace(m, n, h, new)
    BY <1>4, ShrinkOK, Zenon
  <2> QED BY <1>1, <2>2, <2>3, Stays, ZenonT(30)
<1>5. CASE Shrinkage(m, h, new) < 0
  <2>1. Shrinkage(m, h, new) # 0 /\ ~(Shrinkage(m, h, new) > 0)
    BY <1>2, <1>5
  <2>2. CASE ~CanGrow(m, h, new)
    BY <2>1, <2>2, Moves, Zenon DEF InPlaceOrMove
  <2>3. CASE CanGrow(m, h, new) /\ r = Stay(GrowInPlace(m, h, new), x)
    <3>1. Fits(h, new)
      BY <2>3, GrowFits, Zenon
    <3>2. InPlace(m, GrowInPlace(m, h, new), h, new)
      BY <1>5, <2>3, <3>1, GrowOK, Zenon
    <3> QED BY <1>1, <2>3, <3>2, Stays, Zenon
  <2>4. CASE CanGrow(m, h, new) /\ r \in Move(GrowFailed(m, h, new), x, new)
    <3> DEFINE l == GrowFailed(m, h, new)
    <3>1. MemOK(l) /\ Keeps(m, l, InUse(m)) /\ InUse(l) = InUse(m) /\ l.wiped = m.wiped
      BY <2>4, GrowFailedOK, Zenon
    <3> HIDE DEF l
    <3>2. r \in Move(l, x, new)
      BY <2>4, Zenon DEF l
    <3> QED BY <3>1, <3>2, MovesLate, Zenon
  <2> QED BY <2>1, <2>2, <2>3, <2>4, ZenonT(30) DEF InPlaceOrMove
<1> QED BY <1>2, <1>3, <1>4, <1>5

(* realloc of a good pointer. *)
LEMMA ReallocOK ==
    ASSUME NEW m, MemOK(m), NEW x, PtrOK(m, x), NEW new \in Nat, ~StaysEmpty(m, x, new),
           NEW r \in realloc(m, x, new), ~Overgrown(m, r.mem)
    PROVE  Reallocs(m, x, new, r)
<1> DEFINE h == HeaderOf(m, x.ptr)
<1>1. h \in InUse(m) /\ h \in DOMAIN m.hdr /\ Points(m, x.ptr, h) /\ x.ptr \in Nat
  BY Zenon DEF PtrOK, InUse, Pointers
<1>2. RawOf(m, x.ptr) = h + HEADER_SIZE /\ h \in Nat
  BY <1>1, Header, Zenon DEF HEADER_SIZE
<1>3. CASE new > LIMIT
  <2>1. r = [mem |-> m, ptr |-> NULL, copy |-> NoCopy]
    BY <1>3, Zenon DEF realloc
  <2>2. r.mem = m /\ r.ptr = NULL /\ r.copy = NoCopy
    BY <2>1, Zenon
  <2>3. new # 0
    BY <1>3, AbiAssumption
  <2>4. Keeps(m, m, InUse(m))
    BY Zenon DEF Keeps, InUse
  <2> QED BY <2>2, <2>3, <2>4, NoneCopied, Zenon DEF Reallocs
<1>4. CASE ~(new > LIMIT) /\ new = 0
  <2> DEFINE n == free(m, x.ptr)
  <2>1. MemOK(n) /\ Keeps(m, n, InUse(m) \ {h})
    BY <1>1, FreeKeeps, Zenon
  <2> HIDE DEF n
  <2>2. PICK s \in malloc(n, 1) : r = [mem |-> s.mem, ptr |-> s.ptr, copy |-> NoCopy]
    BY <1>4, Zenon DEF realloc, n
  <2>3. r.mem = s.mem /\ r.ptr = s.ptr /\ r.copy = NoCopy
    BY <2>2, Zenon
  <2>4. CASE s = Result(n, NULL)
    <3>1. s.mem = n /\ s.ptr = NULL
      BY <2>4, Zenon DEF Result
    <3> QED BY <1>4, <2>1, <2>3, <3>1, NoneCopied, Zenon DEF Reallocs
  <2>5. ASSUME NEW k \in Nat, s = Result(s.mem, k + HEADER_SIZE), Gives(n, s.mem, k, 1)
        PROVE  Reallocs(m, x, new, r)
    <3>1. s.ptr = k + HEADER_SIZE
      <4>1. Result(s.mem, k + HEADER_SIZE).ptr = k + HEADER_SIZE
        BY Zenon DEF Result
      <4> QED BY <2>5, <4>1, Zenon
    <3>2. /\ MemOK(s.mem) /\ Keeps(n, s.mem, InUse(n)) /\ k \in InUse(s.mem)
          /\ k \notin InUse(n) /\ 1 <= Capacity(s.mem, k)
      BY <2>5, Zenon DEF Gives
    <3>3. InUse(m) \ {h} \subseteq InUse(n)
      BY <2>1, Zenon DEF Keeps, InUse
    <3>4. Keeps(m, s.mem, InUse(m) \ {h})
      <4>1. Keeps(n, s.mem, InUse(m) \ {h})
        BY <3>2, <3>3, KeepsLess, Zenon
      <4> QED BY <2>1, <4>1, KeepsTwice, Zenon
    <3>5. new <= Capacity(s.mem, k)
      <4>1. k \in DOMAIN s.mem.hdr /\ BlockOK(s.mem, k)
        BY <3>2, Zenon DEF MemOK, InUse
      <4>2. Capacity(s.mem, k) \in Nat
        BY <4>1, BlockIs, Zenon
      <4> QED BY <1>4, <4>2
    <3>6. ~(new > 0)
      BY <1>4
    <3>7. Replaces(m, x, new, r, k)
      BY <2>3, <3>1, <3>2, <3>3, <3>4, <3>5, <3>6, ZenonT(30) DEF Replaces
    <3> QED BY <2>3, <3>2, <3>7, NoneCopied, Zenon DEF Reallocs
  <2> QED BY <2>1, <2>4, <2>5, MallocGives
<1>5. CASE ~(new > LIMIT) /\ new # 0
  <2>1. Valid(m, h)
    BY <1>1, Zenon DEF Valid, InUse, MemOK, BlockOK
  <2>2. r \in Resize(m, x, new)
    BY <1>5, <2>1, Zenon DEF realloc
  <2>3. CASE x.ptr # RawOf(m, x.ptr)
    BY <1>5, <2>2, <2>3, Moves, ZenonT(30) DEF Resize
  <2>4. CASE x.ptr = RawOf(m, x.ptr)
    <3> DEFINE class == m.hdr[h].class
    <3>1. x.ptr = h + HEADER_SIZE
      BY <1>2, <2>4, Zenon
    <3>2. CASE class # BIG /\ class = match_size_class(new)
      <4>1. r = Stay(m, x)
        BY <2>2, <2>4, <3>2, Zenon DEF Resize
      <4>2. new <= Capacity(m, h)
        <5>1. Capacity(m, h) = SIZE_CLASSES[class]
          BY <3>2, Zenon DEF Capacity
        <5>2. new <= SIZE_CLASSES[match_size_class(new)]
          BY <1>5, <3>2, Wanted, Zenon
        <5> QED BY <3>2, <5>1, <5>2, Zenon
      <4>3. Keeps(m, m, InUse(m) \ {h})
        BY Zenon DEF Keeps, InUse
      <4>4. InPlace(m, m, h, new)
        BY <1>1, <4>2, <4>3, Zenon DEF InPlace
      <4> QED BY <1>2, <3>1, <4>1, <4>4, Stays, Zenon
    <3>3. CASE /\ ~(class # BIG /\ class = match_size_class(new))
               /\ (class = BIG \/ ITERATIONS[class] = 1)
      <4>1. new > 0
        BY <1>5
      <4>2. Capacity(m, h) = 0 => ~(Shrinkage(m, h, new) > 0)
        BY <1>1, <2>4, <4>1, Zenon DEF StaysEmpty
      <4>3. class # BIG => match_size_class(new) # class
        BY <3>3, Zenon
      <4>4. Alone(m, h)
        BY <1>1, <3>3, Present, Zenon
      <4>5. r \in InPlaceOrMove(m, x, h, new)
        BY <2>2, <2>4, <3>3, Zenon DEF Resize
      <4> QED BY <1>1, <1>5, <3>1, <4>2, <4>3, <4>4, <4>5, InPlaceOrMoveOK, ZenonT(30)
    <3>4. CASE /\ ~(class # BIG /\ class = match_size_class(new))
               /\ ~(class = BIG \/ ITERATIONS[class] = 1)
      <4>1. r \in Move(m, x, new)
        BY <2>2, <2>4, <3>4, Zenon DEF Resize
      <4> QED BY <1>5, <4>1, Moves, Zenon
    <3> QED BY <3>2, <3>3, <3>4, Zenon
  <2> QED BY <2>3, <2>4, Zenon
<1> QED BY <1>3, <1>4, <1>5, Zenon


-----------------------------------------------------------------------------
(* Alignment, calloc and trimming. *)

(* Bytes of one block lie beside all others. *)
LEMMA Inside ==
    ASSUME NEW m, MemOK(m), NEW h \in DOMAIN m.hdr, NEW from \in Nat, NEW to \in Nat,
           h <= from, to <= End(m, h)
    PROVE  \A k \in DOMAIN m.hdr \ {h} : to <= k \/ End(m, k) <= from
<1> SUFFICES ASSUME NEW k \in DOMAIN m.hdr \ {h}
             PROVE  to <= k \/ End(m, k) <= from
  BY Zenon
<1>1. (h < k => End(m, h) <= k) /\ (k < h => End(m, k) <= h) /\ BlockOK(m, h) /\ BlockOK(m, k)
  BY Zenon DEF MemOK, Apart
<1>2. PICK e \in Nat, f \in Nat : e = End(m, h) /\ f = End(m, k) /\ h \in Nat /\ k \in Nat /\ h # k
  BY <1>1, BlockIs, Zenon
<1>3. (h < k => e <= k) /\ (k < h => f <= h) /\ to <= e
  BY <1>1, <1>2, Zenon
<1>4. to <= k \/ f <= from
  BY <1>2, <1>3
<1> QED BY <1>2, <1>4, Zenon

(* A fresh block is as good when tags in it have changed. *)
LEMMA Retagged ==
    ASSUME NEW m, MemOK(m), NEW l, NEW h, NEW size, Gives(m, l, h, size),
           NEW n, IsMem(n), TagsClear(n), n.va = l.va, n.meta = l.meta, n.multi = l.multi,
           n.lost = l.lost, n.alive = l.alive, n.hdr = l.hdr, n.wiped = l.wiped,
           \A k \in DOMAIN l.hdr \ {h}, q \in DOMAIN l.tag :
              k + 32 <= q /\ q <= End(l, k) => q \in DOMAIN n.tag /\ n.tag[q] = l.tag[q]
    PROVE  Gives(m, n, h, size) /\ End(n, h) = End(l, h)
<1>1. /\ MemOK(l) /\ Keeps(m, l, InUse(m)) /\ h \in Nat /\ h \in InUse(l) /\ h \notin InUse(m)
      /\ size <= Capacity(l, h)
  BY Zenon DEF Gives
<1>2. \A k \in DOMAIN l.hdr : /\ l.hdr[k] \in Headers
                              /\ l.hdr[k].class = BIG => l.hdr[k].magic = "MAGIC"
  BY <1>1, Zenon DEF MemOK, BlockOK
<1>3. /\ MemOK(n)
      /\ \A k \in DOMAIN l.hdr : Capacity(n, k) = Capacity(l, k) /\ End(n, k) = End(l, k)
  BY <1>1, <1>2, SameBlocks, Zenon
<1>4. InUse(n) = InUse(l)
  BY Zenon DEF InUse
<1>5. InUse(m) \subseteq DOMAIN l.hdr \ {h}
  BY <1>1, Zenon DEF Keeps
<1>6. Keeps(l, n, InUse(m))
  BY <1>3, <1>5, Zenon DEF Keeps
<1>7. Keeps(m, n, InUse(m))
  BY <1>1, <1>6, KeepsTwice, Zenon
<1> QED BY <1>1, <1>3, <1>4, <1>7, ZenonT(30) DEF Gives, InUse

(* The pointer r.ptr to the fresh block at h. *)
Hands(m, r, h, size, align) ==
    /\ MemOK(r.mem) /\ Keeps(m, r.mem, InUse(m)) /\ h \in InUse(r.mem) /\ h \notin InUse(m)
    /\ r.ptr \in Nat /\ Points(r.mem, r.ptr, h)
    /\ r.ptr + size <= End(r.mem, h) /\ r.ptr % align = 0

(* The pointers of malloc are aligned to 16 bytes. *)
LEMMA GivesHands ==
    ASSUME NEW m, NEW n, NEW h, NEW size \in Nat, Gives(m, n, h, size)
    PROVE  Hands(m, Result(n, h + HEADER_SIZE), h, size, 16)
<1> DEFINE r == Result(n, h + HEADER_SIZE)
<1>1. r.mem = n /\ r.ptr = h + HEADER_SIZE
  BY Zenon DEF Result
<1>2. /\ MemOK(n) /\ Keeps(m, n, InUse(m)) /\ h \in InUse(n) /\ h \notin InUse(m)
      /\ size <= Capacity(n, h)
  BY Zenon DEF Gives
<1>3. BlockOK(n, h)
  BY <1>2, Zenon DEF MemOK, InUse
<1>4. h \in Nat /\ h % 16 = 0 /\ Capacity(n, h) \in Nat /\ End(n, h) = h + 16 + Capacity(n, h)
  BY <1>3, BlockIs, Zenon DEF BlockOK
<1>5. /\ h + HEADER_SIZE \in Nat /\ (h + HEADER_SIZE) % 16 = 0
      /\ h + HEADER_SIZE + size <= End(n, h)
  BY <1>2, <1>4 DEF HEADER_SIZE
<1>6. Points(n, h + HEADER_SIZE, h)
  BY Zenon DEF Points
<1> HIDE DEF r
<1> QED BY <1>1, <1>2, <1>5, <1>6, Zenon DEF Hands, r

(* The next multiple of a. *)
LEMMA NextMultiple ==
    ASSUME NEW s \in Nat, NEW a \in Nat \ {0}
    PROVE  /\ align_to(s, a) \in Nat /\ s <= align_to(s, a) /\ align_to(s, a) < s + a
           /\ align_to(s, a) % a = 0
<1>1. PICK k \in Nat : k = (s + a - 1) \div a
  OBVIOUS
<1>2. a * k <= s + a - 1 /\ s + a - 1 < a * k + a
  BY <1>1
<1>3. align_to(s, a) = k * a
  BY <1>1 DEF align_to
<1>4. (k * a) % a = 0
  OBVIOUS
<1> QED BY <1>2, <1>3, <1>4


(* A tag is written before an aligned pointer. *)
LEMMA TagIs ==
    ASSUME NEW m, IsMem(m), NEW raw, NEW p
    PROVE  LET n == Tag(m, raw, p)
           IN  /\ IsMem(n) /\ n.va = m.va /\ n.meta = m.meta /\ n.multi = m.multi /\ n.hdr = m.hdr
               /\ n.lost = m.lost /\ n.alive = m.alive /\ n.wiped = m.wiped
               /\ p \in DOMAIN n.tag /\ n.tag[p] = raw
               /\ DOMAIN n.tag \ {p} =
                     {q \in DOMAIN m.tag \ {p} : ~Overlap(q - TAG_SIZE, q, p - TAG_SIZE, p)}
               /\ \A q \in DOMAIN n.tag \ {p} : n.tag[q] = m.tag[q]
<1> DEFINE Q == {q \in DOMAIN m.tag : ~Overlap(q - TAG_SIZE, q, p - TAG_SIZE, p)}
           g == Put(Keep(m.tag, Q), p, raw)
           n == Tag(m, raw, p)
<1>1. n = [m EXCEPT !.tag = g]
  BY Zenon DEF Tag
<1>2. DOMAIN g = Q \cup {p} /\ g[p] = raw /\ \A q \in Q \ {p} : g[q] = m.tag[q]
  BY Zenon DEF Put, Keep
<1>3. Q \ {p} = {q \in DOMAIN m.tag \ {p} : ~Overlap(q - TAG_SIZE, q, p - TAG_SIZE, p)}
  BY Zenon
<1> HIDE DEF g, n, Q
<1>4. /\ IsMem(n) /\ n.va = m.va /\ n.meta = m.meta /\ n.multi = m.multi /\ n.hdr = m.hdr
      /\ n.lost = m.lost /\ n.alive = m.alive /\ n.wiped = m.wiped /\ n.tag = g
  BY <1>1, Zenon DEF IsMem
<1>5. DOMAIN n.tag \ {p} = Q \ {p}
  BY <1>2, <1>4, Zenon
<1> QED BY <1>2, <1>3, <1>4, <1>5, Zenon DEF n

(* A tag in a fresh block. *)
LEMMA TagGives ==
    ASSUME NEW m, MemOK(m), NEW l, NEW h, NEW size \in Nat, NEW a \in Nat \ {0},
           Gives(m, l, h, size + a + TAG_SIZE)
    PROVE  Hands(m, Result(Tag(l, h + HEADER_SIZE, Aligned(h + HEADER_SIZE, a)),
                           Aligned(h + HEADER_SIZE, a)), h, size, a)
<1> DEFINE raw == h + HEADER_SIZE
           p == Aligned(raw, a)
           n == Tag(l, raw, p)
           r == Result(n, p)
           from == p - TAG_SIZE
<1>1. /\ MemOK(l) /\ h \in InUse(l) /\ h \in DOMAIN l.hdr /\ h \notin InUse(m)
      /\ size + a + TAG_SIZE <= Capacity(l, h)
  BY Zenon DEF Gives, InUse
<1>2. IsMem(l) /\ BlockOK(l, h) /\ TagsClear(l) /\ \A k \in DOMAIN l.hdr : BlockOK(l, k)
  BY <1>1, Zenon DEF MemOK
<1>3. PICK e \in Nat : /\ e = End(l, h) /\ h \in Nat /\ Capacity(l, h) \in Nat
                       /\ e = h + 16 + Capacity(l, h)
  BY <1>2, BlockIs, Zenon
<1>4. TAG_SIZE = 16
  BY DEF TAG_SIZE, OFFSET_SIZE
<1>5. /\ p \in Nat /\ h + 32 <= p /\ p < h + 32 + a /\ p % a = 0
  <2>1. raw + TAG_SIZE = h + 32 /\ h + 32 \in Nat
    BY <1>3, <1>4 DEF HEADER_SIZE
  <2>2. p = align_to(h + 32, a)
    BY <2>1, Zenon DEF Aligned
  <2> QED BY <2>1, <2>2, NextMultiple, Zenon
<1> HIDE DEF p
<1>6. from \in Nat /\ h <= from /\ p <= e /\ p < e /\ p + size <= e
  BY <1>1, <1>3, <1>4, <1>5
<1> HIDE DEF from
<1>7. \A k \in DOMAIN l.hdr \ {h} : p <= k \/ End(l, k) <= from
  BY <1>1, <1>3, <1>5, <1>6, Inside, ZenonT(30)
<1>8. /\ IsMem(n) /\ n.va = l.va /\ n.meta = l.meta /\ n.multi = l.multi /\ n.hdr = l.hdr
      /\ n.lost = l.lost /\ n.alive = l.alive /\ n.wiped = l.wiped
      /\ p \in DOMAIN n.tag /\ n.tag[p] = raw
      /\ DOMAIN n.tag \ {p} = {q \in DOMAIN l.tag \ {p} : ~Overlap(q - TAG_SIZE, q, from, p)}
      /\ \A q \in DOMAIN n.tag \ {p} : n.tag[q] = l.tag[q]
  <2>1. IsMem(l)
    BY <1>2, Zenon
  <2>2. /\ IsMem(n) /\ n.va = l.va /\ n.meta = l.meta /\ n.multi = l.multi /\ n.hdr = l.hdr
        /\ n.lost = l.lost /\ n.alive = l.alive /\ n.wiped = l.wiped
        /\ p \in DOMAIN n.tag /\ n.tag[p] = raw
        /\ DOMAIN n.tag \ {p} =
              {q \in DOMAIN l.tag \ {p} : ~Overlap(q - TAG_SIZE, q, p - TAG_SIZE, p)}
        /\ \A q \in DOMAIN n.tag \ {p} : n.tag[q] = l.tag[q]
    <3> HIDE DEF raw
    <3> QED BY <2>1, TagIs
  <2> HIDE DEF n, raw
  <2> QED BY <2>2, Zenon DEF from
<1> HIDE DEF n, raw
<1>9. TagsClear(n)
  <2>1. \A k \in DOMAIN l.hdr : p <= k \/ k + 32 <= p
    <3> SUFFICES ASSUME NEW k \in DOMAIN l.hdr \ {h}
                 PROVE  p <= k \/ k + 32 <= p
      BY <1>5, Zenon
    <3>1. PICK f \in Nat : f = End(l, k) /\ k \in Nat /\ k + 16 <= f
      BY <1>2, BlockIs, Zenon
    <3>2. p <= k \/ f <= from
      BY <1>7, <3>1, Zenon
    <3> QED BY <1>4, <1>5, <1>6, <3>1, <3>2 DEF from
  <2>2. \A q \in DOMAIN n.tag \ {p} : q \in DOMAIN l.tag
    BY <1>8, Zenon
  <2> QED BY <1>2, <1>5, <1>8, <2>1, <2>2, ZenonT(30) DEF TagsClear
<1>10. ASSUME NEW k \in DOMAIN l.hdr \ {h}, NEW q \in DOMAIN l.tag, k + 32 <= q, q <= End(l, k)
       PROVE  q \in DOMAIN n.tag /\ n.tag[q] = l.tag[q]
  <2>1. q \in Nat
    BY <1>2, Zenon DEF TagsClear
  <2>2. ~Overlap(q - TAG_SIZE, q, from, p)
    BY <1>2, <1>5, <1>6, <1>7, <1>10, <2>1, BesideBlock, ZenonT(30)
  <2>3. q # p
    <3>1. ~(q - 16 < p /\ p - 16 < q)
      BY <1>4, <2>2 DEF Overlap, from
    <3> QED BY <1>5, <3>1
  <2> QED BY <1>8, <2>2, <2>3, Zenon
<1>11. Gives(m, n, h, size + a + TAG_SIZE) /\ End(n, h) = e
  <2> DEFINE total == size + a + TAG_SIZE
  <2>1. Gives(m, l, h, total)
    BY ZenonT(30)
  <2> HIDE DEF total
  <2>2. Gives(m, n, h, total) /\ End(n, h) = End(l, h)
    BY <1>8, <1>9, <1>10, <2>1, Retagged, SMTT(30)
  <2> QED BY <1>3, <2>2, Zenon DEF total
<1>12. /\ MemOK(n) /\ Keeps(m, n, InUse(m)) /\ h \in InUse(n)
  BY <1>11, Zenon DEF Gives
<1>13. Points(n, p, h)
  BY <1>5, <1>6, <1>8, <1>11, ZenonT(30) DEF Points, raw
<1>14. r.mem = n /\ r.ptr = p
  BY Zenon DEF Result
<1> HIDE DEF r
<1>15. Hands(m, r, h, size, a)
  BY <1>1, <1>5, <1>6, <1>11, <1>12, <1>13, <1>14, ZenonT(30) DEF Hands
<1> QED BY <1>15, Zenon DEF r, n, p, raw

(* posix_memalign. *)
LEMMA PosixMemalignGives ==
    ASSUME NEW m, MemOK(m), NEW a \in Nat, NEW size \in Nat, NEW r \in posix_memalign(m, a, size)
    PROVE  \/ r = Result(m, NULL)
           \/ a >= 8 /\ is_power_of_two(a) /\ \E h \in Nat : Hands(m, r, h, size, a)
<1> DEFINE total == total_requested(size, a)
<1>1. CASE a < 8 \/ ~is_power_of_two(a) \/ total >= WORD
  BY <1>1, Zenon DEF posix_memalign
<1>2. CASE ~(a < 8 \/ ~is_power_of_two(a) \/ total >= WORD)
  <2>1. PICK s \in malloc(m, total) :
           r = IF s.ptr = NULL THEN s
               ELSE Result(Tag(s.mem, s.ptr, Aligned(s.ptr, a)), Aligned(s.ptr, a))
    BY <1>2, Zenon DEF posix_memalign
  <2>2. total = size + a + TAG_SIZE
    BY Zenon DEF total_requested
  <2>3. total \in Nat /\ a >= 8 /\ a \in Nat \ {0}
    BY <1>2, <2>2 DEF TAG_SIZE, OFFSET_SIZE
  <2> HIDE DEF total
  <2>4. CASE s = Result(m, NULL)
    <3>1. s.ptr = NULL
      BY <2>4, Zenon DEF Result
    <3> QED BY <2>1, <2>4, <3>1, Zenon
  <2>5. ASSUME NEW h \in Nat, s = Result(s.mem, h + HEADER_SIZE), Gives(m, s.mem, h, total)
        PROVE  Hands(m, r, h, size, a)
    <3>1. s.ptr = h + HEADER_SIZE
      <4>1. Result(s.mem, h + HEADER_SIZE).ptr = h + HEADER_SIZE
        BY Zenon DEF Result
      <4> QED BY <2>5, <4>1, Zenon
    <3>2. s.ptr # NULL
      BY <3>1 DEF HEADER_SIZE, NULL
    <3>3. Gives(m, s.mem, h, size + a + TAG_SIZE)
      BY <2>2, <2>5, Zenon
    <3> QED BY <2>1, <2>3, <3>1, <3>2, <3>3, TagGives, Zenon
  <2>6. \/ s = Result(m, NULL)
        \/ \E h \in Nat : s = Result(s.mem, h + HEADER_SIZE) /\ Gives(m, s.mem, h, total)
    BY <2>3, MallocGives, Zenon
  <2> QED BY <1>2, <2>3, <2>4, <2>5, <2>6, ZenonT(30)
<1> QED BY <1>1, <1>2, Zenon

(* memalign takes 8 for less than that. *)
LEMMA MemalignGives ==
    ASSUME NEW m, MemOK(m), NEW a \in Nat, NEW size \in Nat, NEW r \in memalign(m, a, size)
    PROVE  \/ r = Result(m, NULL)
           \/ \E h \in Nat : /\ a >= 8 => is_power_of_two(a) /\ Hands(m, r, h, size, a)
                             /\ ~(a >= 8) => Hands(m, r, h, size, 8)
<1>1. CASE a < 8
  <2>1. r \in posix_memalign(m, 8, size) /\ ~(a >= 8) /\ 8 \in Nat
    BY <1>1 DEF memalign
  <2> QED BY <2>1, PosixMemalignGives, Zenon
<1>2. CASE ~(a < 8)
  <2>1. r \in posix_memalign(m, a, size) /\ a >= 8
    BY <1>2 DEF memalign
  <2> QED BY <2>1, PosixMemalignGives, Zenon
<1> QED BY <1>1, <1>2, Zenon

(* A multiple of 8 is one of every smaller power of two. *)
LEMMA WordAligned ==
    ASSUME NEW m, NEW r, NEW h, NEW size, NEW a \in Nat, Hands(m, r, h, size, 8),
           ~(a >= 8), is_power_of_two(a)
    PROVE  Hands(m, r, h, size, a) /\ a # 0
<1>1. r.ptr \in Nat /\ r.ptr % 8 = 0
  BY Zenon DEF Hands
<1>2. a \in {1, 2, 4}
  <2>1. a \in 0 .. 7
    OBVIOUS
  <2> QED BY <2>1, AbiAssumption, Zenon
<1>3. r.ptr % a = 0 /\ a # 0
  BY <1>1, <1>2
<1> QED BY <1>3, Zenon DEF Hands


(* The tags in the first bytes of a fresh block are wiped out. *)
Zeroed(l, from, to) ==
    [l EXCEPT !.tag = Keep(@, {p \in DOMAIN @ : ~Overlap(p - TAG_SIZE, p, from, to)})]

(* Nothing but these tags is touched. *)
LEMMA ZeroedIs ==
    ASSUME NEW l, IsMem(l), NEW from, NEW to
    PROVE  LET n == Zeroed(l, from, to)
           IN  /\ IsMem(n) /\ n.va = l.va /\ n.meta = l.meta /\ n.multi = l.multi /\ n.hdr = l.hdr
               /\ n.lost = l.lost /\ n.alive = l.alive /\ n.wiped = l.wiped
               /\ DOMAIN n.tag = {p \in DOMAIN l.tag : ~Overlap(p - TAG_SIZE, p, from, to)}
               /\ \A p \in DOMAIN n.tag : n.tag[p] = l.tag[p]
<1> DEFINE Q == {p \in DOMAIN l.tag : ~Overlap(p - TAG_SIZE, p, from, to)}
           g == Keep(l.tag, Q)
           n == Zeroed(l, from, to)
<1>1. n = [l EXCEPT !.tag = g]
  BY Zenon DEF Zeroed
<1>2. DOMAIN g = Q /\ \A p \in Q : g[p] = l.tag[p]
  BY Zenon DEF Keep
<1> HIDE DEF g
<1>3. /\ IsMem(n) /\ n.va = l.va /\ n.meta = l.meta /\ n.multi = l.multi /\ n.hdr = l.hdr
      /\ n.lost = l.lost /\ n.alive = l.alive /\ n.wiped = l.wiped /\ n.tag = g
  <2> HIDE DEF n
  <2> QED BY <1>1, Zenon DEF IsMem
<1> HIDE DEF n, Q
<1>4. /\ DOMAIN n.tag = Q /\ \A p \in DOMAIN n.tag : n.tag[p] = l.tag[p]
  BY <1>2, <1>3, Zenon
<1> QED BY <1>3, <1>4, Zenon DEF n, Q

(* calloc zeroes no more than the block. *)
LEMMA ZeroedGives ==
    ASSUME NEW m, MemOK(m), NEW l, NEW h, NEW size \in Nat, Gives(m, l, h, size),
           NEW to \in Nat, to <= End(l, h)
    PROVE  Gives(m, Zeroed(l, h + HEADER_SIZE, to), h, size)
<1> DEFINE from == h + HEADER_SIZE
           n == Zeroed(l, from, to)
<1>1. /\ MemOK(l) /\ h \in DOMAIN l.hdr /\ IsMem(l) /\ TagsClear(l)
      /\ \A k \in DOMAIN l.hdr : BlockOK(l, k)
  BY Zenon DEF Gives, InUse, MemOK
<1>2. h \in Nat
  BY <1>1, Zenon DEF BlockOK
<1>3. from \in Nat /\ h <= from
  BY <1>2 DEF HEADER_SIZE
<1>4. IsMem(l)
  BY <1>1, Zenon
<1> HIDE DEF from
<1>5. \A k \in DOMAIN l.hdr \ {h} : to <= k \/ End(l, k) <= from
  BY <1>1, <1>3, Inside, ZenonT(30)
<1>6. /\ IsMem(n) /\ n.va = l.va /\ n.meta = l.meta /\ n.multi = l.multi /\ n.hdr = l.hdr
      /\ n.lost = l.lost /\ n.alive = l.alive /\ n.wiped = l.wiped
      /\ DOMAIN n.tag = {p \in DOMAIN l.tag : ~Overlap(p - TAG_SIZE, p, from, to)}
      /\ \A p \in DOMAIN n.tag : n.tag[p] = l.tag[p]
  BY <1>4, ZeroedIs
<1> HIDE DEF n
<1>7. TagsClear(n)
  BY <1>1, <1>6, Zenon DEF TagsClear
<1>8. ASSUME NEW k \in DOMAIN l.hdr \ {h}, NEW q \in DOMAIN l.tag, k + 32 <= q, q <= End(l, k)
      PROVE  q \in DOMAIN n.tag /\ n.tag[q] = l.tag[q]
  <2>1. q \in Nat
    BY <1>1, Zenon DEF TagsClear
  <2>2. ~Overlap(q - TAG_SIZE, q, from, to)
    BY <1>1, <1>3, <1>5, <1>8, <2>1, BesideBlock, ZenonT(30)
  <2> QED BY <1>6, <2>2, Zenon
<1>9. Gives(m, n, h, size)
  BY <1>6, <1>7, <1>8, Retagged, SMTT(30)
<1> QED BY <1>9, Zenon DEF n, from

(* calloc. *)
LEMMA CallocGives ==
    ASSUME NEW m, MemOK(m), NEW n \in Nat, NEW size \in Nat, NEW r \in calloc(m, n, size)
    PROVE  r = Result(m, NULL) \/ \E h \in Nat : Hands(m, r, h, n * size, 16)
<1> DEFINE total == n * size
           effective == IF total = 0 THEN 1 ELSE total
           to(s) == s.ptr + Min(Capacity(s.mem, s.ptr - HEADER_SIZE), effective)
<1>1. total \in Nat
  OBVIOUS
<1> HIDE DEF total
<1>2. effective \in Nat /\ total <= effective
  BY <1>1
<1>3. CASE size > WORD \div 2 - 1 \/ total >= WORD
  BY <1>3, Zenon DEF calloc, total
<1>4. CASE ~(size > WORD \div 2 - 1 \/ total >= WORD)
  <2>1. PICK s \in malloc(m, effective) :
           r = IF s.ptr = NULL THEN s ELSE Result(Zeroed(s.mem, s.ptr, to(s)), s.ptr)
    BY <1>4, Zenon DEF calloc, total, Zeroed
  <2> HIDE DEF effective
  <2>2. CASE s = Result(m, NULL)
    <3>1. s.ptr = NULL
      BY <2>2, Zenon DEF Result
    <3> QED BY <2>1, <2>2, <3>1, ZenonT(30)
  <2>3. ASSUME NEW h \in Nat, s = Result(s.mem, h + HEADER_SIZE), Gives(m, s.mem, h, effective)
        PROVE  Hands(m, r, h, total, 16)
    <3> DEFINE l == s.mem
    <3>1. s.ptr = h + HEADER_SIZE
      <4>1. Result(s.mem, h + HEADER_SIZE).ptr = h + HEADER_SIZE
        BY Zenon DEF Result
      <4> QED BY <2>3, <4>1, Zenon
    <3>2. s.ptr # NULL /\ s.ptr - HEADER_SIZE = h
      BY <3>1 DEF HEADER_SIZE, NULL
    <3>3. BlockOK(l, h) /\ effective <= Capacity(l, h)
      BY <2>3, Zenon DEF Gives, MemOK, InUse
    <3>4. PICK e \in Nat : e = End(l, h) /\ Capacity(l, h) \in Nat /\ e = h + 16 + Capacity(l, h)
      BY <3>3, BlockIs, ZenonT(30)
    <3>5. to(s) = h + HEADER_SIZE + Min(Capacity(l, h), effective)
      BY <3>1, <3>2, ZenonT(30)
    <3>6. to(s) \in Nat /\ to(s) <= e
      BY <1>2, <3>4, <3>5 DEF HEADER_SIZE, Min
    <3> HIDE DEF to
    <3>7. Gives(m, Zeroed(l, h + HEADER_SIZE, to(s)), h, effective)
      BY <1>2, <2>3, <3>4, <3>6, ZeroedGives, ZenonT(30)
    <3>8. Gives(m, Zeroed(l, h + HEADER_SIZE, to(s)), h, total)
      <4>1. total <= Capacity(Zeroed(l, h + HEADER_SIZE, to(s)), h)
        <5> DEFINE z == Zeroed(l, h + HEADER_SIZE, to(s))
        <5>1. effective <= Capacity(z, h) /\ BlockOK(z, h)
          BY <3>7, Zenon DEF Gives, MemOK, InUse
        <5> HIDE DEF z
        <5>2. Capacity(z, h) \in Nat
          BY <5>1, BlockIs, ZenonT(30)
        <5>3. total <= Capacity(z, h)
          BY <1>1, <1>2, <5>1, <5>2, SMTT(30)
        <5> QED BY <5>3, Zenon DEF z
      <4> QED BY <3>7, <4>1, Zenon DEF Gives
    <3>9. r = Result(Zeroed(l, h + HEADER_SIZE, to(s)), h + HEADER_SIZE)
      BY <2>1, <3>1, <3>2, ZenonT(30)
    <3> QED BY <1>1, <3>8, <3>9, GivesHands, ZenonT(30)
  <2>4. \/ s = Result(m, NULL)
        \/ \E h \in Nat : s = Result(s.mem, h + HEADER_SIZE) /\ Gives(m, s.mem, h, effective)
    BY <1>2, MallocGives, Zenon
  <2> QED BY <2>2, <2>3, <2>4, Zenon DEF total
<1> QED BY <1>3, <1>4, Zenon

(* release_memory zeroes nothing but the payload of a cached block. *)
LEMMA ReleaseKeeps ==
    ASSUME NEW m, MemOK(m), NEW h \in DOMAIN m.hdr, m.hdr[h].magic # "MAGIC"
    PROVE  MemOK(release_memory(m, h)) /\ Keeps(m, release_memory(m, h), InUse(m))
<1> DEFINE from == align_to(h + HEADER_SIZE, PAGE)
           to == ((h + HEADER_SIZE + Capacity(m, h)) \div PAGE) * PAGE
           n == Discard(m, from, to)
<1>1. CASE from >= to
  <2>1. release_memory(m, h) = m
    BY <1>1, Zenon DEF release_memory
  <2>2. Keeps(m, m, InUse(m))
    BY Zenon DEF Keeps, InUse
  <2> QED BY <2>1, <2>2, Zenon
<1>2. CASE ~(from >= to)
  <2>1. release_memory(m, h) = n
    BY <1>2, Zenon DEF release_memory
  <2>2. IsMem(m) /\ TagsClear(m) /\ \A k \in DOMAIN m.hdr : BlockOK(m, k)
    BY Zenon DEF MemOK
  <2>3. PICK e \in Nat : /\ e = End(m, h) /\ h \in Nat /\ Capacity(m, h) \in Nat
                         /\ e = h + 16 + Capacity(m, h)
    BY <2>2, BlockIs, Zenon
  <2>4. from \in Nat /\ h + 16 <= from
    <3>1. from = ((h + 16 + 4096 - 1) \div 4096) * 4096
      BY DEF align_to, PAGE, HEADER_SIZE
    <3> QED BY <2>3, <3>1
  <2>5. to \in Nat /\ to <= e
    <3>1. to = (e \div 4096) * 4096
      BY <2>3 DEF PAGE, HEADER_SIZE
    <3> QED BY <2>3, <3>1
  <2>6. IsMem(m)
    BY <2>2, Zenon
  <2> HIDE DEF from, to
  <2>7. h <= from
    BY <2>3, <2>4
  <2>8. \A k \in DOMAIN m.hdr \ {h} : to <= k \/ End(m, k) <= from
    BY <2>3, <2>4, <2>5, <2>7, Inside, ZenonT(30)
  <2>9. /\ IsMem(n) /\ n.va = m.va /\ n.meta = m.meta /\ n.multi = m.multi
        /\ n.lost = m.lost /\ n.alive = m.alive
        /\ n.wiped = m.wiped \cup {<<from, to>>}
        /\ DOMAIN n.hdr = {k \in DOMAIN m.hdr : ~Overlap(k, k + HEADER_SIZE, from, to)}
        /\ \A k \in DOMAIN n.hdr : n.hdr[k] = m.hdr[k]
        /\ DOMAIN n.tag = {p \in DOMAIN m.tag : ~Overlap(p - TAG_SIZE, p, from, to)}
        /\ \A p \in DOMAIN n.tag : n.tag[p] = m.tag[p]
    BY <2>6, DiscardIs
  <2> HIDE DEF n
  <2>10. \A k \in DOMAIN m.hdr \ {h} :
            /\ ~Overlap(k, k + HEADER_SIZE, from, to)
            /\ \A q \in Nat : k + 32 <= q /\ q <= End(m, k) => ~Overlap(q - TAG_SIZE, q, from, to)
    BY <2>2, <2>4, <2>5, <2>8, BesideBlock, ZenonT(30)
  <2>11. ~Overlap(h, h + HEADER_SIZE, from, to)
    BY <2>3, <2>4 DEF Overlap, HEADER_SIZE
  <2>12. DOMAIN n.hdr = DOMAIN m.hdr /\ \A k \in DOMAIN m.hdr : n.hdr[k] = m.hdr[k]
    BY <2>9, <2>10, <2>11, Zenon
  <2>13. TagsClear(n)
    BY <2>2, <2>9, <2>12, Zenon DEF TagsClear
  <2>14. /\ MemOK(n)
         /\ \A k \in DOMAIN m.hdr : Capacity(n, k) = Capacity(m, k) /\ End(n, k) = End(m, k)
    <3>1. \A k \in DOMAIN m.hdr : /\ n.hdr[k] \in Headers /\ n.hdr[k].class = m.hdr[k].class
                                  /\ n.hdr[k].class = BIG => n.hdr[k].magic = "MAGIC"
      BY <2>2, <2>12, Zenon DEF BlockOK
    <3> QED BY <2>9, <2>12, <2>13, <3>1, SameBlocks, ZenonT(30)
  <2>15. h \notin InUse(m) /\ InUse(m) \subseteq DOMAIN m.hdr
    BY Zenon DEF InUse
  <2>16. Keeps(m, n, InUse(m))
    <3>1. \A k \in InUse(m), q \in DOMAIN m.tag :
             k + 32 <= q /\ q <= End(m, k) => q \in DOMAIN n.tag /\ n.tag[q] = m.tag[q]
      <4>1. \A q \in DOMAIN m.tag : q \in Nat
        BY <2>2, Zenon DEF TagsClear
      <4> QED BY <2>9, <2>10, <2>15, <4>1, Zenon
    <3>2. \A k \in InUse(m), w \in n.wiped \ m.wiped : Misses(w, k, End(m, k))
      <4>1. \A w \in n.wiped \ m.wiped : w = <<from, to>>
        BY <2>9, ZenonT(30)
      <4>2. <<from, to>>[1] = from /\ <<from, to>>[2] = to
        OBVIOUS
      <4> QED BY <2>4, <2>5, <2>8, <2>15, <4>1, <4>2, ZenonT(30) DEF Misses
    <3> QED BY <2>12, <2>14, <2>15, <3>1, <3>2, ZenonT(30) DEF Keeps
  <2> QED BY <2>1, <2>14, <2>16, ZenonT(30)
<1> QED BY <1>1, <1>2, Zenon


-----------------------------------------------------------------------------
(* The pointers of the program. *)

(* All pointers are good, and no two have the same block. *)
PtrsOK(m, S) ==
    /\ \A x \in S : PtrOK(m, x)
    /\ \A x, y \in S : HeaderOf(m, x.ptr) = HeaderOf(m, y.ptr) => x = y

(* Of a pointer of S that is one of T, nothing has been zeroed. *)
Untouched(n, S, T) ==
    \A x \in S, y \in T : x.ptr = y.ptr =>
       LET k == Min(x.size, y.size)
       IN  k > 0 => \A w \in n.wiped : ~Overlap(x.ptr, x.ptr + k, w[1], w[2])

(* A call that leads from m to n, and from the pointers of S to those of T. *)
CallOK(n, S, T) == MemOK(n) /\ PtrsOK(n, T) /\ Untouched(n, S, T)

(* Bytes beside the block of a pointer are not bytes of the pointer. *)
LEMMA MissesPtr ==
    ASSUME NEW h \in Nat, NEW p \in Nat, NEW k \in Nat, NEW e \in Nat, NEW w, Misses(w, h, e),
           h <= p, p + k <= e
    PROVE  ~Overlap(p, p + k, w[1], w[2])
<1>1. w[1] \in Nat /\ w[2] \in Nat /\ (w[2] <= h \/ e <= w[1])
  BY Zenon DEF Misses
<1> QED BY <1>1 DEF Overlap

(* What is known of a good pointer. *)
LEMMA PtrIs ==
    ASSUME NEW m, MemOK(m), NEW x, PtrOK(m, x)
    PROVE  LET h == HeaderOf(m, x.ptr)
           IN  /\ h \in InUse(m) /\ h \in Nat /\ x.ptr \in Nat /\ x.size \in Nat
               /\ End(m, h) \in Nat
               /\ h <= x.ptr /\ x.ptr + x.size <= End(m, h) /\ RawOf(m, x.ptr) = h + 16
<1> DEFINE h == HeaderOf(m, x.ptr)
<1>1. h \in InUse(m) /\ Points(m, x.ptr, h) /\ x.ptr + x.size <= End(m, h)
  BY Zenon DEF PtrOK
<1>2. x.ptr \in Nat /\ x.size \in Nat
  BY Zenon DEF PtrOK, Pointers
<1>3. h \in DOMAIN m.hdr /\ BlockOK(m, h)
  BY <1>1, Zenon DEF MemOK, InUse
<1>4. h \in Nat /\ End(m, h) \in Nat
  BY <1>3, BlockIs, ZenonT(30)
<1>5. h <= x.ptr
  BY <1>1, <1>2, <1>4 DEF Points, HEADER_SIZE
<1>6. RawOf(m, x.ptr) = h + 16
  BY <1>1, <1>2, <1>3, Header, Zenon
<1> QED BY <1>1, <1>2, <1>4, <1>5, <1>6, ZenonT(30)

(* The pointers whose blocks a call keeps. *)
LEMMA KeptPtrs ==
    ASSUME NEW m, MemOK(m), m.wiped = {}, NEW S, PtrsOK(m, S), NEW n, MemOK(n),
           NEW H, Keeps(m, n, H), NEW T, T \subseteq S, \A x \in T : HeaderOf(m, x.ptr) \in H
    PROVE  /\ CallOK(n, S, T)
           /\ \A x \in T : HeaderOf(n, x.ptr) = HeaderOf(m, x.ptr)
<1>1. \A x \in T : PtrOK(n, x) /\ HeaderOf(n, x.ptr) = HeaderOf(m, x.ptr)
  BY PtrKept, Zenon DEF PtrsOK
<1>2. PtrsOK(n, T)
  BY <1>1, Zenon DEF PtrsOK
<1>3. Untouched(n, S, T)
  <2> SUFFICES ASSUME NEW x \in S, NEW y \in T, x.ptr = y.ptr, Min(x.size, y.size) > 0,
                      NEW w \in n.wiped
               PROVE  ~Overlap(x.ptr, x.ptr + Min(x.size, y.size), w[1], w[2])
    BY Zenon DEF Untouched
  <2>1. x = y
    BY Zenon DEF PtrsOK
  <2> DEFINE h == HeaderOf(m, x.ptr)
  <2>2. /\ h \in Nat /\ x.ptr \in Nat /\ x.size \in Nat /\ End(m, h) \in Nat
        /\ h <= x.ptr /\ x.ptr + x.size <= End(m, h)
    BY PtrIs, Zenon DEF PtrsOK
  <2>3. Min(x.size, y.size) = x.size
    BY <2>1, <2>2 DEF Min
  <2>4. Misses(w, h, End(m, h))
    BY <2>1, Zenon DEF Keeps
  <2> HIDE DEF h
  <2> QED BY <2>2, <2>3, <2>4, MissesPtr, ZenonT(30)
<1> QED BY <1>1, <1>2, <1>3, Zenon DEF CallOK

(* A pointer more, to another block. *)
LEMMA OneMore ==
    ASSUME NEW n, NEW S, NEW T, CallOK(n, S, T), NEW y, PtrOK(n, y),
           \A x \in T : HeaderOf(n, x.ptr) # HeaderOf(n, y.ptr), Untouched(n, S, {y})
    PROVE  CallOK(n, S, T \cup {y})
<1>1. PtrsOK(n, T \cup {y})
  BY Zenon DEF CallOK, PtrsOK
<1>2. Untouched(n, S, T \cup {y})
  BY Zenon DEF CallOK, Untouched
<1> QED BY <1>1, <1>2, Zenon DEF CallOK

(* A call that fails. *)
LEMMA Failed ==
    ASSUME NEW m, MemOK(m), m.wiped = {}, NEW S, PtrsOK(m, S)
    PROVE  CallOK(m, S, S)
<1>1. Keeps(m, m, InUse(m))
  BY Zenon DEF Keeps, InUse
<1>2. \A x \in S : HeaderOf(m, x.ptr) \in InUse(m)
  BY Zenon DEF PtrsOK, PtrOK
<1> QED BY <1>1, <1>2, KeptPtrs, Zenon

(* A call that returns a fresh block. *)
LEMMA Gains ==
    ASSUME NEW m, MemOK(m), m.wiped = {}, NEW S, PtrsOK(m, S), NEW r, NEW h \in Nat,
           NEW size \in Nat, NEW align \in Nat \ {0}, Hands(m, r, h, size, align)
    PROVE  CallOK(r.mem, S, S \cup {[ptr |-> r.ptr, size |-> size, align |-> align]})
<1> DEFINE y == [ptr |-> r.ptr, size |-> size, align |-> align]
           n == r.mem
<1>1. /\ MemOK(n) /\ Keeps(m, n, InUse(m)) /\ h \in InUse(n) /\ h \notin InUse(m)
      /\ r.ptr \in Nat /\ Points(n, r.ptr, h)
      /\ r.ptr + size <= End(n, h) /\ r.ptr % align = 0
  BY Zenon DEF Hands
<1>2. y.ptr = r.ptr /\ y.size = size /\ y.align = align /\ y \in Pointers
  BY <1>1, Zenon DEF Pointers
<1> HIDE DEF y
<1>3. HeaderOf(n, y.ptr) = h
  <2>1. h \in DOMAIN n.hdr
    BY <1>1, Zenon DEF InUse
  <2> QED BY <1>1, <1>2, <2>1, Header, ZenonT(30)
<1>4. PtrOK(n, y)
  BY <1>1, <1>2, <1>3, Zenon DEF PtrOK
<1>5. \A x \in S : HeaderOf(m, x.ptr) \in InUse(m)
  BY ZenonT(30) DEF PtrsOK, PtrOK
<1>6. CallOK(n, S, S) /\ \A x \in S : HeaderOf(n, x.ptr) = HeaderOf(m, x.ptr)
  <2>1. S \subseteq S /\ MemOK(n) /\ Keeps(m, n, InUse(m))
    BY <1>1, Zenon
  <2> QED BY <1>5, <2>1, KeptPtrs
<1>7. \A x \in S : HeaderOf(n, x.ptr) # HeaderOf(n, y.ptr)
  BY <1>1, <1>3, <1>5, <1>6, ZenonT(30)
<1>8. Untouched(n, S, {y})
  <2> SUFFICES ASSUME NEW x \in S, x.ptr = y.ptr
               PROVE  FALSE
    BY Zenon DEF Untouched
  <2> QED BY <1>7, Zenon
<1>9. CallOK(n, S, S \cup {y})
  BY <1>4, <1>6, <1>7, <1>8, OneMore, ZenonT(30)
<1> QED BY <1>9, Zenon DEF y

(* free. *)
LEMMA Drops ==
    ASSUME NEW m, MemOK(m), m.wiped = {}, NEW S, PtrsOK(m, S), NEW x \in S
    PROVE  CallOK(free(m, x.ptr), S, S \ {x})
<1> DEFINE h == HeaderOf(m, x.ptr)
           n == free(m, x.ptr)
<1>1. h \in InUse(m)
  BY Zenon DEF PtrsOK, PtrOK
<1>2. MemOK(n) /\ Keeps(m, n, InUse(m) \ {h})
  BY <1>1, FreeKeeps, Zenon
<1>3. \A y \in S \ {x} : HeaderOf(m, y.ptr) \in InUse(m) \ {h}
  BY Zenon DEF PtrsOK, PtrOK
<1> HIDE DEF n, h
<1>4. S \ {x} \subseteq S
  BY Zenon
<1>5. CallOK(n, S, S \ {x})
  BY <1>2, <1>3, <1>4, KeptPtrs, ZenonT(30)
<1> QED BY <1>5, Zenon DEF n

(* realloc. *)
LEMMA Exchanges ==
    ASSUME NEW m, MemOK(m), m.wiped = {}, NEW S, PtrsOK(m, S), NEW x \in S, NEW new \in Nat,
           NEW r, Reallocs(m, x, new, r)
    PROVE  CallOK(r.mem, S,
                  IF r.ptr = NULL
                  THEN IF new = 0 THEN S \ {x} ELSE S
                  ELSE (S \ {x}) \cup {[ptr |-> r.ptr, size |-> new, align |-> 16]})
<1> DEFINE h == HeaderOf(m, x.ptr)
           n == r.mem
<1>1. MemOK(n)
  BY Zenon DEF Reallocs
<1>2. /\ \A y \in S : HeaderOf(m, y.ptr) \in InUse(m)
      /\ \A y \in S \ {x} : HeaderOf(m, y.ptr) \in InUse(m) \ {h}
  BY Zenon DEF PtrsOK, PtrOK
<1>3. S \ {x} \subseteq S
  BY Zenon
<1>4. CASE r.ptr = NULL /\ Keeps(m, n, IF new = 0 THEN InUse(m) \ {h} ELSE InUse(m))
  <2>1. CASE new = 0
    <3>1. Keeps(m, n, InUse(m) \ {h})
      BY <1>4, <2>1, Zenon
    <3> HIDE DEF h
    <3>2. CallOK(n, S, S \ {x})
      BY <1>1, <1>2, <1>3, <3>1, KeptPtrs, ZenonT(30)
    <3> QED BY <1>4, <2>1, <3>2, Zenon
  <2>2. CASE new # 0
    <3>1. Keeps(m, n, InUse(m))
      BY <1>4, <2>2, Zenon
    <3>2. CallOK(n, S, S)
      BY <1>1, <1>2, <3>1, KeptPtrs, ZenonT(30)
    <3> QED BY <1>4, <2>2, <3>2, Zenon
  <2> QED BY <2>1, <2>2, Zenon
<1>5. ASSUME NEW k \in Nat, Replaces(m, x, new, r, k)
      PROVE  /\ r.ptr # NULL
             /\ CallOK(n, S, (S \ {x}) \cup {[ptr |-> r.ptr, size |-> new, align |-> 16]})
  <2> DEFINE y == [ptr |-> r.ptr, size |-> new, align |-> 16]
             p == k + HEADER_SIZE
  <2>1. /\ r.ptr = p /\ k \in InUse(n) /\ k \notin InUse(m) \ {h}
        /\ new <= Capacity(n, k) /\ Keeps(m, n, InUse(m) \ {h})
        /\ new > 0 /\ x.ptr = r.ptr =>
              \A w \in n.wiped \ m.wiped : Misses(w, k, k + HEADER_SIZE + new)
    BY <1>5, Zenon DEF Replaces
  <2>2. k \in DOMAIN n.hdr /\ BlockOK(n, k)
    BY <1>1, <2>1, Zenon DEF MemOK, InUse
  <2>3. /\ k % 16 = 0 /\ Capacity(n, k) \in Nat /\ End(n, k) = k + 16 + Capacity(n, k)
    BY <2>2, BlockIs, ZenonT(30) DEF BlockOK
  <2>4. p \in Nat /\ p # NULL /\ p % 16 = 0 /\ p + new <= End(n, k) /\ k <= p /\ p + new \in Nat
    BY <2>1, <2>3 DEF HEADER_SIZE, NULL
  <2>5. 16 \in Nat \ {0}
    OBVIOUS
  <2>6. y.ptr = p /\ y.size = new /\ y.align = 16 /\ y \in Pointers
    BY <2>1, <2>4, <2>5, Zenon DEF Pointers
  <2> HIDE DEF y
  <2>7. HeaderOf(n, p) = k /\ Points(n, p, k)
    <3>1. Points(n, p, k)
      BY Zenon DEF Points
    <3> QED BY <1>1, <2>2, <2>4, <3>1, Header, ZenonT(30)
  <2>8. PtrOK(n, y)
    BY <2>1, <2>4, <2>6, <2>7, ZenonT(30) DEF PtrOK
  <2>9. /\ CallOK(n, S, S \ {x})
        /\ \A z \in S \ {x} : HeaderOf(n, z.ptr) = HeaderOf(m, z.ptr)
    <3> DEFINE H == InUse(m) \ {h}
               T == S \ {x}
    <3>1. Keeps(m, n, H) /\ (\A z \in T : HeaderOf(m, z.ptr) \in H) /\ T \subseteq S
      BY <1>2, <1>3, <2>1, ZenonT(30)
    <3> HIDE DEF H, T
    <3>2. CallOK(n, S, T) /\ \A z \in T : HeaderOf(n, z.ptr) = HeaderOf(m, z.ptr)
      BY <1>1, <3>1, KeptPtrs
    <3> QED BY <3>2, Zenon DEF T
  <2>10. \A z \in S \ {x} : HeaderOf(n, z.ptr) # HeaderOf(n, y.ptr)
    BY <1>2, <2>1, <2>6, <2>7, <2>9, ZenonT(30)
  <2>11. Untouched(n, S, {y})
    <3> SUFFICES ASSUME NEW z \in S, z.ptr = y.ptr, Min(z.size, y.size) > 0, NEW w \in n.wiped
                 PROVE  ~Overlap(z.ptr, z.ptr + Min(z.size, y.size), w[1], w[2])
      BY Zenon DEF Untouched
    <3>1. z = x
      BY <2>10, Zenon
    <3>2. z.size \in Nat
      BY Zenon DEF PtrsOK, PtrOK, Pointers
    <3> DEFINE i == Min(z.size, y.size)
    <3>3. i \in Nat /\ i <= new /\ new > 0
      BY <2>6, <3>2 DEF Min
    <3>4. Misses(w, k, p + new)
      BY <2>1, <2>6, <3>1, <3>3, ZenonT(30)
    <3> HIDE DEF i
    <3>5. p + i <= p + new
      BY <2>4, <3>3
    <3> HIDE DEF p
    <3>6. ~Overlap(p, p + i, w[1], w[2])
      BY <2>4, <3>3, <3>4, <3>5, MissesPtr, ZenonT(30)
    <3> QED BY <2>6, <3>6, Zenon DEF i
  <2>12. CallOK(n, S, (S \ {x}) \cup {y})
    BY <2>8, <2>9, <2>10, <2>11, OneMore, ZenonT(30)
  <2> QED BY <2>1, <2>4, <2>12, ZenonT(30) DEF y
<1> QED BY <1>4, <1>5, Zenon DEF Reallocs


-----------------------------------------------------------------------------
(* The calls. *)

(* A call starts with good memory and good pointers. *)
LEMMA NowOK ==
    ASSUME IInv
    PROVE  /\ MemOK(Now) /\ Now.wiped = {} /\ PtrsOK(Now, ptrs)
           /\ Now.hdr = mem.hdr /\ Now.meta = mem.meta /\ Now.tag = mem.tag
<1> DEFINE n == Now
<1>1. MemOK(mem) /\ IsMem(mem) /\ TagsClear(mem) /\ \A k \in DOMAIN mem.hdr : BlockOK(mem, k)
  BY Zenon DEF IInv, MemOK
<1>2. /\ IsMem(n) /\ n.va = mem.va /\ n.meta = mem.meta /\ n.multi = mem.multi /\ n.hdr = mem.hdr
      /\ n.lost = mem.lost /\ n.alive = mem.alive /\ n.wiped = {} /\ n.tag = mem.tag
  <2>1. IsMem(mem) /\ n = [mem EXCEPT !.wiped = {}]
    BY <1>1, Zenon DEF Now
  <2> HIDE DEF n
  <2> QED BY <2>1, Zenon DEF IsMem
<1> HIDE DEF n
<1>3. TagsClear(n)
  BY <1>1, <1>2, Zenon DEF TagsClear
<1>4. /\ MemOK(n)
      /\ \A k \in DOMAIN mem.hdr : Capacity(n, k) = Capacity(mem, k) /\ End(n, k) = End(mem, k)
  <2>1. \A k \in DOMAIN mem.hdr : /\ n.hdr[k] \in Headers /\ n.hdr[k].class = mem.hdr[k].class
                                  /\ n.hdr[k].class = BIG => n.hdr[k].magic = "MAGIC"
    BY <1>1, <1>2, Zenon DEF BlockOK
  <2> QED BY <1>1, <1>2, <1>3, <2>1, SameBlocks, ZenonT(30)
<1>5. Keeps(mem, n, InUse(mem))
  <2>1. \A k \in InUse(mem) : /\ k \in DOMAIN n.hdr /\ n.hdr[k] = mem.hdr[k]
                              /\ Capacity(n, k) = Capacity(mem, k)
    BY <1>2, <1>4, Zenon DEF InUse
  <2> QED BY <1>2, <2>1, Zenon DEF Keeps
<1>6. \A x \in ptrs : PtrOK(mem, x) /\ HeaderOf(mem, x.ptr) \in InUse(mem)
  BY Zenon DEF IInv, PtrOK
<1>7. \A x \in ptrs : PtrOK(n, x) /\ HeaderOf(n, x.ptr) = HeaderOf(mem, x.ptr)
  BY <1>4, <1>5, <1>6, PtrKept, ZenonT(30)
<1>8. PtrsOK(n, ptrs)
  BY <1>7, Zenon DEF PtrsOK, IInv
<1> QED BY <1>2, <1>4, <1>8, Zenon DEF n

(* What every call does. *)
StepOK == CallOK(mem', ptrs, ptrs') /\ CopyFits'

(* An allocation that fails, or returns a fresh block. *)
LEMMA GainOK ==
    ASSUME IInv, NEW r, NEW size \in Nat, NEW align, Gain(r, size, align),
           \/ r = Result(Now, NULL)
           \/ align \in Nat \ {0} /\ \E h \in Nat : Hands(Now, r, h, size, align)
    PROVE  StepOK
<1>1. MemOK(Now) /\ Now.wiped = {} /\ PtrsOK(Now, ptrs)
  BY NowOK, Zenon
<1>2. CopyFits'
  BY NoneCopied, Zenon DEF Gain, CopyFits, Copied
<1>3. CASE r = Result(Now, NULL)
  <2>1. r.mem = Now /\ r.ptr = NULL
    BY <1>3, Zenon DEF Result
  <2>2. mem' = Now /\ ptrs' = ptrs
    BY <2>1, Zenon DEF Gain
  <2>3. CallOK(Now, ptrs, ptrs)
    BY <1>1, Failed, Zenon
  <2> QED BY <1>2, <2>2, <2>3, Zenon DEF StepOK
<1>4. ASSUME align \in Nat \ {0}, NEW h \in Nat, Hands(Now, r, h, size, align)
      PROVE  StepOK
  <2>1. r.ptr # NULL
    <3>1. r.ptr \in Nat
      BY <1>4, Zenon DEF Hands
    <3> QED BY <3>1 DEF NULL
  <2>2. mem' = r.mem /\ ptrs' = ptrs \cup {[ptr |-> r.ptr, size |-> size, align |-> align]}
    BY <2>1, Zenon DEF Gain
  <2>3. CallOK(r.mem, ptrs, ptrs \cup {[ptr |-> r.ptr, size |-> size, align |-> align]})
    BY <1>1, <1>4, Gains, ZenonT(30)
  <2> QED BY <1>2, <2>2, <2>3, ZenonT(30) DEF StepOK
<1> QED BY <1>3, <1>4, Zenon

(* The six calls that allocate. *)
LEMMA AllocateOK ==
    ASSUME IInv, Allocate
    PROVE  StepOK
<1>1. MemOK(Now)
  BY NowOK, Zenon
<1>2. Sizes \subseteq Nat /\ Counts \subseteq Nat /\ Alignments \subseteq Nat
  BY AbiAssumption
<1>3. 16 \in Nat \ {0} /\ 8 \in Nat \ {0} /\ PAGE \in Nat \ {0} /\ PAGE >= 8
  BY DEF PAGE
<1>4. ASSUME NEW a \in Nat, NEW size \in Nat, NEW r \in memalign(Now, a, size),
             r # Result(Now, NULL)
      PROVE  LET align == IF is_power_of_two(a) THEN a ELSE 8
             IN  align \in Nat \ {0} /\ \E h \in Nat : Hands(Now, r, h, size, align)
  <2>1. PICK h \in Nat : /\ a >= 8 => is_power_of_two(a) /\ Hands(Now, r, h, size, a)
                         /\ ~(a >= 8) => Hands(Now, r, h, size, 8)
    BY <1>1, <1>4, MemalignGives, Zenon
  <2>2. CASE a >= 8
    <3>1. a \in Nat \ {0}
      BY <2>2
    <3> QED BY <2>1, <2>2, <3>1, ZenonT(30)
  <2>3. CASE ~(a >= 8) /\ is_power_of_two(a)
    <3>1. Hands(Now, r, h, size, a) /\ a # 0
      BY <2>1, <2>3, WordAligned, ZenonT(30)
    <3> QED BY <2>3, <3>1, Zenon
  <2>4. CASE ~(a >= 8) /\ ~is_power_of_two(a)
    BY <1>3, <2>1, <2>4, ZenonT(30)
  <2> QED BY <2>2, <2>3, <2>4, Zenon
<1>5. CASE Malloc
  <2>0. PICK size \in Nat : \E r \in malloc(Now, size) : Gain(r, size, 16)
    BY <1>2, <1>5, Zenon DEF Malloc
  <2>1. PICK r \in malloc(Now, size) : Gain(r, size, 16)
    BY <2>0, Zenon
  <2>2. ASSUME NEW h \in Nat, r = Result(r.mem, h + HEADER_SIZE), Gives(Now, r.mem, h, size)
        PROVE  Hands(Now, r, h, size, 16)
    <3>1. Hands(Now, Result(r.mem, h + HEADER_SIZE), h, size, 16)
      BY <2>2, GivesHands, Zenon
    <3> QED BY <2>2, <3>1, Zenon
  <2>3. r = Result(Now, NULL) \/ \E h \in Nat : Hands(Now, r, h, size, 16)
    BY <1>1, <2>2, MallocGives, ZenonT(30)
  <2> QED BY <1>3, <2>1, <2>3, GainOK, ZenonT(30)
<1>6. CASE Calloc
  <2>0. PICK n \in Nat, size \in Nat : \E r \in calloc(Now, n, size) : Gain(r, n * size, 16)
    BY <1>2, <1>6, Zenon DEF Calloc
  <2>1. PICK r \in calloc(Now, n, size) : Gain(r, n * size, 16)
    BY <2>0, Zenon
  <2>2. r = Result(Now, NULL) \/ \E h \in Nat : Hands(Now, r, h, n * size, 16)
    BY <1>1, CallocGives, Zenon
  <2>3. n * size \in Nat
    OBVIOUS
  <2> QED BY <1>3, <2>1, <2>2, <2>3, GainOK, ZenonT(30)
<1>7. CASE PosixMemalign
  <2>0. PICK a \in Nat, size \in Nat : \E r \in posix_memalign(Now, a, size) : Gain(r, size, a)
    BY <1>2, <1>7, Zenon DEF PosixMemalign
  <2>1. PICK r \in posix_memalign(Now, a, size) : Gain(r, size, a)
    BY <2>0, Zenon
  <2>2. r = Result(Now, NULL) \/ (a >= 8 /\ \E h \in Nat : Hands(Now, r, h, size, a))
    BY <1>1, PosixMemalignGives, Zenon
  <2>3. a >= 8 => a \in Nat \ {0}
    OBVIOUS
  <2> QED BY <2>1, <2>2, <2>3, GainOK, ZenonT(30)
<1>8. CASE Memalign
  <2>0. PICK a \in Nat, size \in Nat : \E r \in memalign(Now, a, size) :
           Gain(r, size, IF is_power_of_two(a) THEN a ELSE 8)
    BY <1>2, <1>8, Zenon DEF Memalign
  <2>1. PICK r \in memalign(Now, a, size) : Gain(r, size, IF is_power_of_two(a) THEN a ELSE 8)
    BY <2>0, Zenon
  <2> DEFINE align == IF is_power_of_two(a) THEN a ELSE 8
  <2>2. \/ r = Result(Now, NULL)
        \/ align \in Nat \ {0} /\ \E h \in Nat : Hands(Now, r, h, size, align)
    BY <1>4, Zenon
  <2>3. Gain(r, size, align)
    BY <2>1, Zenon
  <2> HIDE DEF align
  <2> QED BY <2>2, <2>3, GainOK, Zenon
<1>9. CASE AlignedAlloc
  <2>0. PICK a \in Nat, size \in Nat : \E r \in aligned_alloc(Now, a, size) : Gain(r, size, a)
    BY <1>2, <1>9, Zenon DEF AlignedAlloc
  <2>1. PICK r \in aligned_alloc(Now, a, size) : Gain(r, size, a)
    BY <2>0, Zenon
  <2>2. r = Result(Now, NULL) \/ (is_power_of_two(a) /\ r \in memalign(Now, a, size))
    BY Zenon DEF aligned_alloc
  <2>3. \/ r = Result(Now, NULL)
        \/ a \in Nat \ {0} /\ \E h \in Nat : Hands(Now, r, h, size, a)
    BY <1>4, <2>2, Zenon
  <2> QED BY <2>1, <2>3, GainOK, ZenonT(30)
<1>10. CASE Valloc
  <2>0. PICK size \in Nat : \E r \in memalign(Now, PAGE, size) : Gain(r, size, PAGE)
    BY <1>2, <1>10, Zenon DEF Valloc
  <2>1. PICK r \in memalign(Now, PAGE, size) : Gain(r, size, PAGE)
    BY <2>0, Zenon
  <2>2. r = Result(Now, NULL) \/ \E h \in Nat : Hands(Now, r, h, size, PAGE)
    BY <1>1, <1>3, MemalignGives, Zenon
  <2> QED BY <1>3, <2>1, <2>2, GainOK, Zenon
<1> QED BY <1>5, <1>6, <1>7, <1>8, <1>9, <1>10, ZenonT(30) DEF Allocate

(* realloc and reallocarray, within bounds. *)
LEMMA ReallocStep ==
    ASSUME IInv, NEW x \in ptrs, NEW new \in Nat, Within(x, new), Realloc(x, new)
    PROVE  StepOK
<1>1. /\ MemOK(Now) /\ Now.wiped = {} /\ PtrsOK(Now, ptrs)
      /\ Now.hdr = mem.hdr /\ Now.meta = mem.meta /\ Now.tag = mem.tag
  BY NowOK, Zenon
<1>2. PICK r \in realloc(Now, x, new) :
         /\ mem' = r.mem
         /\ ptrs' = IF r.ptr = NULL
                    THEN IF new = 0 THEN ptrs \ {x} ELSE ptrs
                    ELSE (ptrs \ {x}) \cup {[ptr |-> r.ptr, size |-> new, align |-> 16]}
         /\ copy' = r.copy
  BY Zenon DEF Realloc
<1>3. RawOf(Now, x.ptr) = RawOf(mem, x.ptr) /\ HeaderOf(Now, x.ptr) = HeaderOf(mem, x.ptr)
  BY <1>1, Zenon DEF RawOf, HeaderOf
<1>4. \A h : Capacity(Now, h) = Capacity(mem, h)
  BY <1>1, Zenon DEF Capacity
<1>5. ~StaysEmpty(Now, x, new) /\ ~Overgrown(Now, r.mem)
  <2>1. \A h : Shrinkage(Now, h, new) = Shrinkage(mem, h, new)
    BY <1>1, <1>4, Zenon DEF Shrinkage
  <2>2. ~StaysEmpty(Now, x, new)
    BY <1>1, <1>3, <1>4, <2>1, ZenonT(30) DEF Within, StaysEmpty
  <2>3. ~Overgrown(Now, r.mem)
    BY <1>1, <1>2, ZenonT(30) DEF Within, Overgrown
  <2> QED BY <2>2, <2>3, Zenon
<1>6. PtrOK(Now, x)
  BY <1>1, Zenon DEF PtrsOK
<1>7. Reallocs(Now, x, new, r)
  BY <1>1, <1>5, <1>6, ReallocOK, ZenonT(30)
<1>8. CallOK(r.mem, ptrs, IF r.ptr = NULL
                          THEN IF new = 0 THEN ptrs \ {x} ELSE ptrs
                          ELSE (ptrs \ {x}) \cup {[ptr |-> r.ptr, size |-> new, align |-> 16]})
  BY <1>1, <1>7, Exchanges, ZenonT(30)
<1>9. CallOK(mem', ptrs, ptrs')
  BY <1>2, <1>8, Zenon
<1>10. CopyFits'
  BY <1>2, <1>7, Zenon DEF Reallocs, Copied, CopyFits
<1> QED BY <1>9, <1>10, Zenon DEF StepOK

(* Every call leads from good memory and pointers to good ones. *)
LEMMA CallsOK ==
    ASSUME IInv, WithinNext
    PROVE  StepOK
<1>1. MemOK(Now) /\ Now.wiped = {} /\ PtrsOK(Now, ptrs) /\ Now.hdr = mem.hdr
  BY NowOK, Zenon
<1>2. Sizes \subseteq Nat /\ Counts \subseteq Nat
  BY AbiAssumption
<1>3. CASE Allocate
  BY <1>3, AllocateOK, Zenon
<1>4. CASE Free
  <2>1. PICK x \in ptrs : mem' = free(Now, x.ptr) /\ ptrs' = ptrs \ {x} /\ copy' = NoCopy
    BY <1>4, Zenon DEF Free
  <2>2. CallOK(free(Now, x.ptr), ptrs, ptrs \ {x})
    BY <1>1, Drops, Zenon
  <2>3. CopyFits'
    BY <2>1, NoneCopied, Zenon DEF CopyFits, Copied
  <2> QED BY <2>1, <2>2, <2>3, Zenon DEF StepOK
<1>5. CASE Trim
  <2>0. PICK c \in Classes : \E h \in Cached(mem, c) : mem' = release_memory(Now, h)
    BY <1>5 DEF Trim
  <2>1. PICK h \in Cached(mem, c) : mem' = release_memory(Now, h)
    BY <2>0, Zenon
  <2>2. ptrs' = ptrs /\ copy' = NoCopy
    BY <1>5 DEF Trim
  <2>3. h \in DOMAIN Now.hdr /\ Now.hdr[h].magic # "MAGIC"
    <3>1. h \in DOMAIN mem.hdr /\ mem.hdr[h] = [class |-> c, magic |-> "FREED"]
      BY Zenon DEF Cached
    <3>2. mem.hdr[h].magic = "FREED" /\ "FREED" # "MAGIC"
      BY <3>1
    <3> QED BY <1>1, <3>1, <3>2, Zenon
  <2>4. MemOK(mem') /\ Keeps(Now, mem', InUse(Now))
    BY <1>1, <2>1, <2>3, ReleaseKeeps, ZenonT(30)
  <2>5. CallOK(mem', ptrs, ptrs)
    <3>1. \A x \in ptrs : HeaderOf(Now, x.ptr) \in InUse(Now)
      BY <1>1, Zenon DEF PtrsOK, PtrOK
    <3> QED BY <1>1, <2>4, <3>1, KeptPtrs, ZenonT(30)
  <2>6. CopyFits'
    BY <2>2, NoneCopied, Zenon DEF CopyFits, Copied
  <2> QED BY <2>2, <2>5, <2>6, Zenon DEF StepOK
<1>6. ASSUME NEW x \in ptrs, NEW new \in Sizes, Within(x, new), Realloc(x, new)
      PROVE  StepOK
  BY <1>2, <1>6, ReallocStep, Zenon
<1>7. ASSUME NEW x \in ptrs, NEW size \in Sizes, NEW n \in Counts,
             Within(x, n * size), Reallocarray(x, n, size)
      PROVE  StepOK
  <2>1. n * size \in Nat
    BY <1>2
  <2>2. Realloc(x, n * size)
    BY <1>7, Zenon DEF Reallocarray
  <2> QED BY <1>7, <2>1, <2>2, ReallocStep, ZenonT(30)
<1> QED BY <1>3, <1>4, <1>5, <1>6, <1>7, ZenonT(30) DEF WithinNext


-----------------------------------------------------------------------------
(* The theorems. *)

(* Init has no block and no pointer. *)
LEMMA InitOK ==
    ASSUME Init
    PROVE  IInv
<1>1. /\ IsMem(mem) /\ mem.va = {} /\ DOMAIN mem.hdr = {} /\ DOMAIN mem.meta = {}
      /\ DOMAIN mem.tag = {} /\ mem.multi = {} /\ mem.lost = {} /\ mem.alive = TRUE
      /\ ptrs = {} /\ copy = NoCopy
  BY DEF Init, IsMem
<1>2. Apart(mem) /\ Accounted(mem) /\ TagsClear(mem)
  BY <1>1, Zenon DEF Apart, Accounted, TagsClear
<1>3. MemOK(mem)
  BY <1>1, <1>2, Zenon DEF MemOK
<1>4. CopyFits
  BY <1>1, NoneCopied, Zenon DEF CopyFits, Copied
<1> QED BY <1>1, <1>3, <1>4, ZenonT(30) DEF IInv

(* A call, or nothing, takes good memory and pointers to good ones. *)
LEMMA NextOK ==
    ASSUME IInv, [WithinNext]_vars
    PROVE  IInv'
<1>1. CASE WithinNext
  <2>1. MemOK(mem') /\ PtrsOK(mem', ptrs') /\ CopyFits'
    BY <1>1, CallsOK, ZenonT(30) DEF StepOK, CallOK
  <2> QED BY <2>1, Zenon DEF IInv, PtrsOK
<1>2. CASE UNCHANGED vars
  BY <1>2 DEF vars, IInv, CopyFits
<1> QED BY <1>1, <1>2, Zenon

(* As long as no block outgrows its region to become a big one in place,   *)
(* and no empty block is resized to less than its page, the memory and the *)
(* pointers stay as IInv has them: blocks lie on marked pages that they    *)
(* share only with blocks of their region, no tag lies on a header, and    *)
(* every pointer leads to a block in use that no other pointer leads to.   *)
THEOREM Inductive == WithinSpec => []IInv
<1>1. Init => IInv
  BY InitOK, Zenon
<1>2. IInv /\ [WithinNext]_vars => IInv'
  BY NextOK, Zenon
<1> QED BY <1>1, <1>2, PTL DEF WithinSpec

(* The headers and table entries of all blocks, and the marked pages, are  *)
(* in the address space, and no call has aborted over a pointer that it    *)
(* does not accept.                                                        *)
THEOREM AbiTypes == WithinSpec => []TypeOK
<1>1. ASSUME IInv PROVE TypeOK
  <2>1. MemOK(mem) /\ Accounted(mem) /\ mem.alive
    BY <1>1, Zenon DEF IInv, MemOK
  <2>2. NPages \in Nat
    BY AbiAssumption, Zenon
  <2>3. ASSUME NEW h \in DOMAIN mem.hdr
        PROVE  h \in Nat /\ h < NPages * PAGE /\ mem.hdr[h].class \in Classes \cup {BIG}
    <3>1. BlockOK(mem, h) /\ Foot(mem, h) \subseteq Pages
      BY <2>1, Zenon DEF MemOK, Accounted
    <3>2. h \in Nat /\ h \div PAGE \in Pages
      BY <3>1, BlockIs, Zenon
    <3>3. h < NPages * PAGE
      <4>1. h \div 4096 <= NPages - 1
        BY <2>2, <3>2 DEF Pages, PAGE
      <4> QED BY <2>2, <3>2, <4>1 DEF PAGE
    <3> QED BY <3>1, <3>2, <3>3, Zenon DEF BlockOK, Headers
  <2>4. \A x \in ptrs : x.ptr \in Nat
    BY <1>1, Zenon DEF IInv, PtrOK, Pointers
  <2> QED BY <2>1, <2>3, <2>4, ZenonT(30) DEF TypeOK, Accounted
<1> QED BY <1>1, Inductive, PTL

(* No byte is part of two blocks, whatever was carved, resized in place,   *)
(* freed and trimmed before.                                               *)
THEOREM BlocksStayDisjoint == WithinSpec => []BlocksDisjoint
<1>1. ASSUME IInv PROVE BlocksDisjoint
  BY <1>1, Zenon DEF IInv, MemOK, Apart, End, BlocksDisjoint
<1> QED BY <1>1, Inductive, PTL

(* free accepts every pointer the program holds; it is aligned as asked    *)
(* for, its bytes are usable and on marked pages, and its block is its own. *)
THEOREM PointersStayGood == WithinSpec => []PointersGood
<1>1. ASSUME IInv PROVE PointersGood
  <2>1. MemOK(mem) /\ Accounted(mem) /\ mem.alive
    BY <1>1, Zenon DEF IInv, MemOK
  <2>2. ASSUME NEW x \in ptrs
        PROVE  Good(x)
    <3> DEFINE h == HeaderOf(mem, x.ptr)
    <3>1. PtrOK(mem, x)
      BY <1>1, Zenon DEF IInv
    <3>2. h \in DOMAIN mem.hdr /\ mem.hdr[h].magic = "MAGIC" /\ BlockOK(mem, h)
      BY <2>1, <3>1, Zenon DEF PtrOK, InUse, MemOK
    <3>3. Valid(mem, h)
      BY <3>2, Zenon DEF Valid, BlockOK
    <3>4. x.ptr % x.align = 0
      BY <3>1, Zenon DEF PtrOK
    <3>5. malloc_usable_size(mem, x.ptr) >= x.size
      <4>1. /\ malloc_usable_size(mem, x.ptr) \in Nat /\ x.size \in Nat
            /\ x.size <= malloc_usable_size(mem, x.ptr)
        BY <2>1, <3>1, Usable, Zenon
      <4> QED BY <4>1
    <3>6. OnMarkedPages(x)
      <4>1. PICK e \in Nat : /\ e = End(mem, h) /\ h \in Nat /\ x.ptr \in Nat /\ x.size \in Nat
                             /\ h <= x.ptr /\ x.ptr + x.size <= e /\ RawOf(mem, x.ptr) = h + 16
        BY <2>1, <3>1, PtrIs, ZenonT(30)
      <4>2. h + 16 <= x.ptr
        BY <3>1, <4>1 DEF PtrOK, Points, HEADER_SIZE
      <4> DEFINE f == x.ptr + x.size
      <4>3. f \in Nat /\ 0 < f /\ f <= e
        BY <4>1, <4>2
      <4> HIDE DEF f, h
      <4>4. Span(x.ptr, f) \subseteq Span(h, e)
        BY <4>1, <4>3, SpanPart, Zenon
      <4>5. Span(h, e) \subseteq mem.va
        BY <2>1, <3>2, <4>1, Zenon DEF Foot, Accounted
      <4>6. Span(x.ptr, f) \subseteq mem.va
        BY <4>4, <4>5, Zenon
      <4>7. x.ptr + x.size - 1 = f - 1
        BY <4>1 DEF f
      <4> QED BY <4>6, <4>7, Zenon DEF OnMarkedPages, Span
    <3>7. \A y \in ptrs : h = HeaderOf(mem, y.ptr) => x = y
      BY <1>1, Zenon DEF IInv
    <3> QED BY <3>3, <3>4, <3>5, <3>6, <3>7, ZenonT(30) DEF Good
  <2> QED BY <2>1, <2>2, Zenon DEF PointersGood
<1> QED BY <1>1, Inductive, PTL

(* A realloc that moves copies all the program may have stored, from within *)
(* the old block to within the new one.  WithinSpec matters here: a block  *)
(* of malloc(0) that stays empty when it is resized holds data that a      *)
(* later move does not copy.                                               *)
THEOREM CopiesFit == WithinSpec => []CopyFits
<1>1. IInv => CopyFits
  BY Zenon DEF IInv
<1> QED BY <1>1, Inductive, PTL

(* Every page marked in the VA bitmap belongs to a block or to a region of *)
(* several, but for those that the code leaks: the pages of a growth that  *)
(* mprotect refused to a block of a size class.                            *)
THEOREM PagesAreAccounted == WithinSpec => []PagesAccounted
<1>1. ASSUME IInv PROVE PagesAccounted
  <2>1. Accounted(mem) /\ \A h \in DOMAIN mem.hdr : BlockOK(mem, h)
    BY <1>1, Zenon DEF IInv, MemOK
  <2>2. ASSUME NEW h \in DOMAIN mem.hdr
        PROVE  BlockPages(h) = Foot(mem, h)
    <3>1. h \in Nat /\ Capacity(mem, h) \in Nat
      BY <2>1, BlockIs, ZenonT(30)
    <3>2. h + HEADER_SIZE + Capacity(mem, h) - 1 = End(mem, h) - 1
      BY <3>1 DEF End, HEADER_SIZE
    <3> QED BY <3>2, Zenon DEF BlockPages, Foot, Span
  <2> DEFINE U == UNION {BlockPages(h) : h \in DOMAIN mem.hdr}
  <2>3. \A p : p \in U <=> \E h \in DOMAIN mem.hdr : p \in Foot(mem, h)
    BY <2>2, Zenon
  <2> HIDE DEF U
  <2>4. U \subseteq mem.va /\ mem.multi \subseteq mem.va /\ mem.lost \subseteq mem.va
    BY <2>1, <2>3, Zenon DEF Accounted
  <2>5. \A p \in mem.va : p \in U \/ p \in mem.multi \/ p \in mem.lost
    BY <2>1, <2>3, Zenon DEF Accounted
  <2>6. mem.va = U \cup mem.multi \cup mem.lost
    BY <2>4, <2>5, Zenon
  <2> QED BY <2>6, Zenon DEF PagesAccounted, U
<1> QED BY <1>1, Inductive, PTL

(* No call zeroes a byte of a pointer that survives it: not big_free, not  *)
(* a shrinking realloc, not trimming and not the mapping of a region.      *)
THEOREM DataIsKept == WithinSpec => DataKept
<1> DEFINE A == \A x \in ptrs, y \in ptrs' : x.ptr = y.ptr =>
                   LET n == Min(x.size, y.size)
                   IN  n > 0 => \A w \in mem'.wiped : ~Overlap(x.ptr, x.ptr + n, w[1], w[2])
<1>1. IInv /\ [WithinNext]_vars => [A]_vars
  <2> SUFFICES ASSUME IInv, WithinNext
               PROVE  A
    BY Zenon
  <2>1. Untouched(mem', ptrs, ptrs')
    BY CallsOK, Zenon DEF StepOK, CallOK
  <2> QED BY <2>1, Zenon DEF Untouched
<1>2. WithinSpec => [][A]_vars
  <2> HIDE DEF A
  <2> QED BY <1>1, Inductive, PTL DEF WithinSpec
<1> QED BY <1>2, Zenon DEF DataKept


=============================================================================
