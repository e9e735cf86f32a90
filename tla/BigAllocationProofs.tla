------------------------- MODULE BigAllocationProofs -------------------------
(***************************************************************************)
(* Proofs about big allocations, for any number of threads and pages and   *)
(* any sizes: without OX_FORCE_THP the blocks of the program stay usable,  *)
(* nobody dies and nothing leaks, whichever system calls fail.             *)
(***************************************************************************)
EXTENDS BigAllocation, TLAPS

-----------------------------------------------------------------------------
(* The invariant. *)

Locs == [size : Nat, addr : 0 .. NPages, total : Nat, old : Blocks \cup {NoBlock}]

Typed ==
    /\ va \subseteq Pages
    /\ prot \in [Pages -> {"none", "rw"}]
    /\ hdr \in [Pages -> {"zero", "MAGIC"}]
    /\ DOMAIN meta \subseteq Pages /\ \A p \in DOMAIN meta : meta[p] \in Sizes
    /\ live \subseteq Blocks
    /\ pc \in [Threads -> PCs]
    /\ loc \in [Threads -> Locs]

(* The pages of a block of size s at address a, and of the block that the  *)
(* table has at a.                                                         *)
Run(a, s) == PagesOf(a, total_size(s))

Recorded(a) == Run(a, meta[a])

(* Pages taken and not registered, or no longer. *)
Bare == {"commit", "header", "register", "wipe", "protect", "release"}

(* Pages of a block that is registered. *)
Named == {"copy", "check", "remove"}

(* The pages of t's call, beside those of the program's block at hand. *)
At(t) ==
    IF pc[t] \in Bare THEN PagesOf(loc[t].addr, loc[t].total)
    ELSE IF pc[t] \in Named THEN Recorded(loc[t].addr) ELSE {}

(* The pages of the program's block at hand. *)
Old(t) ==
    IF loc[t].old = NoBlock THEN {}
    ELSE IF pc[t] \in {"record", "grown"} THEN Run(loc[t].old.addr, loc[t].size)
    ELSE Recorded(loc[t].old.addr)

Mine(t) == At(t) \cup Old(t)

(* The entries of the table that t is busy with. *)
Keys(t) ==
    {a \in DOMAIN meta : \/ loc[t].old # NoBlock /\ a = loc[t].old.addr
                         \/ pc[t] \in Named /\ a = loc[t].addr}

Open(S) == \A p \in S : prot[p] = "rw"

Sound(b) ==
    /\ b \in Blocks /\ b.addr \in DOMAIN meta /\ meta[b.addr] >= b.size
    /\ hdr[b.addr] = "MAGIC"

BlockOK(b) == Sound(b) /\ Open(Recorded(b.addr))

(* The program's block at hand is as it was, but for a tail that is being  *)
(* cut off.                                                                *)
OldOK(t) ==
    LET l == loc[t]
    IN  l.old # NoBlock =>
            /\ Sound(l.old)
            /\ IF pc[t] \in {"record", "shrunk", "cut"} THEN Open(Run(l.old.addr, l.size))
               ELSE Open(Recorded(l.old.addr))

(* So is the block that is being made or freed. *)
NewOK(t) ==
    LET l == loc[t]
    IN  /\ pc[t] \in {"reserve", "commit", "header", "register"} => l.total = total_size(l.size)
        /\ pc[t] \in {"header", "register", "wipe"} => Open(PagesOf(l.addr, l.total))
        /\ pc[t] \in {"wipe", "protect", "release"} => \E s \in Sizes : l.total = total_size(s)
        /\ pc[t] = "register" => hdr[l.addr] = "MAGIC"
        /\ pc[t] \in Named => /\ l.addr \in DOMAIN meta /\ hdr[l.addr] = "MAGIC"
                              /\ Open(Recorded(l.addr))
        /\ pc[t] = "copy" => meta[l.addr] = l.size

(* The tail that realloc cuts off or adds. *)
TailOK(t) ==
    LET l == loc[t]
        m == meta[l.old.addr]
    IN  /\ pc[t] \in {"shrunk", "cut"} =>
              /\ total_size(l.size) < total_size(m)
              /\ l.addr = l.old.addr + total_size(l.size) \div PAGE
              /\ l.total = total_size(m) - total_size(l.size)
        /\ pc[t] = "grown" =>
              /\ total_size(m) < total_size(l.size)
              /\ l.addr = l.old.addr + total_size(m) \div PAGE
              /\ l.total = total_size(l.size) - total_size(m)

ThreadOK(t) ==
    /\ pc[t] # "dead"
    /\ pc[t] = "idle" => loc[t].old = NoBlock
    /\ pc[t] \in {"usable", "validate", "resize", "record", "shrunk", "cut", "grown", "copy"}
          => loc[t].old # NoBlock
    /\ pc[t] \notin {"idle", "check", "remove", "wipe", "protect", "release", "usable"}
          => loc[t].size \in Sizes
    /\ OldOK(t) /\ NewOK(t) /\ TailOK(t)
    /\ At(t) \cap Old(t) = {}

(* No page belongs to two blocks, or to a block and a call. *)
Apart ==
    /\ \A b, c \in live : b # c => Recorded(b.addr) \cap Recorded(c.addr) = {}
    /\ \A b \in live, t \in Threads : Recorded(b.addr) \cap Mine(t) = {}
    /\ \A t, u \in Threads : t # u => Mine(t) \cap Mine(u) = {}

(* The pages marked in the VA bitmap are those of blocks and of calls, and *)
(* so are the entries of the table.                                        *)
Accounted ==
    /\ \A b \in live : Recorded(b.addr) \subseteq va
    /\ \A t \in Threads : Mine(t) \subseteq va
    /\ \A p \in va : (\E b \in live : p \in Recorded(b.addr)) \/ \E t \in Threads : p \in Mine(t)
    /\ \A a \in DOMAIN meta : (\E b \in live : a = b.addr) \/ \E t \in Threads : a \in Keys(t)

IInv ==
    /\ ~OX_FORCE_THP
    /\ Typed /\ Apart /\ Accounted
    /\ \A b \in live : BlockOK(b)
    /\ \A t \in Threads : ThreadOK(t)

-----------------------------------------------------------------------------
(* Sizes and pages. *)

(* The number of pages of a block. *)
Num(s) == total_size(s) \div PAGE

(* Rounding up to pages. *)
LEMMA Rounds ==
    ASSUME NEW n \in Nat \ {0}
    PROVE  \E q \in Nat \ {0} :
              /\ align_to(n, PAGE) = q * PAGE /\ align_to(n, PAGE) \div PAGE = q
              /\ q = (n + PAGE - 1) \div PAGE
<1>1. PICK k \in Nat \ {0} : k = PAGE
  BY BigAllocationAssumption, Zenon
<1>2. (n + k - 1) \div k \in Nat
  OBVIOUS
<1>3. PICK q \in Nat : q = (n + k - 1) \div k
  BY <1>2, Zenon
<1>4. q >= 1
  <2>1. k * q <= n + k - 1 /\ n + k - 1 < k * q + k
    BY <1>3
  <2>2. CASE q = 0
    BY <2>1, <2>2
  <2> QED BY <2>2
<1>5. (q * k) \div k = q
  OBVIOUS
<1> QED BY <1>1, <1>3, <1>4, <1>5 DEF align_to

(* Without OX_FORCE_THP a block is a positive number of whole pages, and   *)
(* realloc reckons as big_malloc does.                                     *)
LEMMA Totals ==
    ASSUME ~OX_FORCE_THP, NEW s \in Nat \ {0}
    PROVE  /\ Num(s) \in Nat \ {0} /\ total_size(s) = Num(s) * PAGE
           /\ realloc_total(s) = total_size(s)
<1>1. s + HEADER_SIZE \in Nat \ {0}
  BY BigAllocationAssumption
<1>2. total_size(s) = align_to(s + HEADER_SIZE, PAGE)
  BY Zenon DEF total_size
<1>3. PICK q \in Nat \ {0} : /\ align_to(s + HEADER_SIZE, PAGE) = q * PAGE
                             /\ align_to(s + HEADER_SIZE, PAGE) \div PAGE = q
  BY <1>1, Rounds, Zenon
<1> QED BY <1>2, <1>3, Zenon DEF Num, realloc_total

(* A larger block has no fewer pages. *)
LEMMA Grows ==
    ASSUME ~OX_FORCE_THP, NEW r \in Nat \ {0}, NEW s \in Nat \ {0}, r <= s
    PROVE  Num(r) <= Num(s)
<1>1. PICK k \in Nat \ {0} : k = PAGE
  BY BigAllocationAssumption, Zenon
<1>2. PICK m \in Nat \ {0}, n \in Nat \ {0} : m = r + HEADER_SIZE /\ n = s + HEADER_SIZE /\ m <= n
  BY BigAllocationAssumption
<1>3. Num(r) = (m + k - 1) \div k /\ Num(s) = (n + k - 1) \div k
  BY <1>1, <1>2, Rounds, Zenon DEF Num, total_size
<1>4. PICK p \in Int, q \in Int : p = (m + k - 1) \div k /\ q = (n + k - 1) \div k
  OBVIOUS
<1>5. k * p <= m + k - 1 /\ n + k - 1 < k * q + k
  BY <1>4
<1>6. CASE p > q
  <2>1. k * p >= k * (q + 1)
    BY <1>6
  <2> QED BY <1>2, <1>5, <2>1
<1> QED BY <1>3, <1>4, <1>6

(* Blocks of more pages are larger in bytes, and the difference is whole   *)
(* pages.                                                                  *)
LEMMA Differs ==
    ASSUME ~OX_FORCE_THP, NEW r \in Nat \ {0}, NEW s \in Nat \ {0}
    PROVE  /\ total_size(r) < total_size(s) <=> Num(r) < Num(s)
           /\ total_size(r) = total_size(s) <=> Num(r) = Num(s)
           /\ total_size(r) < total_size(s) =>
                 /\ total_size(s) - total_size(r) \in Nat
                 /\ (total_size(s) - total_size(r)) \div PAGE = Num(s) - Num(r)
<1>1. PICK k \in Nat \ {0}, p \in Nat, q \in Nat : k = PAGE /\ p = Num(r) /\ q = Num(s)
  BY BigAllocationAssumption, Totals, Zenon
<1>2. total_size(r) = p * k /\ total_size(s) = q * k
  BY <1>1, Totals, Zenon
<1>3. /\ p * k < q * k <=> p < q
      /\ p * k = q * k <=> p = q
  OBVIOUS
<1>4. q * k - p * k = (q - p) * k /\ ((q - p) * k) \div k = q - p
  OBVIOUS
<1>5. q * k \in Nat /\ p * k \in Nat
  OBVIOUS
<1> QED BY <1>1, <1>2, <1>3, <1>4, <1>5

(* A block starts at its header. *)
LEMMA RunIs ==
    ASSUME ~OX_FORCE_THP, NEW a \in Nat, NEW s \in Sizes
    PROVE  /\ Run(a, s) = a .. a + Num(s) - 1 /\ a \in Run(a, s)
           /\ Num(s) \in Nat \ {0} /\ total_size(s) \in Nat /\ realloc_total(s) = total_size(s)
<1>1. s \in Nat \ {0}
  BY BigAllocationAssumption, Zenon
<1>2. Num(s) \in Nat \ {0} /\ total_size(s) = Num(s) * PAGE /\ realloc_total(s) = total_size(s)
  BY <1>1, Totals, Zenon
<1>3. Run(a, s) = a .. a + Num(s) - 1
  BY Zenon DEF Run, PagesOf, Num
<1>4. total_size(s) \in Nat
  BY <1>2, BigAllocationAssumption
<1> QED BY <1>2, <1>3, <1>4

(* A block of a smaller size lies within. *)
LEMMA RunWithin ==
    ASSUME ~OX_FORCE_THP, NEW a \in Nat, NEW r \in Sizes, NEW s \in Sizes, r <= s
    PROVE  Run(a, r) \subseteq Run(a, s)
<1>1. r \in Nat \ {0} /\ s \in Nat \ {0}
  BY BigAllocationAssumption, Zenon
<1>2. Num(r) <= Num(s)
  BY <1>1, Grows, Zenon
<1> QED BY <1>2, RunIs

(* A tail is what the larger block has beyond the smaller one. *)
LEMMA TailIs ==
    ASSUME ~OX_FORCE_THP, NEW a \in Nat, NEW r \in Sizes, NEW s \in Sizes,
           NEW b, NEW n, total_size(r) < total_size(s),
           b = a + total_size(r) \div PAGE, n = total_size(s) - total_size(r)
    PROVE  /\ b \in Nat /\ n \in Nat /\ b \in Run(a, s)
           /\ Run(a, s) = Run(a, r) \cup PagesOf(b, n)
           /\ Run(a, r) \cap PagesOf(b, n) = {} /\ b \in PagesOf(b, n)
<1>1. r \in Nat \ {0} /\ s \in Nat \ {0}
  BY BigAllocationAssumption, Zenon
<1>2. /\ Num(r) < Num(s) /\ total_size(s) - total_size(r) \in Nat
      /\ (total_size(s) - total_size(r)) \div PAGE = Num(s) - Num(r)
  BY <1>1, Differs, Zenon
<1>3. PICK p \in Nat, q \in Nat : p = Num(r) /\ q = Num(s) /\ p < q /\ p > 0
  BY <1>2, RunIs
<1>4. b = a + p /\ PagesOf(b, n) = a + p .. a + p + (q - p) - 1
  BY <1>2, <1>3, Zenon DEF PagesOf, Num
<1>5. Run(a, r) = a .. a + p - 1 /\ Run(a, s) = a .. a + q - 1
  BY <1>3, RunIs, Zenon
<1>6. /\ a .. a + q - 1 = (a .. a + p - 1) \cup (a + p .. a + p + (q - p) - 1)
      /\ (a .. a + p - 1) \cap (a + p .. a + p + (q - p) - 1) = {}
      /\ a + p \in a .. a + q - 1 /\ a + p \in a + p .. a + p + (q - p) - 1
  BY <1>3
<1>7. b \in Nat
  <2>1. a + p \in Nat
    OBVIOUS
  <2> QED BY <1>4, <2>1, Zenon
<1>8. /\ Run(a, s) = Run(a, r) \cup PagesOf(b, n) /\ b \in Run(a, s) /\ b \in PagesOf(b, n)
      /\ Run(a, r) \cap PagesOf(b, n) = {}
  BY <1>4, <1>5, <1>6, Zenon
<1>9. n \in Nat
  BY <1>2, Zenon
<1> QED BY <1>7, <1>8, <1>9, Zenon

-----------------------------------------------------------------------------
(* What a step of one thread leaves alone. *)

(* The table's entries and the blocks have their pages. *)
LEMMA Homes ==
    ASSUME IInv
    PROVE  /\ \A b \in live : b.addr \in Recorded(b.addr) /\ b.addr \in DOMAIN meta
           /\ \A t \in Threads : loc[t].old # NoBlock => loc[t].old.addr \in Old(t)
           /\ \A t \in Threads : pc[t] \in Named => loc[t].addr \in At(t)
           /\ \A t \in Threads : pc[t] \in Bare => loc[t].addr \in At(t)
           /\ \A t \in Threads : Keys(t) \subseteq Mine(t)
<1>1. \A a \in DOMAIN meta : a \in Nat /\ meta[a] \in Sizes /\ a \in Recorded(a)
  <2> SUFFICES ASSUME NEW a \in DOMAIN meta
               PROVE  a \in Nat /\ meta[a] \in Sizes /\ a \in Recorded(a)
    BY Zenon
  <2>1. a \in Nat /\ meta[a] \in Sizes
    BY DEF IInv, Typed, Pages
  <2> QED BY <2>1, RunIs, Zenon DEF Recorded, IInv
<1>2. \A b \in live : b.addr \in DOMAIN meta
  BY Zenon DEF IInv, BlockOK, Sound
<1>3. ASSUME NEW t \in Threads, loc[t].old # NoBlock
      PROVE  loc[t].old.addr \in Old(t)
  <2>1. loc[t].old.addr \in DOMAIN meta
    BY <1>3, Zenon DEF IInv, ThreadOK, OldOK, Sound
  <2>2. pc[t] \in {"record", "grown"} => loc[t].size \in Sizes
    BY Zenon DEF IInv, ThreadOK
  <2> QED BY <1>1, <1>3, <2>1, <2>2, RunIs, Zenon DEF Old, IInv
<1>4. ASSUME NEW t \in Threads, pc[t] \in Named
      PROVE  loc[t].addr \in At(t)
  <2>1. loc[t].addr \in DOMAIN meta
    BY <1>4, Zenon DEF IInv, ThreadOK, NewOK
  <2>2. pc[t] \notin Bare
    BY <1>4, Zenon DEF Named, Bare
  <2> QED BY <1>1, <1>4, <2>1, <2>2, Zenon DEF At
<1>5. ASSUME NEW t \in Threads, pc[t] \in Bare
      PROVE  loc[t].addr \in At(t)
  <2>1. loc[t].addr \in Nat
    BY BigAllocationAssumption DEF IInv, Typed, Locs
  <2>2. \E s \in Sizes : loc[t].total = total_size(s)
    <3>1. CASE pc[t] \in {"wipe", "protect", "release"}
      BY <3>1, Zenon DEF IInv, ThreadOK, NewOK
    <3>2. CASE pc[t] \in {"commit", "header", "register"}
      BY <3>2, Zenon DEF IInv, ThreadOK, NewOK
    <3> QED BY <1>5, <3>1, <3>2, Zenon DEF Bare
  <2> QED BY <1>5, <2>1, <2>2, RunIs, Zenon DEF At, Run, IInv
<1>6. \A t \in Threads : Keys(t) \subseteq Mine(t)
  BY <1>3, <1>4, Zenon DEF Keys, Mine
<1> QED BY <1>1, <1>2, <1>3, <1>4, <1>5, <1>6, Zenon

(* The entries of the table among a thread's pages are its own. *)
LEMMA KeysHere ==
    ASSUME IInv, NEW t \in Threads, NEW a \in DOMAIN meta, a \in Mine(t)
    PROVE  a \in Keys(t)
<1>1. CASE \E b \in live : a = b.addr
  BY <1>1, Homes DEF IInv, Apart
<1>2. ASSUME NEW u \in Threads, a \in Keys(u)
      PROVE  a \in Keys(t)
  <2>1. a \in Mine(u)
    BY <1>2, Homes, Zenon
  <2>2. u = t
    BY <2>1, Zenon DEF IInv, Apart
  <2> QED BY <1>2, <2>2, Zenon
<1> QED BY <1>1, <1>2, Zenon DEF IInv, Accounted

(* The accessible part of the block at hand is the thread's. *)
LEMMA OldWithin ==
    ASSUME IInv, NEW u \in Threads, loc[u].old # NoBlock
    PROVE  /\ pc[u] \in {"record", "shrunk", "cut"} => Run(loc[u].old.addr, loc[u].size) \subseteq Mine(u)
           /\ pc[u] \notin {"record", "shrunk", "cut"} => Recorded(loc[u].old.addr) \subseteq Mine(u)
<1>1. PICK a : a = loc[u].old.addr
  BY Zenon
<1>2. a \in DOMAIN meta /\ a \in Nat /\ meta[a] \in Sizes
  BY <1>1 DEF IInv, ThreadOK, OldOK, Sound, Typed, Pages
<1>3. ~OX_FORCE_THP /\ ThreadOK(u)
  BY Zenon DEF IInv
<1>4. ASSUME pc[u] \in {"shrunk", "cut"}
      PROVE  Run(a, loc[u].size) \subseteq Recorded(a)
  <2>1. loc[u].size \in Sizes /\ total_size(loc[u].size) < total_size(meta[a])
    BY <1>1, <1>3, <1>4, Zenon DEF ThreadOK, TailOK
  <2> QED BY <1>2, <1>3, <2>1, TailIs DEF Recorded
<1>5. ASSUME pc[u] = "grown"
      PROVE  Recorded(a) \subseteq Run(a, loc[u].size)
  <2>1. loc[u].size \in Sizes /\ total_size(meta[a]) < total_size(loc[u].size)
    BY <1>1, <1>3, <1>5, Zenon DEF ThreadOK, TailOK
  <2> QED BY <1>2, <1>3, <2>1, TailIs DEF Recorded
<1> QED BY <1>1, <1>4, <1>5, Zenon DEF Mine, Old

(* A step of thread t touches no pages and no entries but its own. *)
Frame(t) ==
    /\ Typed'
    /\ \A u \in Threads \ {t} : pc'[u] = pc[u] /\ loc'[u] = loc[u]
    /\ \A a \in DOMAIN meta \ Mine(t) : a \in DOMAIN meta' /\ meta'[a] = meta[a]
    /\ \A a \in DOMAIN meta' \ Mine(t) : a \in DOMAIN meta
    /\ \A p \in va \ Mine(t) : prot'[p] = prot[p] /\ hdr'[p] = hdr[p]
    /\ ThreadOK(t)'

(* It leaves the other threads' pages and entries as they are. *)
LEMMA OthersKept ==
    ASSUME IInv, NEW t \in Threads, Frame(t), NEW u \in Threads \ {t}
    PROVE  /\ At(u)' = At(u) /\ Old(u)' = Old(u) /\ Mine(u)' = Mine(u) /\ Keys(u)' = Keys(u)
           /\ ThreadOK(u)'
<1>1. pc'[u] = pc[u] /\ loc'[u] = loc[u]
  BY Zenon DEF Frame
<1>2. \A p \in Mine(u) : p \in va /\ p \notin Mine(t) /\ prot'[p] = prot[p] /\ hdr'[p] = hdr[p]
  BY Zenon DEF IInv, Apart, Accounted, Frame
<1>3. ASSUME NEW a \in Mine(u), a \in DOMAIN meta
      PROVE  a \in DOMAIN meta' /\ meta'[a] = meta[a] /\ Recorded(a)' = Recorded(a)
  BY <1>2, <1>3, Zenon DEF Frame, Recorded
<1>4. ASSUME loc[u].old # NoBlock
      PROVE  /\ loc[u].old.addr \in Mine(u) /\ loc[u].old.addr \in DOMAIN meta
             /\ Recorded(loc[u].old.addr)' = Recorded(loc[u].old.addr)
  <2>1. loc[u].old.addr \in Mine(u) /\ loc[u].old.addr \in DOMAIN meta
    BY <1>4, Homes, Zenon DEF Mine, IInv, ThreadOK, OldOK, Sound
  <2> QED BY <1>1, <1>3, <2>1, Zenon DEF Recorded
<1>5. ASSUME pc[u] \in Named
      PROVE  /\ loc[u].addr \in Mine(u) /\ loc[u].addr \in DOMAIN meta
             /\ Recorded(loc[u].addr)' = Recorded(loc[u].addr)
  <2>1. loc[u].addr \in Mine(u) /\ loc[u].addr \in DOMAIN meta
    BY <1>5, Homes, Zenon DEF Mine, IInv, ThreadOK, NewOK
  <2> QED BY <1>1, <1>3, <2>1, Zenon DEF Recorded
<1>6. At(u)' = At(u) /\ Old(u)' = Old(u)
  BY <1>1, <1>4, <1>5, Zenon DEF At, Old, Run
<1>7. Keys(u)' = Keys(u)
  BY <1>1, <1>2, <1>3, <1>4, <1>5 DEF Keys, Frame
<1>8. ThreadOK(u)
  BY Zenon DEF IInv
<1>9. OldOK(u)'
  <2>1. CASE loc[u].old = NoBlock
    BY <1>1, <2>1, Zenon DEF OldOK
  <2>2. CASE loc[u].old # NoBlock
    <3>1. Sound(loc[u].old)'
      BY <1>1, <1>2, <1>3, <1>4, <1>8, <2>2 DEF Sound, ThreadOK, OldOK
    <3>2. ASSUME pc[u] \in {"record", "shrunk", "cut"}
          PROVE  Open(Run(loc[u].old.addr, loc[u].size))'
      <4>1. Run(loc[u].old.addr, loc[u].size) \subseteq Mine(u)
        BY <2>2, <3>2, OldWithin, Zenon
      <4>2. Open(Run(loc[u].old.addr, loc[u].size))
        BY <1>8, <2>2, <3>2, Zenon DEF ThreadOK, OldOK
      <4> QED BY <1>1, <1>2, <4>1, <4>2, Zenon DEF Open, Run
    <3>3. ASSUME pc[u] \notin {"record", "shrunk", "cut"}
          PROVE  Open(Recorded(loc[u].old.addr))'
      <4>1. Recorded(loc[u].old.addr) \subseteq Mine(u)
        BY <2>2, <3>3, OldWithin, Zenon
      <4>2. Open(Recorded(loc[u].old.addr))
        BY <1>8, <2>2, <3>3, Zenon DEF ThreadOK, OldOK
      <4>3. Recorded(loc[u].old.addr)' = Recorded(loc[u].old.addr)
        BY <1>4, <2>2, Zenon
      <4> QED BY <1>2, <4>1, <4>2, <4>3, Zenon DEF Open
    <3> QED BY <1>1, <2>2, <3>1, <3>2, <3>3, Zenon DEF OldOK
  <2> QED BY <2>1, <2>2, Zenon
<1>10. NewOK(u)'
  <2>1. ASSUME pc[u] \in {"header", "register", "wipe"}
        PROVE  Open(PagesOf(loc[u].addr, loc[u].total))'
    <3>1. Open(PagesOf(loc[u].addr, loc[u].total))
      BY <1>8, <2>1, Zenon DEF ThreadOK, NewOK
    <3>2. PagesOf(loc[u].addr, loc[u].total) \subseteq Mine(u)
      BY <2>1, Zenon DEF Mine, At, Bare
    <3> QED BY <1>1, <1>2, <3>1, <3>2, Zenon DEF Open
  <2>2. ASSUME pc[u] = "register"
        PROVE  hdr'[loc[u].addr] = "MAGIC"
    <3>1. loc[u].addr \in Mine(u)
      BY <2>2, Homes, Zenon DEF Bare, Mine
    <3> QED BY <1>2, <1>8, <2>2, <3>1, Zenon DEF ThreadOK, NewOK
  <2>3. ASSUME pc[u] \in Named
        PROVE  /\ loc[u].addr \in DOMAIN meta' /\ hdr'[loc[u].addr] = "MAGIC"
               /\ Open(Recorded(loc[u].addr))' /\ meta'[loc[u].addr] = meta[loc[u].addr]
    <3>1. Open(Recorded(loc[u].addr)) /\ hdr[loc[u].addr] = "MAGIC"
      BY <1>8, <2>3, Zenon DEF ThreadOK, NewOK
    <3>2. Recorded(loc[u].addr) \subseteq Mine(u)
      BY <2>3, Zenon DEF Mine, At, Named, Bare
    <3>3. Open(Recorded(loc[u].addr))'
      BY <1>2, <1>5, <2>3, <3>1, <3>2, Zenon DEF Open
    <3> QED BY <1>2, <1>3, <1>5, <2>3, <3>1, <3>3, Zenon
  <2>4. pc[u] = "copy" => pc[u] \in Named
    BY Zenon DEF Named
  <2>5. NewOK(u)
    BY <1>8, Zenon DEF ThreadOK
  <2> QED BY <1>1, <2>1, <2>2, <2>3, <2>4, <2>5, Zenon DEF NewOK
<1>11. TailOK(u)'
  <2>1. loc[u].old # NoBlock => meta'[loc[u].old.addr] = meta[loc[u].old.addr]
    BY <1>3, <1>4, Zenon
  <2>2. TailOK(u) /\ (pc[u] \in {"shrunk", "cut", "grown"} => loc[u].old # NoBlock)
    BY <1>8, Zenon DEF ThreadOK
  <2> QED BY <1>1, <2>1, <2>2, Zenon DEF TailOK
<1>12. ThreadOK(u)'
  BY <1>1, <1>6, <1>8, <1>9, <1>10, <1>11, Zenon DEF ThreadOK
<1> QED BY <1>6, <1>7, <1>12, Zenon DEF Mine

(* It leaves the blocks of the program as they are. *)
LEMMA BlocksKept ==
    ASSUME IInv, NEW t \in Threads, Frame(t), NEW b \in live
    PROVE  Recorded(b.addr)' = Recorded(b.addr) /\ BlockOK(b)' /\ b.addr \notin Mine(t)
<1>1. b.addr \in Recorded(b.addr) /\ b.addr \in DOMAIN meta /\ BlockOK(b)
  BY Homes, Zenon DEF IInv
<1>2. \A p \in Recorded(b.addr) : p \in va /\ p \notin Mine(t) /\ prot'[p] = prot[p] /\ hdr'[p] = hdr[p]
  BY Zenon DEF IInv, Apart, Accounted, Frame
<1>3. b.addr \in DOMAIN meta' /\ meta'[b.addr] = meta[b.addr]
  BY <1>1, <1>2, Zenon DEF Frame
<1>4. Recorded(b.addr)' = Recorded(b.addr)
  BY <1>3, Zenon DEF Recorded
<1>5. Sound(b)'
  BY <1>1, <1>2, <1>3, Zenon DEF BlockOK, Sound
<1>6. Open(Recorded(b.addr))'
  BY <1>1, <1>2, <1>4, Zenon DEF BlockOK, Open
<1> QED BY <1>1, <1>2, <1>4, <1>5, <1>6, Zenon DEF BlockOK

(* A step within a call: the program has the same blocks. *)
LEMMA Inner ==
    ASSUME IInv, NEW t \in Threads, Frame(t), live' = live,
           va' = (va \ Mine(t)) \cup Mine(t)', Mine(t)' \cap va \subseteq Mine(t),
           DOMAIN meta' \cap Mine(t) \subseteq Keys(t)'
    PROVE  IInv'
<1>1. \A u \in Threads \ {t} : /\ Mine(u)' = Mine(u) /\ Keys(u)' = Keys(u) /\ ThreadOK(u)'
                               /\ Mine(u) \subseteq va /\ Mine(u) \cap Mine(t) = {}
  BY OthersKept, Zenon DEF IInv, Apart, Accounted
<1>2. \A b \in live : /\ Recorded(b.addr)' = Recorded(b.addr) /\ BlockOK(b)'
                      /\ Recorded(b.addr) \subseteq va /\ Recorded(b.addr) \cap Mine(t) = {}
  BY BlocksKept, Zenon DEF IInv, Apart, Accounted
<1>3. Apart'
  <2>1. ASSUME NEW b \in live', NEW c \in live', b # c
        PROVE  Recorded(b.addr)' \cap Recorded(c.addr)' = {}
    BY <1>2, <2>1, Zenon DEF IInv, Apart
  <2>2. ASSUME NEW b \in live', NEW u \in Threads
        PROVE  Recorded(b.addr)' \cap Mine(u)' = {}
    <3>1. CASE u = t
      BY <1>2, <3>1, Zenon
    <3>2. CASE u # t
      BY <1>1, <1>2, <3>2, Zenon DEF IInv, Apart
    <3> QED BY <3>1, <3>2, Zenon
  <2>3. ASSUME NEW u \in Threads, NEW w \in Threads, u # w
        PROVE  Mine(u)' \cap Mine(w)' = {}
    <3>1. CASE u = t
      BY <1>1, <2>3, <3>1
    <3>2. CASE w = t
      BY <1>1, <2>3, <3>2
    <3>3. CASE u # t /\ w # t
      BY <1>1, <2>3, <3>3, Zenon DEF IInv, Apart
    <3> QED BY <3>1, <3>2, <3>3, Zenon
  <2> QED BY <2>1, <2>2, <2>3, Zenon DEF Apart
<1>4. Accounted'
  <2>1. \A b \in live' : Recorded(b.addr)' \subseteq va'
    BY <1>2, Zenon
  <2>2. \A u \in Threads : Mine(u)' \subseteq va'
    BY <1>1, Zenon
  <2>3. ASSUME NEW p \in va'
        PROVE  (\E b \in live' : p \in Recorded(b.addr)') \/ \E u \in Threads : p \in Mine(u)'
    <3>1. CASE p \in Mine(t)'
      BY <3>1, Zenon
    <3>2. CASE p \notin Mine(t)'
      BY <1>1, <1>2, <3>2 DEF IInv, Accounted
    <3> QED BY <3>1, <3>2, Zenon
  <2>4. ASSUME NEW a \in DOMAIN meta'
        PROVE  (\E b \in live' : a = b.addr) \/ \E u \in Threads : a \in Keys(u)'
    <3>1. CASE a \in Mine(t)
      BY <3>1, Zenon
    <3>2. CASE a \notin Mine(t)
      <4>1. a \in DOMAIN meta /\ a \notin Keys(t)
        BY <3>2, Homes, Zenon DEF Frame
      <4> QED BY <1>1, <4>1 DEF IInv, Accounted
    <3> QED BY <3>1, <3>2, Zenon
  <2> QED BY <2>1, <2>2, <2>3, <2>4, Zenon DEF Accounted
<1> QED BY <1>1, <1>2, <1>3, <1>4, Zenon DEF IInv, Frame

(* The call of an idle thread takes a block over from the program. *)
LEMMA Taken ==
    ASSUME IInv, NEW t \in Threads, Frame(t), NEW b \in live, live' = live \ {b},
           va' = va, meta' = meta, Mine(t) = {}, Mine(t)' = Recorded(b.addr), b.addr \in Keys(t)'
    PROVE  IInv'
<1>1. \A u \in Threads \ {t} : /\ Mine(u)' = Mine(u) /\ Keys(u)' = Keys(u) /\ ThreadOK(u)'
                               /\ Mine(u) \subseteq va /\ Mine(u) \cap Recorded(b.addr) = {}
  BY OthersKept, Zenon DEF IInv, Apart, Accounted
<1>2. \A c \in live : /\ Recorded(c.addr)' = Recorded(c.addr) /\ BlockOK(c)'
                      /\ Recorded(c.addr) \subseteq va
  BY BlocksKept, Zenon DEF IInv, Accounted
<1>3. \A c \in live \ {b} : Recorded(c.addr) \cap Recorded(b.addr) = {}
  BY Zenon DEF IInv, Apart
<1>4. Apart'
  <2>1. ASSUME NEW c \in live', NEW d \in live', c # d
        PROVE  Recorded(c.addr)' \cap Recorded(d.addr)' = {}
    BY <1>2, <2>1, Zenon DEF IInv, Apart
  <2>2. ASSUME NEW c \in live', NEW u \in Threads
        PROVE  Recorded(c.addr)' \cap Mine(u)' = {}
    <3>1. CASE u = t
      BY <1>2, <1>3, <3>1, Zenon
    <3>2. CASE u # t
      BY <1>1, <1>2, <3>2, Zenon DEF IInv, Apart
    <3> QED BY <3>1, <3>2, Zenon
  <2>3. ASSUME NEW u \in Threads, NEW w \in Threads, u # w
        PROVE  Mine(u)' \cap Mine(w)' = {}
    <3>1. CASE u = t
      BY <1>1, <2>3, <3>1, Zenon
    <3>2. CASE w = t
      BY <1>1, <2>3, <3>2, Zenon
    <3>3. CASE u # t /\ w # t
      BY <1>1, <2>3, <3>3, Zenon DEF IInv, Apart
    <3> QED BY <3>1, <3>2, <3>3, Zenon
  <2> QED BY <2>1, <2>2, <2>3, Zenon DEF Apart
<1>5. Accounted'
  <2>1. \A c \in live' : Recorded(c.addr)' \subseteq va'
    BY <1>2, Zenon
  <2>2. \A u \in Threads : Mine(u)' \subseteq va'
    BY <1>1, <1>2, Zenon
  <2>3. ASSUME NEW p \in va'
        PROVE  (\E c \in live' : p \in Recorded(c.addr)') \/ \E u \in Threads : p \in Mine(u)'
    <3>1. CASE p \in Mine(t)'
      BY <3>1, Zenon
    <3>2. CASE p \notin Mine(t)'
      BY <1>1, <1>2, <3>2 DEF IInv, Accounted
    <3> QED BY <3>1, <3>2, Zenon
  <2>4. ASSUME NEW a \in DOMAIN meta'
        PROVE  (\E c \in live' : a = c.addr) \/ \E u \in Threads : a \in Keys(u)'
    <3>1. a \notin Keys(t)
      BY Homes, Zenon
    <3> QED BY <1>1, <3>1 DEF IInv, Accounted
  <2> QED BY <2>1, <2>2, <2>3, <2>4, Zenon DEF Accounted
<1> QED BY <1>1, <1>2, <1>4, <1>5, Zenon DEF IInv, Frame

(* A call ends and leaves the block b with the program. *)
LEMMA Given ==
    ASSUME IInv, NEW t \in Threads, Frame(t), NEW b, live' = live \cup {b}, BlockOK(b)',
           Mine(t)' = {}, Recorded(b.addr)' \subseteq Mine(t),
           va' = (va \ Mine(t)) \cup Recorded(b.addr)',
           DOMAIN meta' \cap Mine(t) \subseteq {b.addr}
    PROVE  IInv'
<1>1. \A u \in Threads \ {t} : /\ Mine(u)' = Mine(u) /\ Keys(u)' = Keys(u) /\ ThreadOK(u)'
                               /\ Mine(u) \subseteq va /\ Mine(u) \cap Mine(t) = {}
  BY OthersKept, Zenon DEF IInv, Apart, Accounted
<1>2. \A c \in live : /\ Recorded(c.addr)' = Recorded(c.addr) /\ BlockOK(c)'
                      /\ Recorded(c.addr) \subseteq va /\ Recorded(c.addr) \cap Mine(t) = {}
  BY BlocksKept, Zenon DEF IInv, Apart, Accounted
<1>3. Apart'
  <2>1. ASSUME NEW c \in live', NEW d \in live', c # d
        PROVE  Recorded(c.addr)' \cap Recorded(d.addr)' = {}
    <3>1. CASE c = b
      BY <1>2, <2>1, <3>1
    <3>2. CASE d = b
      BY <1>2, <2>1, <3>2, Zenon
    <3>3. CASE c # b /\ d # b
      BY <1>2, <2>1, <3>3, Zenon DEF IInv, Apart
    <3> QED BY <3>1, <3>2, <3>3, Zenon
  <2>2. ASSUME NEW c \in live', NEW u \in Threads
        PROVE  Recorded(c.addr)' \cap Mine(u)' = {}
    <3>1. CASE u = t
      BY <3>1, Zenon
    <3>2. CASE u # t /\ c = b
      BY <1>1, <3>2, Zenon
    <3>3. CASE u # t /\ c # b
      BY <1>1, <1>2, <3>3, Zenon DEF IInv, Apart
    <3> QED BY <3>1, <3>2, <3>3, Zenon
  <2>3. ASSUME NEW u \in Threads, NEW w \in Threads, u # w
        PROVE  Mine(u)' \cap Mine(w)' = {}
    <3>1. CASE u = t \/ w = t
      BY <3>1, Zenon
    <3>2. CASE u # t /\ w # t
      BY <1>1, <2>3, <3>2, Zenon DEF IInv, Apart
    <3> QED BY <3>1, <3>2, Zenon
  <2> QED BY <2>1, <2>2, <2>3, Zenon DEF Apart
<1>4. Accounted'
  <2>1. \A c \in live' : Recorded(c.addr)' \subseteq va'
    BY <1>2, Zenon
  <2>2. \A u \in Threads : Mine(u)' \subseteq va'
    BY <1>1, Zenon
  <2>3. ASSUME NEW p \in va'
        PROVE  (\E c \in live' : p \in Recorded(c.addr)') \/ \E u \in Threads : p \in Mine(u)'
    <3>1. CASE p \in Recorded(b.addr)'
      BY <3>1, Zenon
    <3>2. CASE p \notin Recorded(b.addr)'
      BY <1>1, <1>2, <3>2 DEF IInv, Accounted
    <3> QED BY <3>1, <3>2, Zenon
  <2>4. ASSUME NEW a \in DOMAIN meta'
        PROVE  (\E c \in live' : a = c.addr) \/ \E u \in Threads : a \in Keys(u)'
    <3>1. CASE a \in Mine(t)
      BY <3>1, Zenon
    <3>2. CASE a \notin Mine(t)
      <4>1. a \in DOMAIN meta /\ a \notin Keys(t)
        BY <3>2, Homes, Zenon DEF Frame
      <4> QED BY <1>1, <4>1 DEF IInv, Accounted
    <3> QED BY <3>1, <3>2, Zenon
  <2> QED BY <2>1, <2>2, <2>3, <2>4, Zenon DEF Accounted
<1> QED BY <1>1, <1>2, <1>3, <1>4, Zenon DEF IInv, Frame

-----------------------------------------------------------------------------
(* Steps of the same kind. *)

(* Setting the protection of some pages, and their contents. *)
LEMMA SetProt ==
    ASSUME Typed, NEW S, NEW v \in {"none", "rw"}
    PROVE  /\ Set(prot, S, v) \in [Pages -> {"none", "rw"}]
           /\ \A p \in Pages \ S : Set(prot, S, v)[p] = prot[p]
           /\ \A p \in Pages \cap S : Set(prot, S, v)[p] = v
BY Zenon DEF Typed, Set

(* Zeroing pages wipes out the headers in them. *)
LEMMA SetHdr ==
    ASSUME Typed, NEW S
    PROVE  /\ Set(hdr, S, "zero") \in [Pages -> {"zero", "MAGIC"}]
           /\ \A p \in Pages \ S : Set(hdr, S, "zero")[p] = hdr[p]
BY Zenon DEF Typed, Set

(* Thread t moves on to l with locals r. *)
LEMMA Control ==
    ASSUME Typed, NEW t \in Threads, NEW l \in PCs, NEW r \in Locs,
           pc' = [pc EXCEPT ![t] = l], loc' = [loc EXCEPT ![t] = r]
    PROVE  /\ pc' \in [Threads -> PCs] /\ loc' \in [Threads -> Locs]
           /\ pc'[t] = l /\ loc'[t] = r
           /\ \A u \in Threads \ {t} : pc'[u] = pc[u] /\ loc'[u] = loc[u]
<1>1. pc \in [Threads -> PCs] /\ loc \in [Threads -> Locs]
  BY Zenon DEF Typed
<1> QED BY <1>1, Zenon

(* Thread t moves on to l. *)
LEMMA JustGoto ==
    ASSUME Typed, NEW t \in Threads, NEW l \in PCs, Goto(t, l), loc' = loc
    PROVE  /\ pc' \in [Threads -> PCs] /\ loc' \in [Threads -> Locs]
           /\ pc'[t] = l /\ loc'[t] = loc[t]
           /\ \A u \in Threads \ {t} : pc'[u] = pc[u] /\ loc'[u] = loc[u]
<1>1. pc \in [Threads -> PCs] /\ loc \in [Threads -> Locs]
  BY Zenon DEF Typed
<1> QED BY <1>1, Zenon DEF Goto

(* The types of what a thread has. *)
LEMMA Types ==
    ASSUME IInv, NEW t \in Threads
    PROVE  /\ Typed /\ ThreadOK(t) /\ loc[t] \in Locs /\ Mine(t) \subseteq Pages
           /\ loc[t].size \in Nat /\ loc[t].addr \in 0 .. NPages /\ loc[t].total \in Nat
           /\ loc[t].old \in Blocks \cup {NoBlock}
<1>1. loc[t] \in Locs /\ Mine(t) \subseteq Pages
  BY Zenon DEF IInv, Typed, Accounted
<1> QED BY <1>1, Zenon DEF IInv, Locs

(* The program's block at hand stays as it is while its pages do. *)
LEMMA OldKept ==
    ASSUME IInv, NEW t \in Threads, loc'[t].old = loc[t].old,
           pc[t] \notin {"record", "grown", "shrunk", "cut"},
           pc'[t] \notin {"record", "grown", "shrunk", "cut"},
           \A a \in DOMAIN meta \cap Old(t) : a \in DOMAIN meta' /\ meta'[a] = meta[a],
           \A p \in Old(t) : prot'[p] = prot[p] /\ hdr'[p] = hdr[p]
    PROVE  Old(t)' = Old(t) /\ OldOK(t)'
<1>1. CASE loc[t].old = NoBlock
  BY <1>1, Zenon DEF Old, OldOK
<1>2. CASE loc[t].old # NoBlock
  <2>1. PICK b : b = loc[t].old
    BY Zenon
  <2>2. Sound(b) /\ Open(Recorded(b.addr)) /\ b.addr \in Old(t)
    BY <1>2, <2>1, Homes, Zenon DEF IInv, ThreadOK, OldOK
  <2>3. Old(t) = Recorded(b.addr)
    BY <1>2, <2>1, Zenon DEF Old
  <2>4. b.addr \in DOMAIN meta' /\ meta'[b.addr] = meta[b.addr]
    BY <2>2, Zenon DEF Sound
  <2>5. Recorded(b.addr)' = Recorded(b.addr)
    BY <2>4, Zenon DEF Recorded
  <2>6. Sound(b)'
    BY <2>2, <2>4, Zenon DEF Sound
  <2>7. Open(Recorded(b.addr))'
    BY <2>2, <2>3, <2>5, Zenon DEF Open
  <2>8. loc'[t].old = b /\ b # NoBlock
    BY <1>2, <2>1, Zenon
  <2>9. Old(t)' = Recorded(b.addr)'
    BY <2>8, Zenon DEF Old
  <2>10. OldOK(t)'
    BY <2>6, <2>7, <2>8, Zenon DEF OldOK
  <2> QED BY <2>3, <2>5, <2>9, <2>10, Zenon
<1> QED BY <1>1, <1>2, Zenon

(* A step that changes nothing but the control of t. *)
LEMMA Still ==
    ASSUME IInv, NEW t \in Threads, UNCHANGED <<va, prot, hdr, meta, live>>,
           pc' \in [Threads -> PCs], loc' \in [Threads -> Locs],
           \A u \in Threads \ {t} : pc'[u] = pc[u] /\ loc'[u] = loc[u],
           ThreadOK(t)', Mine(t)' = Mine(t), Keys(t) \subseteq Keys(t)'
    PROVE  IInv'
<1>1. Typed'
  BY Zenon DEF IInv, Typed
<1>2. Frame(t)
  BY <1>1, Zenon DEF Frame
<1>3. Mine(t) \subseteq va
  BY Zenon DEF IInv, Accounted
<1>4. DOMAIN meta' \cap Mine(t) \subseteq Keys(t)'
  BY KeysHere, Zenon
<1> QED BY <1>2, <1>3, <1>4, Inner, Zenon

(* The table has no entry at pages that are not registered. *)
LEMMA BareFree ==
    ASSUME IInv, NEW t \in Threads, pc[t] \notin Named
    PROVE  /\ DOMAIN meta \cap At(t) = {}
           /\ \A a \in DOMAIN meta \cap Mine(t) : loc[t].old # NoBlock /\ a = loc[t].old.addr
<1>1. \A a \in DOMAIN meta \cap Mine(t) : loc[t].old # NoBlock /\ a = loc[t].old.addr
  BY KeysHere, Zenon DEF Keys
<1>2. loc[t].old # NoBlock => loc[t].old.addr \in Old(t)
  BY Homes, Zenon
<1>3. At(t) \cap Old(t) = {}
  BY Zenon DEF IInv, ThreadOK
<1> QED BY <1>1, <1>2, <1>3, Zenon DEF Mine

(* A step on pages that are not registered, that changes nothing but their *)
(* protection and contents.                                                *)
LEMMA BareStep ==
    ASSUME IInv, NEW t \in Threads, pc[t] \in Bare, NEW l \in Bare, Goto(t, l),
           UNCHANGED <<va, meta, live, loc>>,
           prot' \in [Pages -> {"none", "rw"}], hdr' \in [Pages -> {"zero", "MAGIC"}],
           \A p \in Pages \ At(t) : prot'[p] = prot[p] /\ hdr'[p] = hdr[p],
           l \in {"commit", "header", "register"} => loc[t].size \in Sizes, NewOK(t)'
    PROVE  IInv'
<1>1. /\ pc' \in [Threads -> PCs] /\ loc' \in [Threads -> Locs]
      /\ pc'[t] = l /\ loc'[t] = loc[t]
      /\ \A u \in Threads \ {t} : pc'[u] = pc[u] /\ loc'[u] = loc[u]
  <2>1. l \in PCs
    BY Zenon DEF Bare, PCs
  <2> QED BY <2>1, JustGoto, Zenon DEF IInv
<1>2. Typed'
  BY <1>1, Zenon DEF IInv, Typed
<1>3. At(t) \cap Old(t) = {} /\ Mine(t) \subseteq va /\ va \subseteq Pages
  BY Zenon DEF IInv, ThreadOK, Accounted, Typed
<1>4. Old(t)' = Old(t) /\ OldOK(t)'
  <2>1. pc[t] \notin {"record", "grown", "shrunk", "cut"} /\ pc'[t] \notin {"record", "grown", "shrunk", "cut"}
    BY <1>1, Zenon DEF Bare
  <2>2. \A p \in Old(t) : prot'[p] = prot[p] /\ hdr'[p] = hdr[p]
    BY <1>3, Zenon DEF Mine
  <2> QED BY <1>1, <2>1, <2>2, OldKept, Zenon
<1>5. At(t)' = At(t)
  BY <1>1, Zenon DEF At
<1>6. ThreadOK(t)'
  <2>1. TailOK(t)'
    BY <1>1, Zenon DEF TailOK, Bare
  <2>2. loc'[t].size \in Sizes \/ l \in {"wipe", "protect", "release"}
    BY <1>1, Zenon DEF Bare
  <2>3. l \notin {"dead", "idle", "usable", "validate", "resize", "record", "shrunk", "cut", "grown", "copy"}
    BY Zenon DEF Bare
  <2> QED BY <1>1, <1>3, <1>4, <1>5, <2>1, <2>2, <2>3, Zenon DEF ThreadOK
<1>7. Mine(t)' = Mine(t)
  BY <1>4, <1>5, Zenon DEF Mine
<1>8. Frame(t)
  BY <1>1, <1>2, <1>3, <1>6, Zenon DEF Frame, Mine
<1>9. DOMAIN meta' \cap Mine(t) \subseteq Keys(t)'
  <2>1. pc[t] \notin Named
    BY Zenon DEF Bare, Named
  <2> QED BY <1>1, <2>1, BareFree, Zenon DEF Keys
<1> QED BY <1>3, <1>7, <1>8, <1>9, Inner, Zenon

(* A call that returns has nothing left. *)
LEMMA Returns ==
    ASSUME Typed, NEW t \in Threads, NEW b, Return(t, b)
    PROVE  /\ pc' \in [Threads -> PCs] /\ loc' \in [Threads -> Locs]
           /\ \A u \in Threads \ {t} : pc'[u] = pc[u] /\ loc'[u] = loc[u]
           /\ ThreadOK(t)' /\ Mine(t)' = {}
<1>1. NoLoc \in Locs /\ "idle" \in PCs /\ NoLoc.old = NoBlock
  BY BigAllocationAssumption DEF NoLoc, Locs, PCs
<1>2. /\ pc' \in [Threads -> PCs] /\ loc' \in [Threads -> Locs]
      /\ pc'[t] = "idle" /\ loc'[t] = NoLoc
      /\ \A u \in Threads \ {t} : pc'[u] = pc[u] /\ loc'[u] = loc[u]
  BY <1>1, Control, Zenon DEF Return, Goto
<1>3. At(t)' = {} /\ Old(t)' = {}
  BY <1>1, <1>2, Zenon DEF At, Old, Bare, Named
<1>4. OldOK(t)' /\ NewOK(t)' /\ TailOK(t)'
  BY <1>1, <1>2, Zenon DEF OldOK, NewOK, TailOK, Named
<1>5. ThreadOK(t)'
  BY <1>1, <1>2, <1>3, <1>4, Zenon DEF ThreadOK
<1> QED BY <1>2, <1>3, <1>5, Zenon DEF Mine

(* A call gives back the pages it has taken, and ends with the program's   *)
(* block, if it was about one, as it was.                                  *)
LEMMA ReturnOld ==
    ASSUME IInv, NEW t \in Threads, Return(t, loc[t].old),
           pc[t] \notin {"record", "grown", "shrunk", "cut"}, pc[t] \notin Named,
           va' = va \ At(t), UNCHANGED <<prot, hdr, meta>>
    PROVE  IInv'
<1>1. /\ pc' \in [Threads -> PCs] /\ loc' \in [Threads -> Locs]
      /\ \A u \in Threads \ {t} : pc'[u] = pc[u] /\ loc'[u] = loc[u]
      /\ ThreadOK(t)' /\ Mine(t)' = {}
  BY Returns, Zenon DEF IInv
<1>2. live' = live \cup ({loc[t].old} \ {NoBlock})
  BY Zenon DEF Return
<1>3. live' \subseteq Blocks
  BY <1>2, Types, Zenon DEF IInv, Typed
<1>4. Typed'
  BY <1>1, <1>3, Zenon DEF IInv, Typed
<1>5. Frame(t)
  BY <1>1, <1>4, Zenon DEF Frame
<1>6. At(t) \cap Old(t) = {} /\ Mine(t) \subseteq va
  BY Zenon DEF IInv, ThreadOK, Accounted
<1>7. CASE loc[t].old = NoBlock
  <2>1. Mine(t) = At(t)
    BY <1>7, Zenon DEF Mine, Old
  <2>2. DOMAIN meta' \cap Mine(t) = {}
    BY <2>1, BareFree, Zenon
  <2> QED BY <1>1, <1>2, <1>5, <1>7, <2>1, <2>2, Inner, Zenon
<1>8. CASE loc[t].old # NoBlock
  <2>1. PICK b : b = loc[t].old
    BY Zenon
  <2>2. BlockOK(b) /\ Old(t) = Recorded(b.addr)
    BY <1>8, <2>1, Zenon DEF IInv, ThreadOK, OldOK, BlockOK, Old
  <2>3. BlockOK(b)'
    BY <2>2, Zenon DEF BlockOK, Sound, Open, Recorded
  <2>4. Recorded(b.addr)' = Recorded(b.addr)
    BY Zenon DEF Recorded
  <2>5. live' = live \cup {b}
    BY <1>2, <1>8, <2>1, Zenon
  <2>6. DOMAIN meta' \cap Mine(t) \subseteq {b.addr}
    BY <2>1, BareFree, Zenon
  <2>7. va' = (va \ Mine(t)) \cup Recorded(b.addr)'
    BY <1>6, <2>2, <2>4, Zenon DEF Mine
  <2>8. Recorded(b.addr)' \subseteq Mine(t)
    BY <2>2, <2>4, Zenon DEF Mine
  <2> QED BY <1>1, <1>5, <2>3, <2>5, <2>6, <2>7, <2>8, Given, Zenon
<1> QED BY <1>7, <1>8, Zenon

-----------------------------------------------------------------------------
(* Every action keeps the invariant: malloc. *)

(* A malloc begins with nothing in hand. *)
LEMMA BigMallocKeeps ==
    ASSUME IInv, NEW t \in Threads, BigMalloc(t)
    PROVE  IInv'
<1>1. PICK size \in Sizes :
         loc' = [loc EXCEPT ![t] = [NoLoc EXCEPT !.size = size, !.total = total_size(size)]]
  BY Zenon DEF BigMalloc
<1>2. PICK r : r = [NoLoc EXCEPT !.size = size, !.total = total_size(size)]
  BY Zenon
<1>3. size \in Nat /\ total_size(size) \in Nat /\ 0 \in 0 .. NPages
  BY BigAllocationAssumption, RunIs DEF IInv
<1>4. r \in Locs /\ r.old = NoBlock /\ r.size = size /\ r.total = total_size(size)
  BY <1>2, <1>3, Zenon DEF NoLoc, Locs
<1>5. /\ pc' \in [Threads -> PCs] /\ loc' \in [Threads -> Locs]
      /\ pc'[t] = "reserve" /\ loc'[t] = r
      /\ \A u \in Threads \ {t} : pc'[u] = pc[u] /\ loc'[u] = loc[u]
  <2>1. "reserve" \in PCs /\ Typed
    BY Zenon DEF PCs, IInv
  <2> QED BY <1>1, <1>2, <1>4, <2>1, Control, Zenon DEF BigMalloc, Goto
<1>6. pc[t] = "idle" /\ loc[t].old = NoBlock
  BY Zenon DEF BigMalloc, IInv, ThreadOK
<1>7. At(t) = {} /\ Old(t) = {} /\ At(t)' = {} /\ Old(t)' = {} /\ Keys(t) = {}
  BY <1>4, <1>5, <1>6, Zenon DEF At, Old, Bare, Named, Keys
<1>8. OldOK(t)' /\ NewOK(t)' /\ TailOK(t)'
  BY <1>4, <1>5, Zenon DEF OldOK, NewOK, TailOK, Named
<1>9. ThreadOK(t)'
  BY <1>4, <1>5, <1>7, <1>8, Zenon DEF ThreadOK
<1> QED BY <1>5, <1>7, <1>9, Still, Zenon DEF Mine, BigMalloc

(* The VA bitmap gives pages that nobody has. *)
LEMMA ReserveKeeps ==
    ASSUME IInv, NEW t \in Threads, Reserve(t)
    PROVE  IInv'
<1>1. PICK a \in Pages : /\ PagesOf(a, loc[t].total) \subseteq Pages \ va
                         /\ va' = va \cup PagesOf(a, loc[t].total)
                         /\ loc' = [loc EXCEPT ![t].addr = a]
  BY Zenon DEF Reserve
<1>2. PICK r : r = [loc[t] EXCEPT !.addr = a]
  BY Zenon
<1>3. r \in Locs /\ r.old = loc[t].old /\ r.size = loc[t].size /\ r.total = loc[t].total /\ r.addr = a
  BY <1>2, Types, BigAllocationAssumption DEF Locs, Pages
<1>4. /\ pc' \in [Threads -> PCs] /\ loc' \in [Threads -> Locs]
      /\ pc'[t] = "commit" /\ loc'[t] = r
      /\ \A u \in Threads \ {t} : pc'[u] = pc[u] /\ loc'[u] = loc[u]
  <2>1. "commit" \in PCs /\ Typed
    BY Zenon DEF PCs, IInv
  <2>2. loc' = [loc EXCEPT ![t] = r]
    BY <1>1, <1>2, Zenon
  <2> QED BY <1>3, <2>1, <2>2, Control, Zenon DEF Reserve, Goto
<1>5. pc[t] = "reserve" /\ UNCHANGED <<prot, hdr, meta, live>>
  BY Zenon DEF Reserve
<1>6. Typed'
  BY <1>1, <1>4, <1>5, Zenon DEF IInv, Typed
<1>7. Old(t)' = Old(t) /\ OldOK(t)'
  BY <1>3, <1>4, <1>5, OldKept, Zenon
<1>8. At(t) = {} /\ At(t)' = PagesOf(a, loc[t].total)
  BY <1>3, <1>4, <1>5, Zenon DEF At, Bare, Named
<1>9. Mine(t) \subseteq va /\ Mine(t) = Old(t) /\ Mine(t)' = PagesOf(a, loc[t].total) \cup Old(t)
  BY <1>7, <1>8, Zenon DEF IInv, Accounted, Mine
<1>10. ThreadOK(t)'
  <2>1. loc[t].size \in Sizes /\ loc[t].total = total_size(loc[t].size)
    BY <1>5, Zenon DEF IInv, ThreadOK, NewOK
  <2>2. NewOK(t)' /\ TailOK(t)'
    BY <1>3, <1>4, <2>1, Zenon DEF NewOK, TailOK, Named
  <2>3. At(t)' \cap Old(t)' = {}
    BY <1>1, <1>7, <1>8, <1>9, Zenon
  <2> QED BY <1>3, <1>4, <1>7, <2>1, <2>2, <2>3, Zenon DEF ThreadOK
<1>11. Frame(t)
  BY <1>4, <1>5, <1>6, <1>10, Zenon DEF Frame
<1>12. DOMAIN meta' \cap Mine(t) \subseteq Keys(t)'
  BY <1>3, <1>4, <1>5, BareFree DEF Keys, Named
<1>13. va' = (va \ Mine(t)) \cup Mine(t)' /\ Mine(t)' \cap va \subseteq Mine(t)
  BY <1>1, <1>9, Zenon
<1> QED BY <1>5, <1>11, <1>12, <1>13, Inner, Zenon

(* A malloc without pages returns. *)
LEMMA ReserveFailKeeps ==
    ASSUME IInv, NEW t \in Threads, ReserveFail(t)
    PROVE  IInv'
<1>1. pc[t] = "reserve" /\ Return(t, loc[t].old) /\ UNCHANGED <<va, prot, hdr, meta>>
  BY Zenon DEF ReserveFail
<1>2. At(t) = {} /\ pc[t] \notin Named
  BY <1>1, Zenon DEF At, Bare, Named
<1> QED BY <1>1, <1>2, ReturnOld, Zenon

(* The pages that are being committed are the thread's. *)
LEMMA BarePages ==
    ASSUME IInv, NEW t \in Threads, pc[t] \in Bare
    PROVE  /\ At(t) = PagesOf(loc[t].addr, loc[t].total) /\ loc[t].addr \in At(t)
           /\ At(t) \subseteq Pages /\ pc[t] \notin Named
           /\ pc[t] \notin {"record", "grown", "shrunk", "cut"}
<1>1. At(t) = PagesOf(loc[t].addr, loc[t].total)
  BY Zenon DEF At
<1>2. At(t) \subseteq Pages
  BY Types, Zenon DEF Mine
<1> QED BY <1>1, <1>2, Homes, Zenon DEF Bare, Named

(* The new pages are made accessible. *)
LEMMA CommitKeeps ==
    ASSUME IInv, NEW t \in Threads, Commit(t) \/ CommitMap(t)
    PROVE  IInv'
<1>1. /\ pc[t] = "commit" /\ Goto(t, "header") /\ UNCHANGED <<va, meta, live, loc>>
      /\ prot' = Set(prot, PagesOf(loc[t].addr, loc[t].total), "rw")
      /\ hdr' = hdr \/ hdr' = Set(hdr, PagesOf(loc[t].addr, loc[t].total), "zero")
  BY Zenon DEF Commit, CommitMap
<1>2. At(t) = PagesOf(loc[t].addr, loc[t].total) /\ At(t) \subseteq Pages /\ pc[t] \in Bare
  BY <1>1, BarePages, Zenon DEF Bare
<1>3. /\ prot' \in [Pages -> {"none", "rw"}]
      /\ \A p \in Pages \ At(t) : prot'[p] = prot[p]
      /\ \A p \in At(t) : prot'[p] = "rw"
  <2>1. prot \in [Pages -> {"none", "rw"}] /\ Typed
    BY Zenon DEF IInv, Typed
  <2> QED BY <1>1, <1>2, <2>1, SetProt
<1>4. hdr' \in [Pages -> {"zero", "MAGIC"}] /\ \A p \in Pages \ At(t) : hdr'[p] = hdr[p]
  <2>1. hdr \in [Pages -> {"zero", "MAGIC"}] /\ Typed
    BY Zenon DEF IInv, Typed
  <2> QED BY <1>1, <1>2, <2>1, SetHdr
<1>5. loc[t].size \in Sizes /\ loc[t].total = total_size(loc[t].size)
  BY <1>1, Zenon DEF IInv, ThreadOK, NewOK
<1>6. pc'[t] = "header" /\ loc'[t] = loc[t]
  BY <1>1, Zenon DEF Goto, IInv, Typed
<1>7. NewOK(t)'
  BY <1>2, <1>3, <1>5, <1>6, Zenon DEF NewOK, Open, Named
<1> QED BY <1>1, <1>2, <1>3, <1>4, <1>5, <1>7, BareStep, Zenon DEF Bare

(* A malloc whose pages cannot be made accessible gives them back. *)
LEMMA CommitFailKeeps ==
    ASSUME IInv, NEW t \in Threads, CommitFail(t)
    PROVE  IInv'
<1>1. /\ pc[t] = "commit" /\ va' = va \ PagesOf(loc[t].addr, loc[t].total)
      /\ Return(t, loc[t].old) /\ UNCHANGED <<prot, hdr, meta>>
  BY Zenon DEF CommitFail
<1>2. pc[t] \in Bare
  BY <1>1, Zenon DEF Bare
<1> QED BY <1>1, <1>2, BarePages, ReturnOld, Zenon

(* The header is written on an accessible page. *)
LEMMA WriteHeaderKeeps ==
    ASSUME IInv, NEW t \in Threads, WriteHeader(t)
    PROVE  IInv'
<1>1. pc[t] = "header" /\ pc[t] \in Bare
  BY Zenon DEF WriteHeader, Bare
<1>2. /\ At(t) = PagesOf(loc[t].addr, loc[t].total) /\ loc[t].addr \in At(t) /\ At(t) \subseteq Pages
      /\ Open(At(t)) /\ loc[t].size \in Sizes /\ loc[t].total = total_size(loc[t].size)
  BY <1>1, BarePages, Zenon DEF IInv, ThreadOK, NewOK
<1>3. /\ hdr' = [hdr EXCEPT ![loc[t].addr] = "MAGIC"] /\ Goto(t, "register")
      /\ UNCHANGED <<va, prot, meta, live, loc>>
  BY <1>2, Zenon DEF WriteHeader, Open
<1>4. /\ hdr' \in [Pages -> {"zero", "MAGIC"}] /\ hdr'[loc[t].addr] = "MAGIC"
      /\ \A p \in Pages \ At(t) : hdr'[p] = hdr[p]
  <2>1. hdr \in [Pages -> {"zero", "MAGIC"}]
    BY Zenon DEF IInv, Typed
  <2> QED BY <1>2, <1>3, <2>1, Zenon
<1>5. pc'[t] = "register" /\ loc'[t] = loc[t]
  BY <1>3, Zenon DEF Goto, IInv, Typed
<1>6. NewOK(t)'
  BY <1>2, <1>3, <1>4, <1>5 DEF NewOK, Open, Named
<1>7. prot' \in [Pages -> {"none", "rw"}]
  BY <1>3, Zenon DEF IInv, Typed
<1> QED BY <1>1, <1>2, <1>3, <1>4, <1>6, <1>7, BareStep, Zenon DEF Bare

-----------------------------------------------------------------------------
(* free. *)

(* free finds a valid header. *)
LEMMA CheckKeeps ==
    ASSUME IInv, NEW t \in Threads, Check(t)
    PROVE  IInv'
<1>1. pc[t] = "check" /\ pc[t] \in Named
  BY Zenon DEF Check, Named
<1>2. /\ loc[t].addr \in DOMAIN meta /\ hdr[loc[t].addr] = "MAGIC" /\ Open(Recorded(loc[t].addr))
      /\ At(t) = Recorded(loc[t].addr) /\ loc[t].addr \in At(t)
  BY <1>1, Homes, Zenon DEF IInv, ThreadOK, NewOK, At, Bare
<1>3. Goto(t, "remove") /\ UNCHANGED <<va, prot, hdr, meta, live, loc>>
  BY <1>2, Zenon DEF Check, Open
<1>4. /\ pc' \in [Threads -> PCs] /\ loc' \in [Threads -> Locs]
      /\ pc'[t] = "remove" /\ loc'[t] = loc[t]
      /\ \A u \in Threads \ {t} : pc'[u] = pc[u] /\ loc'[u] = loc[u]
  BY <1>3, JustGoto, Zenon DEF PCs, IInv
<1>5. Old(t)' = Old(t) /\ OldOK(t)'
  BY <1>1, <1>3, <1>4, OldKept, Zenon
<1>6. At(t)' = At(t)
  BY <1>2, <1>3, <1>4, Zenon DEF At, Recorded, Bare, Named
<1>7. NewOK(t)' /\ TailOK(t)'
  BY <1>2, <1>3, <1>4, Zenon DEF NewOK, TailOK, Open, Recorded, Named
<1>8. At(t) \cap Old(t) = {}
  BY Zenon DEF IInv, ThreadOK
<1>9. ThreadOK(t)'
  BY <1>4, <1>5, <1>6, <1>7, <1>8, Zenon DEF ThreadOK
<1>10. Keys(t) \subseteq Keys(t)'
  BY <1>1, <1>3, <1>4, Zenon DEF Keys, Named
<1> QED BY <1>3, <1>4, <1>5, <1>6, <1>9, <1>10, Still, Zenon DEF Mine

(* free discards the pages of the block, which is no longer registered. *)
LEMMA WipeKeeps ==
    ASSUME IInv, NEW t \in Threads, Wipe(t)
    PROVE  IInv'
<1>1. pc[t] = "wipe" /\ pc[t] \in Bare
  BY Zenon DEF Wipe, Bare
<1>2. /\ At(t) = PagesOf(loc[t].addr, loc[t].total) /\ loc[t].addr \in At(t) /\ At(t) \subseteq Pages
      /\ Open(At(t)) /\ \E s \in Sizes : loc[t].total = total_size(s)
  BY <1>1, BarePages, Zenon DEF IInv, ThreadOK, NewOK
<1>3. /\ hdr' = Set(hdr, At(t), "zero") /\ Goto(t, "protect")
      /\ UNCHANGED <<va, prot, meta, live, loc>>
  <2>1. \A S \in Wiped(t) : \A p \in S : p \in Pages /\ prot[p] = "rw"
    BY <1>2, Zenon DEF Wiped, Open
  <2> QED BY <1>2, <2>1, Zenon DEF Wipe
<1>4. /\ hdr' \in [Pages -> {"zero", "MAGIC"}] /\ \A p \in Pages \ At(t) : hdr'[p] = hdr[p]
  <2>1. hdr \in [Pages -> {"zero", "MAGIC"}] /\ Typed
    BY Zenon DEF IInv, Typed
  <2> QED BY <1>3, <2>1, SetHdr, Zenon
<1>5. pc'[t] = "protect" /\ loc'[t] = loc[t]
  BY <1>3, Zenon DEF Goto, IInv, Typed
<1>6. NewOK(t)'
  BY <1>2, <1>5, Zenon DEF NewOK, Named
<1>7. prot' \in [Pages -> {"none", "rw"}]
  BY <1>3, Zenon DEF IInv, Typed
<1> QED BY <1>1, <1>3, <1>4, <1>6, <1>7, BareStep, Zenon DEF Bare

(* free makes them inaccessible. *)
LEMMA ProtectKeeps ==
    ASSUME IInv, NEW t \in Threads, Protect(t)
    PROVE  IInv'
<1>1. pc[t] = "protect" /\ pc[t] \in Bare
  BY Zenon DEF Protect, Bare
<1>2. /\ At(t) = PagesOf(loc[t].addr, loc[t].total) /\ At(t) \subseteq Pages
      /\ \E s \in Sizes : loc[t].total = total_size(s)
  BY <1>1, BarePages, Zenon DEF IInv, ThreadOK, NewOK
<1>3. /\ prot' \in {prot, Set(prot, At(t), "none")} /\ Goto(t, "release")
      /\ UNCHANGED <<va, hdr, meta, live, loc>>
  BY <1>2, Zenon DEF Protect
<1>4. prot' \in [Pages -> {"none", "rw"}] /\ \A p \in Pages \ At(t) : prot'[p] = prot[p]
  <2>1. prot \in [Pages -> {"none", "rw"}] /\ Typed
    BY Zenon DEF IInv, Typed
  <2> QED BY <1>3, <2>1, SetProt
<1>5. pc'[t] = "release" /\ loc'[t] = loc[t]
  BY <1>3, Zenon DEF Goto, IInv, Typed
<1>6. NewOK(t)'
  BY <1>2, <1>5, Zenon DEF NewOK, Named
<1>7. hdr' \in [Pages -> {"zero", "MAGIC"}]
  BY <1>3, Zenon DEF IInv, Typed
<1> QED BY <1>1, <1>3, <1>4, <1>6, <1>7, BareStep, Zenon DEF Bare

(* free gives them back. *)
LEMMA ReleaseKeeps ==
    ASSUME IInv, NEW t \in Threads, Release(t)
    PROVE  IInv'
<1>1. /\ pc[t] = "release" /\ va' = va \ PagesOf(loc[t].addr, loc[t].total)
      /\ Return(t, loc[t].old) /\ UNCHANGED <<prot, hdr, meta>>
  BY Zenon DEF Release
<1>2. pc[t] \in Bare
  BY <1>1, Zenon DEF Bare
<1> QED BY <1>1, <1>2, BarePages, ReturnOld, Zenon

(* BIG_ALLOC_MAP.remove. *)
LEMMA UnregisterKeeps ==
    ASSUME IInv, NEW t \in Threads, Unregister(t)
    PROVE  IInv'
<1>1. pc[t] = "remove" /\ pc[t] \in Named
  BY Zenon DEF Unregister, Named
<1>2. PICK a : a = loc[t].addr
  BY Zenon
<1>3. /\ a \in DOMAIN meta /\ Open(Recorded(a)) /\ At(t) = Recorded(a) /\ a \in At(t)
      /\ meta[a] \in Sizes /\ At(t) \cap Old(t) = {} /\ Mine(t) \subseteq va
  BY <1>1, <1>2, Homes, Zenon DEF IInv, ThreadOK, NewOK, At, Bare, Typed, Accounted
<1>4. /\ loc' = [loc EXCEPT ![t].total = total_size(meta[a])] /\ meta' = Without(meta, a)
      /\ Goto(t, "wipe") /\ UNCHANGED <<va, prot, hdr, live>>
  BY <1>2, <1>3, Zenon DEF Unregister
<1>5. PICK r : r = [loc[t] EXCEPT !.total = total_size(meta[a])]
  BY Zenon
<1>6. r \in Locs /\ r.old = loc[t].old /\ r.addr = a /\ r.total = total_size(meta[a])
  <2>1. a \in Nat
    BY <1>3 DEF IInv, Typed, Pages
  <2>2. total_size(meta[a]) \in Nat
    BY <1>3, <2>1, RunIs, Zenon DEF IInv
  <2> QED BY <1>2, <1>5, <2>2, Types, Zenon DEF Locs
<1>7. /\ pc' \in [Threads -> PCs] /\ loc' \in [Threads -> Locs]
      /\ pc'[t] = "wipe" /\ loc'[t] = r
      /\ \A u \in Threads \ {t} : pc'[u] = pc[u] /\ loc'[u] = loc[u]
  <2>1. "wipe" \in PCs /\ Typed
    BY Zenon DEF PCs, IInv
  <2>2. loc' = [loc EXCEPT ![t] = r]
    BY <1>4, <1>5, Zenon
  <2> QED BY <1>4, <1>6, <2>1, <2>2, Control, ZenonT(30) DEF Goto
<1>8. DOMAIN meta' = DOMAIN meta \ {a} /\ \A k \in DOMAIN meta \ {a} : meta'[k] = meta[k]
  BY <1>4, Zenon DEF Without
<1>9. Typed'
  BY <1>4, <1>7, <1>8, Zenon DEF IInv, Typed
<1>10. Old(t)' = Old(t) /\ OldOK(t)'
  BY <1>1, <1>3, <1>4, <1>6, <1>7, <1>8, OldKept, Zenon
<1>11. At(t)' = At(t)
  BY <1>3, <1>6, <1>7, Zenon DEF At, Bare, Recorded, Run
<1>12. ThreadOK(t)'
  <2>1. NewOK(t)' /\ TailOK(t)'
    <3>1. Open(PagesOf(loc[t].addr, loc[t].total))'
      BY <1>3, <1>4, <1>7, <1>11 DEF Open, At, Bare
    <3> QED BY <1>3, <1>6, <1>7, <3>1, Zenon DEF NewOK, TailOK, Named
  <2> QED BY <1>3, <1>7, <1>10, <1>11, <2>1, Zenon DEF ThreadOK
<1>13. Frame(t)
  BY <1>3, <1>4, <1>7, <1>8, <1>9, <1>12, Zenon DEF Frame, Mine
<1>14. DOMAIN meta' \cap Mine(t) \subseteq Keys(t)'
  <2> SUFFICES ASSUME NEW k \in DOMAIN meta', k \in Mine(t)
               PROVE  k \in Keys(t)'
    BY Zenon
  <2>1. k \in Keys(t) /\ k # a
    BY <1>8, KeysHere, Zenon
  <2> QED BY <1>2, <1>6, <1>7, <2>1, Zenon DEF Keys
<1>15. Mine(t)' = Mine(t)
  BY <1>10, <1>11, Zenon DEF Mine
<1> QED BY <1>3, <1>4, <1>13, <1>14, <1>15, Inner, Zenon

(* BIG_ALLOC_MAP.insert. *)
LEMMA RegisterKeeps ==
    ASSUME IInv, NEW t \in Threads, Register(t)
    PROVE  IInv'
<1>1. pc[t] = "register" /\ pc[t] \in Bare /\ pc[t] \notin Named
  BY Zenon DEF Register, Bare, Named
<1>2. PICK a, s : a = loc[t].addr /\ s = loc[t].size
  BY Zenon
<1>3. /\ At(t) = Run(a, s) /\ a \in At(t) /\ At(t) \subseteq Pages /\ Open(At(t)) /\ s \in Sizes
      /\ hdr[a] = "MAGIC" /\ At(t) \cap Old(t) = {} /\ Mine(t) \subseteq va
  BY <1>1, <1>2, BarePages, Zenon DEF IInv, ThreadOK, NewOK, Accounted, Run
<1>4. meta' = Put(meta, a, s) /\ UNCHANGED <<va, prot, hdr>>
  BY <1>2, Zenon DEF Register
<1>5. /\ DOMAIN meta' = DOMAIN meta \cup {a} /\ meta'[a] = s
      /\ \A k \in DOMAIN meta \ {a} : meta'[k] = meta[k]
  BY <1>4, Zenon DEF Put
<1>6. Recorded(a)' = At(t)
  BY <1>3, <1>5, Zenon DEF Recorded, Run
<1>7. Open(Recorded(a))'
  BY <1>3, <1>4, <1>6, Zenon DEF Open
<1>8. /\ DOMAIN meta' \subseteq Pages /\ (\A p \in DOMAIN meta' : meta'[p] \in Sizes)
  BY <1>3, <1>5, Zenon DEF IInv, Typed
<1>9. CASE loc[t].old = NoBlock
  <2>1. PICK b : b = [addr |-> a, size |-> s]
    BY Zenon
  <2>2. Return(t, b)
    BY <1>2, <1>9, <2>1, Zenon DEF Register
  <2>3. b \in Blocks /\ b # NoBlock /\ b.addr = a /\ b.size = s
    BY <1>3, <2>1 DEF Blocks, NoBlock, Pages
  <2>4. live' = live \cup {b}
    BY <2>2, <2>3, Zenon DEF Return
  <2>5. /\ pc' \in [Threads -> PCs] /\ loc' \in [Threads -> Locs]
        /\ \A u \in Threads \ {t} : pc'[u] = pc[u] /\ loc'[u] = loc[u]
        /\ ThreadOK(t)' /\ Mine(t)' = {}
    BY <2>2, Returns, Zenon DEF IInv
  <2>6. Typed'
    BY <1>4, <1>8, <2>3, <2>4, <2>5, Zenon DEF IInv, Typed
  <2>7. BlockOK(b)'
    <3>1. s \in Nat
      BY <1>3, BigAllocationAssumption, Zenon
    <3> QED BY <1>3, <1>4, <1>5, <1>7, <2>3, <3>1 DEF BlockOK, Sound
  <2>8. Mine(t) = At(t)
    BY <1>9, Zenon DEF Mine, Old
  <2>9. Frame(t)
    BY <1>3, <1>4, <1>5, <2>5, <2>6, <2>8, Zenon DEF Frame
  <2>10. DOMAIN meta' \cap Mine(t) \subseteq {b.addr}
    BY <1>1, <1>5, <2>3, <2>8, BareFree, Zenon
  <2> QED BY <1>3, <1>4, <1>6, <2>3, <2>4, <2>5, <2>7, <2>8, <2>9, <2>10, Given, Zenon
<1>10. CASE loc[t].old # NoBlock
  <2>1. Goto(t, "copy") /\ UNCHANGED <<live, loc>>
    BY <1>10, Zenon DEF Register
  <2>2. /\ pc' \in [Threads -> PCs] /\ loc' \in [Threads -> Locs]
        /\ pc'[t] = "copy" /\ loc'[t] = loc[t]
        /\ \A u \in Threads \ {t} : pc'[u] = pc[u] /\ loc'[u] = loc[u]
    BY <2>1, JustGoto, Zenon DEF PCs, IInv
  <2>3. Typed'
    BY <1>4, <1>8, <2>1, <2>2, Zenon DEF IInv, Typed
  <2>4. Old(t)' = Old(t) /\ OldOK(t)'
    BY <1>1, <1>3, <1>4, <1>5, <2>2, OldKept, Zenon
  <2>5. At(t)' = At(t)
    BY <1>2, <1>6, <2>2, Zenon DEF At, Bare, Named
  <2>6. NewOK(t)' /\ TailOK(t)'
    BY <1>2, <1>3, <1>4, <1>5, <1>7, <2>2, Zenon DEF NewOK, TailOK, Named
  <2>7. ThreadOK(t)'
    BY <1>2, <1>3, <1>10, <2>2, <2>4, <2>5, <2>6, Zenon DEF ThreadOK
  <2>8. Frame(t)
    BY <1>3, <1>4, <1>5, <2>2, <2>3, <2>7, Zenon DEF Frame, Mine
  <2>9. DOMAIN meta' \cap Mine(t) \subseteq Keys(t)'
    BY <1>1, <1>2, <1>5, <2>2, BareFree DEF Keys, Named
  <2>10. Mine(t)' = Mine(t)
    BY <2>4, <2>5, Zenon DEF Mine
  <2> QED BY <1>3, <1>4, <2>1, <2>8, <2>9, <2>10, Inner, Zenon
<1> QED BY <1>9, <1>10, Zenon

-----------------------------------------------------------------------------
(* The calls that take a block over from the program. *)

(* An idle thread has nothing. *)
LEMMA IdleHas ==
    ASSUME IInv, NEW t \in Threads, pc[t] = "idle"
    PROVE  At(t) = {} /\ Old(t) = {} /\ Mine(t) = {}
<1>1. loc[t].old = NoBlock
  BY Zenon DEF IInv, ThreadOK
<1> QED BY <1>1, Zenon DEF At, Old, Mine, Bare, Named

(* A block that is freed passes from the program to the call. *)
LEMMA BigFreeKeeps ==
    ASSUME IInv, NEW t \in Threads, BigFree(t)
    PROVE  IInv'
<1>1. PICK b \in live : /\ live' = live \ {b}
                        /\ loc' = [loc EXCEPT ![t] = [NoLoc EXCEPT !.addr = b.addr]]
  BY Zenon DEF BigFree
<1>2. pc[t] = "idle" /\ Goto(t, "check") /\ UNCHANGED <<va, prot, hdr, meta>>
  BY Zenon DEF BigFree
<1>3. PICK r : r = [NoLoc EXCEPT !.addr = b.addr]
  BY Zenon
<1>4. BlockOK(b) /\ b.addr \in DOMAIN meta /\ b.addr \in 0 .. NPages /\ 0 \in Nat
  BY BigAllocationAssumption DEF IInv, BlockOK, Sound, Blocks, Pages
<1>5. r \in Locs /\ r.old = NoBlock /\ r.addr = b.addr
  BY <1>3, <1>4, Zenon DEF NoLoc, Locs
<1>6. /\ pc' \in [Threads -> PCs] /\ loc' \in [Threads -> Locs]
      /\ pc'[t] = "check" /\ loc'[t] = r
      /\ \A u \in Threads \ {t} : pc'[u] = pc[u] /\ loc'[u] = loc[u]
  <2>1. "check" \in PCs /\ Typed
    BY Zenon DEF PCs, IInv
  <2> QED BY <1>1, <1>2, <1>3, <1>5, <2>1, Control, Zenon DEF Goto
<1>7. Typed'
  BY <1>1, <1>2, <1>6, Zenon DEF IInv, Typed
<1>8. At(t)' = Recorded(b.addr) /\ Old(t)' = {}
  BY <1>2, <1>5, <1>6, Zenon DEF At, Old, Bare, Named, Recorded
<1>9. ThreadOK(t)'
  <2>1. OldOK(t)' /\ NewOK(t)' /\ TailOK(t)'
    BY <1>2, <1>4, <1>5, <1>6, Zenon DEF OldOK, NewOK, TailOK, Named, BlockOK, Sound, Open, Recorded
  <2> QED BY <1>6, <1>8, <2>1, Zenon DEF ThreadOK
<1>10. Frame(t)
  BY <1>2, <1>6, <1>7, <1>9, Zenon DEF Frame
<1>11. b.addr \in Keys(t)'
  BY <1>2, <1>4, <1>5, <1>6, Zenon DEF Keys, Named
<1> QED BY <1>1, <1>2, <1>8, <1>10, <1>11, IdleHas, Taken, Zenon DEF Mine

(* malloc_usable_size and realloc take the block b over, with locals r. *)
LEMMA QueryKeeps ==
    ASSUME IInv, NEW t \in Threads, NEW b \in live, NEW l \in {"usable", "validate"}, NEW r,
           r \in [size : Nat, addr : {0}, total : {0}, old : {b}],
           l = "validate" => r.size \in Sizes,
           live' = live \ {b}, loc' = [loc EXCEPT ![t] = r], Goto(t, l),
           pc[t] = "idle", UNCHANGED <<va, prot, hdr, meta>>
    PROVE  IInv'
<1>1. BlockOK(b) /\ b.addr \in DOMAIN meta /\ b \in Blocks /\ b # NoBlock /\ 0 \in 0 .. NPages
  BY BigAllocationAssumption DEF IInv, BlockOK, Sound, Blocks, Pages, NoBlock
<1>2. r \in Locs /\ r.old = b /\ r.old # NoBlock
  BY <1>1 DEF Locs
<1>3. /\ pc' \in [Threads -> PCs] /\ loc' \in [Threads -> Locs]
      /\ pc'[t] = l /\ loc'[t] = r
      /\ \A u \in Threads \ {t} : pc'[u] = pc[u] /\ loc'[u] = loc[u]
  <2>1. l \in PCs /\ Typed
    BY Zenon DEF PCs, IInv
  <2> QED BY <1>2, <2>1, Control, Zenon DEF Goto
<1>4. Typed'
  BY <1>3, Zenon DEF IInv, Typed
<1>5. At(t)' = {} /\ Old(t)' = Recorded(b.addr)
  BY <1>2, <1>3, Zenon DEF At, Old, Bare, Named, Recorded
<1>6. ThreadOK(t)'
  <2>1. Sound(b)' /\ Open(Recorded(b.addr))'
    BY <1>1, Zenon DEF BlockOK, Sound, Open, Recorded
  <2>2. OldOK(t)'
    BY <1>2, <1>3, <2>1, Zenon DEF OldOK
  <2>3. NewOK(t)' /\ TailOK(t)'
    BY <1>3, Zenon DEF NewOK, TailOK, Named
  <2> QED BY <1>2, <1>3, <1>5, <2>2, <2>3, Zenon DEF ThreadOK
<1>7. Frame(t)
  BY <1>3, <1>4, <1>6, Zenon DEF Frame
<1>8. b.addr \in Keys(t)'
  BY <1>1, <1>2, <1>3, Zenon DEF Keys
<1> QED BY <1>5, <1>7, <1>8, IdleHas, Taken, Zenon DEF Mine

(* malloc_usable_size borrows a block of the program. *)
LEMMA UsableSizeKeeps ==
    ASSUME IInv, NEW t \in Threads, UsableSize(t)
    PROVE  IInv'
<1>1. PICK b \in live : /\ live' = live \ {b}
                        /\ loc' = [loc EXCEPT ![t] = [NoLoc EXCEPT !.old = b]]
  BY Zenon DEF UsableSize
<1>2. [NoLoc EXCEPT !.old = b] \in [size : Nat, addr : {0}, total : {0}, old : {b}]
  BY Zenon DEF NoLoc
<1>3. Goto(t, "usable") /\ pc[t] = "idle" /\ UNCHANGED <<va, prot, hdr, meta>>
  BY Zenon DEF UsableSize
<1> QED BY <1>1, <1>2, <1>3, QueryKeeps, Zenon

(* So does realloc. *)
LEMMA ReallocKeeps ==
    ASSUME IInv, NEW t \in Threads, Realloc(t)
    PROVE  IInv'
<1>1. PICK b \in live, size \in Sizes :
         /\ live' = live \ {b}
         /\ loc' = [loc EXCEPT ![t] = [NoLoc EXCEPT !.old = b, !.size = size]]
  BY Zenon DEF Realloc
<1>2. PICK r : r = [NoLoc EXCEPT !.old = b, !.size = size]
  BY Zenon
<1>3. r \in [size : Nat, addr : {0}, total : {0}, old : {b}] /\ r.size \in Sizes
  BY <1>2, BigAllocationAssumption, Zenon DEF NoLoc
<1>4. Goto(t, "validate") /\ pc[t] = "idle" /\ UNCHANGED <<va, prot, hdr, meta>>
  BY Zenon DEF Realloc
<1> QED BY <1>1, <1>2, <1>3, <1>4, QueryKeeps, Zenon

(* malloc_usable_size finds the block registered, and hands it back. *)
LEMMA UsableKeeps ==
    ASSUME IInv, NEW t \in Threads, Usable(t)
    PROVE  IInv'
<1>1. pc[t] = "usable" /\ loc[t].old # NoBlock
  BY Zenon DEF Usable, IInv, ThreadOK
<1>2. Sound(loc[t].old) /\ Open(Recorded(loc[t].old.addr)) /\ loc[t].old.addr \in Old(t)
  BY <1>1, Homes, Zenon DEF IInv, ThreadOK, OldOK
<1>3. Old(t) = Recorded(loc[t].old.addr)
  BY <1>1, Zenon DEF Old
<1>4. Return(t, loc[t].old) /\ UNCHANGED <<va, prot, hdr, meta>>
  BY <1>2, <1>3, Zenon DEF Usable, Sound, Open
<1>5. At(t) = {} /\ pc[t] \notin Named
  BY <1>1, Zenon DEF At, Bare, Named
<1> QED BY <1>1, <1>4, <1>5, ReturnOld, Zenon

-----------------------------------------------------------------------------
(* realloc. *)

(* The block that a realloc is about. *)
LEMMA AtHand ==
    ASSUME IInv, NEW t \in Threads, loc[t].old # NoBlock, NEW a, a = loc[t].old.addr
    PROVE  /\ Sound(loc[t].old) /\ a \in DOMAIN meta /\ a \in Nat /\ a \in Pages /\ a \in Old(t)
           /\ meta[a] \in Sizes /\ loc[t].old.size \in Sizes /\ meta[a] >= loc[t].old.size
           /\ ~OX_FORCE_THP /\ OldTotal(t) = total_size(meta[a])
           /\ loc[t].size \in Sizes => NewTotal(t) = total_size(loc[t].size)
           /\ Mine(t) \subseteq va /\ va \subseteq Pages
<1>1. /\ Sound(loc[t].old) /\ a \in DOMAIN meta /\ a \in Nat /\ a \in Pages /\ meta[a] \in Sizes
      /\ ~OX_FORCE_THP
  BY DEF IInv, ThreadOK, OldOK, Sound, Typed, Pages
<1>2. loc[t].old.size \in Sizes /\ meta[a] >= loc[t].old.size
  BY <1>1, Zenon DEF Sound, Blocks
<1>3. OldTotal(t) = total_size(meta[a])
  BY <1>1, RunIs, Zenon DEF OldTotal
<1>4. loc[t].size \in Sizes => NewTotal(t) = total_size(loc[t].size)
  BY <1>1, RunIs, Zenon DEF NewTotal
<1>5. a \in Old(t)
  BY Homes, Zenon
<1>6. Mine(t) \subseteq va /\ va \subseteq Pages
  BY Zenon DEF IInv, Accounted, Typed
<1> QED BY <1>1, <1>2, <1>3, <1>4, <1>5, <1>6, Zenon

(* The block with another size. *)
LEMMA Resized ==
    ASSUME NEW b, Sound(b), NEW s \in Sizes, NEW c, c = [b EXCEPT !.size = s]
    PROVE  c \in Blocks /\ c # NoBlock /\ c.addr = b.addr /\ c.size = s
<1>1. c \in Blocks /\ c.addr = b.addr /\ c.size = s
  BY Zenon DEF Sound, Blocks
<1>2. s # 0 /\ NoBlock.size = 0
  BY BigAllocationAssumption, Zenon DEF NoBlock
<1> QED BY <1>1, <1>2, Zenon

(* A realloc that is still looking has nothing but the old block. *)
LEMMA Looking ==
    ASSUME IInv, NEW t \in Threads, pc[t] \in {"validate", "resize"}
    PROVE  /\ loc[t].old # NoBlock /\ loc[t].size \in Sizes /\ At(t) = {} /\ pc[t] \notin Named
           /\ Old(t) = Recorded(loc[t].old.addr) /\ Mine(t) = Recorded(loc[t].old.addr)
           /\ Open(Recorded(loc[t].old.addr))
           /\ \A a \in DOMAIN meta \cap Mine(t) : a = loc[t].old.addr
<1>1. loc[t].old # NoBlock /\ loc[t].size \in Sizes /\ Open(Recorded(loc[t].old.addr))
  BY Zenon DEF IInv, ThreadOK, OldOK
<1>2. At(t) = {} /\ Old(t) = Recorded(loc[t].old.addr) /\ pc[t] \notin Named
  BY <1>1, Zenon DEF At, Old, Bare, Named
<1> QED BY <1>1, <1>2, BareFree, Zenon DEF Mine

(* realloc finds a valid header and a registered block. *)
LEMMA ValidateKeeps ==
    ASSUME IInv, NEW t \in Threads, Validate(t)
    PROVE  IInv'
<1>1. pc[t] = "validate" /\ loc[t].old # NoBlock /\ loc[t].size \in Sizes /\ At(t) = {}
  BY Looking, Zenon DEF Validate
<1>2. /\ Sound(loc[t].old) /\ Open(Recorded(loc[t].old.addr)) /\ loc[t].old.addr \in DOMAIN meta
      /\ loc[t].old.addr \in Recorded(loc[t].old.addr)
  BY <1>1, AtHand, Looking, Zenon
<1>3. Goto(t, "resize") /\ UNCHANGED <<va, prot, hdr, meta, live, loc>>
  BY <1>2, Zenon DEF Validate, Sound, Open
<1>4. /\ pc' \in [Threads -> PCs] /\ loc' \in [Threads -> Locs]
      /\ pc'[t] = "resize" /\ loc'[t] = loc[t]
      /\ \A u \in Threads \ {t} : pc'[u] = pc[u] /\ loc'[u] = loc[u]
  BY <1>3, JustGoto, Zenon DEF PCs, IInv
<1>5. Old(t)' = Old(t) /\ OldOK(t)'
  BY <1>1, <1>3, <1>4, OldKept, Zenon
<1>6. At(t)' = {}
  BY <1>4, Zenon DEF At, Bare, Named
<1>7. NewOK(t)' /\ TailOK(t)'
  BY <1>4, Zenon DEF NewOK, TailOK, Named
<1>8. ThreadOK(t)'
  BY <1>1, <1>4, <1>5, <1>6, <1>7, Zenon DEF ThreadOK
<1>9. Keys(t) \subseteq Keys(t)'
  BY <1>1, <1>3, <1>4, Zenon DEF Keys, Named
<1> QED BY <1>1, <1>3, <1>4, <1>5, <1>6, <1>8, <1>9, Still, Zenon DEF Mine

(* A new size that needs as many pages changes no page. *)
LEMMA ResizeSameKeeps ==
    ASSUME IInv, NEW t \in Threads, ResizeSame(t)
    PROVE  IInv'
<1>1. /\ pc[t] = "resize" /\ NewTotal(t) = OldTotal(t) /\ Goto(t, "record")
      /\ UNCHANGED <<va, prot, hdr, meta, live, loc>>
  BY Zenon DEF ResizeSame
<1>2. PICK a : a = loc[t].old.addr
  BY Zenon
<1>3. /\ loc[t].old # NoBlock /\ loc[t].size \in Sizes /\ At(t) = {}
      /\ Old(t) = Recorded(a) /\ Mine(t) = Recorded(a) /\ Open(Recorded(a))
  BY <1>1, <1>2, Looking, Zenon
<1>4. Sound(loc[t].old) /\ total_size(loc[t].size) = total_size(meta[a])
  BY <1>1, <1>2, <1>3, AtHand, Zenon
<1>5. Run(a, loc[t].size) = Recorded(a)
  BY <1>4, Zenon DEF Run, Recorded
<1>6. /\ pc' \in [Threads -> PCs] /\ loc' \in [Threads -> Locs]
      /\ pc'[t] = "record" /\ loc'[t] = loc[t]
      /\ \A u \in Threads \ {t} : pc'[u] = pc[u] /\ loc'[u] = loc[u]
  BY <1>1, JustGoto, Zenon DEF PCs, IInv
<1>7. At(t)' = {} /\ Old(t)' = Old(t)
  BY <1>2, <1>3, <1>5, <1>6, Zenon DEF At, Old, Bare, Named, Run
<1>8. OldOK(t)'
  <2>1. Sound(loc[t].old)' /\ Open(Run(loc[t].old.addr, loc[t].size))'
    BY <1>1, <1>2, <1>3, <1>4, <1>5, <1>6, Zenon DEF Sound, Open, Run
  <2> QED BY <1>6, <2>1, Zenon DEF OldOK
<1>9. NewOK(t)' /\ TailOK(t)'
  BY <1>6, Zenon DEF NewOK, TailOK, Named
<1>10. ThreadOK(t)'
  BY <1>3, <1>6, <1>7, <1>8, <1>9, Zenon DEF ThreadOK
<1>11. Keys(t) \subseteq Keys(t)'
  BY <1>1, <1>6, Zenon DEF Keys, Named
<1> QED BY <1>1, <1>3, <1>6, <1>7, <1>10, <1>11, Still, Zenon DEF Mine

(* BIG_ALLOC_MAP.insert of the new size. *)
LEMMA RecordKeeps ==
    ASSUME IInv, NEW t \in Threads, Record(t)
    PROVE  IInv'
<1>1. PICK a, s : a = loc[t].old.addr /\ s = loc[t].size
  BY Zenon
<1>2. pc[t] = "record" /\ loc[t].old # NoBlock /\ s \in Sizes /\ s \in Nat
  BY <1>1, BigAllocationAssumption, Zenon DEF Record, IInv, ThreadOK
<1>3. /\ Sound(loc[t].old) /\ a \in DOMAIN meta /\ a \in Pages /\ a \in Old(t) /\ Mine(t) \subseteq va
      /\ va \subseteq Pages
  BY <1>1, <1>2, AtHand, Zenon
<1>4. Open(Run(a, s)) /\ Mine(t) = Run(a, s) /\ Old(t) = Run(a, s) /\ pc[t] \notin Named
  BY <1>1, <1>2, Zenon DEF IInv, ThreadOK, OldOK, Mine, At, Old, Bare, Named
<1>5. PICK b : b = [loc[t].old EXCEPT !.size = s]
  BY Zenon
<1>6. b \in Blocks /\ b # NoBlock /\ b.addr = a /\ b.size = s
  BY <1>1, <1>2, <1>3, <1>5, Resized
<1>7. meta' = Put(meta, a, s) /\ Return(t, b) /\ UNCHANGED <<va, prot, hdr>>
  BY <1>1, <1>5, Zenon DEF Record
<1>8. /\ DOMAIN meta' = DOMAIN meta /\ meta'[a] = s
      /\ \A k \in DOMAIN meta \ {a} : meta'[k] = meta[k]
  BY <1>3, <1>7, Zenon DEF Put
<1>9. live' = live \cup {b}
  BY <1>6, <1>7, Zenon DEF Return
<1>10. /\ pc' \in [Threads -> PCs] /\ loc' \in [Threads -> Locs]
       /\ \A u \in Threads \ {t} : pc'[u] = pc[u] /\ loc'[u] = loc[u]
       /\ ThreadOK(t)' /\ Mine(t)' = {}
  BY <1>7, Returns, Zenon DEF IInv
<1>11. Typed'
  <2>1. \A p \in DOMAIN meta' : meta'[p] \in Sizes
    BY <1>2, <1>8, Zenon DEF IInv, Typed
  <2> QED BY <1>6, <1>7, <1>8, <1>9, <1>10, <2>1, Zenon DEF IInv, Typed
<1>12. Recorded(b.addr)' = Run(a, s)
  BY <1>6, <1>8, Zenon DEF Recorded, Run
<1>13. BlockOK(b)'
  <2>1. Sound(b)'
    BY <1>1, <1>2, <1>3, <1>6, <1>7, <1>8 DEF Sound
  <2>2. Open(Recorded(b.addr))'
    BY <1>4, <1>7, <1>12, Zenon DEF Open
  <2> QED BY <2>1, <2>2, Zenon DEF BlockOK
<1>14. Frame(t)
  BY <1>3, <1>4, <1>7, <1>8, <1>10, <1>11, Zenon DEF Frame
<1>15. DOMAIN meta' \cap Mine(t) \subseteq {b.addr}
  BY <1>1, <1>4, <1>6, <1>8, BareFree, Zenon
<1>16. va' = (va \ Mine(t)) \cup Recorded(b.addr)' /\ Recorded(b.addr)' \subseteq Mine(t)
  BY <1>3, <1>4, <1>7, <1>12, Zenon
<1> QED BY <1>9, <1>10, <1>13, <1>14, <1>15, <1>16, Given, Zenon

(* The tail to be cut off is discarded, and lies behind what is kept. *)
LEMMA ShrinkKeeps ==
    ASSUME IInv, NEW t \in Threads, Shrink(t)
    PROVE  IInv'
<1>1. PICK a, s, tail, len :
         /\ a = loc[t].old.addr /\ s = loc[t].size
         /\ tail = a + NewTotal(t) \div PAGE /\ len = OldTotal(t) - NewTotal(t)
  BY Zenon
<1>2. /\ pc[t] = "resize" /\ NewTotal(t) < OldTotal(t)
      /\ hdr' = Set(hdr, PagesOf(tail, len), "zero")
      /\ loc' = [loc EXCEPT ![t].addr = tail, ![t].total = len]
      /\ Goto(t, "shrunk") /\ UNCHANGED <<va, prot, meta, live>>
  BY <1>1, Zenon DEF Shrink
<1>3. /\ loc[t].old # NoBlock /\ s \in Sizes /\ At(t) = {} /\ pc[t] \notin Named
      /\ Old(t) = Recorded(a) /\ Mine(t) = Recorded(a) /\ Open(Recorded(a))
  BY <1>1, <1>2, Looking, Zenon
<1>4. /\ Sound(loc[t].old) /\ a \in DOMAIN meta /\ a \in Nat /\ meta[a] \in Sizes /\ ~OX_FORCE_THP
      /\ OldTotal(t) = total_size(meta[a]) /\ NewTotal(t) = total_size(s)
      /\ Mine(t) \subseteq va /\ va \subseteq Pages
  BY <1>1, <1>3, AtHand, Zenon
<1>5. /\ tail \in Nat /\ len \in Nat /\ tail \in Recorded(a)
      /\ Recorded(a) = Run(a, s) \cup PagesOf(tail, len)
      /\ Run(a, s) \cap PagesOf(tail, len) = {}
  <2>1. /\ total_size(s) < total_size(meta[a]) /\ tail = a + total_size(s) \div PAGE
        /\ len = total_size(meta[a]) - total_size(s)
    BY <1>1, <1>2, <1>4, Zenon
  <2> QED BY <1>3, <1>4, <2>1, TailIs DEF Recorded
<1>6. PICK r : r = [loc[t] EXCEPT !.addr = tail, !.total = len]
  BY Zenon
<1>7. r \in Locs /\ r.old = loc[t].old /\ r.size = s /\ r.addr = tail /\ r.total = len
  <2>1. tail \in 0 .. NPages
    <3>1. tail \in Pages
      BY <1>3, <1>4, <1>5, Zenon
    <3> QED BY <3>1, BigAllocationAssumption DEF Pages
  <2> QED BY <1>1, <1>5, <1>6, <2>1, Types, ZenonT(30) DEF Locs
<1>8. /\ pc' \in [Threads -> PCs] /\ loc' \in [Threads -> Locs]
      /\ pc'[t] = "shrunk" /\ loc'[t] = r
      /\ \A u \in Threads \ {t} : pc'[u] = pc[u] /\ loc'[u] = loc[u]
  <2>1. "shrunk" \in PCs /\ Typed /\ loc \in [Threads -> Locs] /\ loc[t] \in Locs
    BY Types, Zenon DEF PCs, IInv, Typed
  <2>2. loc' = [loc EXCEPT ![t] = r]
    BY <1>2, <1>6, <2>1, Zenon DEF Locs
  <2> QED BY <1>2, <1>7, <2>1, <2>2, Control, Zenon DEF Goto
<1>9. /\ hdr' \in [Pages -> {"zero", "MAGIC"}]
      /\ \A p \in Pages \ PagesOf(tail, len) : hdr'[p] = hdr[p]
  BY <1>2, SetHdr, Zenon DEF IInv
<1>10. Typed'
  BY <1>2, <1>8, <1>9, Zenon DEF IInv, Typed
<1>11. At(t)' = {} /\ Old(t)' = Recorded(a)
  BY <1>1, <1>2, <1>3, <1>7, <1>8, Zenon DEF At, Old, Bare, Named, Recorded
<1>12. OldOK(t)'
  <2>1. a \in Run(a, s) /\ a \in Pages
    BY <1>3, <1>4, RunIs, Zenon DEF IInv, Typed
  <2>2. hdr'[a] = hdr[a]
    BY <1>5, <1>9, <2>1, Zenon
  <2>3. Sound(loc[t].old)'
    BY <1>1, <1>2, <1>4, <1>7, <1>8, <2>2, Zenon DEF Sound
  <2>4. Open(Run(a, s))'
    BY <1>2, <1>3, <1>5, Zenon DEF Open, Run
  <2>5. Open(Run(loc[t].old.addr, loc[t].size))'
    BY <1>1, <1>7, <1>8, <2>4, Zenon
  <2> QED BY <1>7, <1>8, <2>3, <2>5, Zenon DEF OldOK
<1>13. NewOK(t)' /\ TailOK(t)'
  BY <1>1, <1>2, <1>4, <1>7, <1>8, Zenon DEF NewOK, TailOK, Named
<1>14. ThreadOK(t)'
  BY <1>3, <1>7, <1>8, <1>11, <1>12, <1>13, Zenon DEF ThreadOK
<1>15. Frame(t)
  BY <1>2, <1>3, <1>4, <1>5, <1>8, <1>9, <1>10, <1>14 DEF Frame
<1>16. DOMAIN meta' \cap Mine(t) \subseteq Keys(t)'
  BY <1>2, <1>3, <1>7, <1>8, BareFree DEF Keys
<1>17. Mine(t)' = Mine(t)
  BY <1>3, <1>11, Zenon DEF Mine
<1> QED BY <1>2, <1>4, <1>15, <1>16, <1>17, Inner, Zenon

(* The block keeps its pages, and a recorded size that is more than was    *)
(* asked for.                                                              *)
LEMMA ShrinkFailKeeps ==
    ASSUME IInv, NEW t \in Threads, ShrinkFail(t)
    PROVE  IInv'
<1>1. PICK a, s, b : a = loc[t].old.addr /\ s = loc[t].size /\ b = [loc[t].old EXCEPT !.size = s]
  BY Zenon
<1>2. /\ pc[t] = "resize" /\ NewTotal(t) < OldTotal(t) /\ Return(t, b)
      /\ UNCHANGED <<va, prot, hdr, meta>>
  BY <1>1, Zenon DEF ShrinkFail
<1>3. /\ loc[t].old # NoBlock /\ s \in Sizes /\ Mine(t) = Recorded(a) /\ Open(Recorded(a))
      /\ \A k \in DOMAIN meta \cap Mine(t) : k = a
  BY <1>1, <1>2, Looking, Zenon
<1>4. /\ Sound(loc[t].old) /\ a \in DOMAIN meta /\ meta[a] \in Sizes /\ ~OX_FORCE_THP
      /\ total_size(s) < total_size(meta[a]) /\ Mine(t) \subseteq va
  BY <1>1, <1>2, <1>3, AtHand, Zenon
<1>5. meta[a] >= s
  <2>1. PICK m \in Nat \ {0}, n \in Nat \ {0} : m = meta[a] /\ n = s
    BY <1>3, <1>4, BigAllocationAssumption, Zenon
  <2>2. total_size(n) < total_size(m) <=> Num(n) < Num(m)
    BY <1>4, <2>1, Differs, Zenon
  <2>3. Num(n) < Num(m)
    BY <1>4, <2>1, <2>2, Zenon
  <2>4. CASE m < n
    <3>1. Num(m) <= Num(n) /\ Num(m) \in Nat /\ Num(n) \in Nat
      BY <1>4, <2>1, <2>4, Grows, Totals
    <3> QED BY <2>3, <3>1
  <2> QED BY <2>1, <2>4
<1>6. b \in Blocks /\ b # NoBlock /\ b.addr = a /\ b.size = s
  BY <1>1, <1>3, <1>4, Resized
<1>7. live' = live \cup {b}
  BY <1>2, <1>6, Zenon DEF Return
<1>8. /\ pc' \in [Threads -> PCs] /\ loc' \in [Threads -> Locs]
      /\ \A u \in Threads \ {t} : pc'[u] = pc[u] /\ loc'[u] = loc[u]
      /\ ThreadOK(t)' /\ Mine(t)' = {}
  BY <1>2, Returns, Zenon DEF IInv
<1>9. Typed'
  BY <1>2, <1>6, <1>7, <1>8, Zenon DEF IInv, Typed
<1>10. BlockOK(b)' /\ Recorded(b.addr)' = Recorded(a)
  BY <1>1, <1>2, <1>3, <1>4, <1>5, <1>6, Zenon DEF BlockOK, Sound, Open, Recorded
<1>11. Frame(t)
  BY <1>2, <1>8, <1>9, Zenon DEF Frame
<1> QED BY <1>2, <1>3, <1>4, <1>6, <1>7, <1>8, <1>10, <1>11, Given, Zenon

(* A block that is being cut is what will be left of it and its tail. *)
LEMMA Cutting ==
    ASSUME IInv, NEW t \in Threads, pc[t] \in {"shrunk", "cut"},
           NEW a, NEW s, NEW T, a = loc[t].old.addr, s = loc[t].size,
           T = PagesOf(loc[t].addr, loc[t].total)
    PROVE  /\ loc[t].old # NoBlock /\ s \in Sizes /\ At(t) = {} /\ pc[t] \notin Named
           /\ Old(t) = Recorded(a) /\ Mine(t) = Recorded(a) /\ Recorded(a) = Run(a, s) \cup T
           /\ Run(a, s) \cap T = {} /\ a \in Run(a, s) /\ Open(Run(a, s)) /\ Sound(loc[t].old)
           /\ Mine(t) \subseteq va /\ va \subseteq Pages /\ a \in DOMAIN meta
<1>1. loc[t].old # NoBlock /\ s \in Sizes /\ Open(Run(a, s)) /\ TailOK(t)
  BY Zenon DEF IInv, ThreadOK, OldOK
<1>2. /\ Sound(loc[t].old) /\ a \in DOMAIN meta /\ a \in Nat /\ meta[a] \in Sizes /\ ~OX_FORCE_THP
      /\ Mine(t) \subseteq va /\ va \subseteq Pages
  BY <1>1, AtHand, Zenon
<1>3. At(t) = {} /\ Old(t) = Recorded(a) /\ pc[t] \notin Named
  BY <1>1, Zenon DEF At, Old, Bare, Named
<1>4. /\ total_size(s) < total_size(meta[a]) /\ loc[t].addr = a + total_size(s) \div PAGE
      /\ loc[t].total = total_size(meta[a]) - total_size(s)
  BY <1>1, Zenon DEF TailOK
<1>5. Recorded(a) = Run(a, s) \cup T /\ Run(a, s) \cap T = {}
  BY <1>1, <1>2, <1>4, TailIs DEF Recorded
<1>6. a \in Run(a, s)
  BY <1>1, <1>2, RunIs, Zenon
<1>7. Mine(t) = Recorded(a)
  BY <1>3, Zenon DEF Mine
<1> QED BY <1>1, <1>2, <1>3, <1>5, <1>6, <1>7, Zenon

(* The tail is made inaccessible. *)
LEMMA ShrinkProtectKeeps ==
    ASSUME IInv, NEW t \in Threads, ShrinkProtect(t)
    PROVE  IInv'
<1>1. PICK a, s, T : /\ a = loc[t].old.addr /\ s = loc[t].size
                     /\ T = PagesOf(loc[t].addr, loc[t].total)
  BY Zenon
<1>2. /\ pc[t] = "shrunk" /\ Goto(t, "cut") /\ UNCHANGED <<va, hdr, meta, live, loc>>
      /\ prot' \in {prot, Set(prot, T, "none")}
  BY <1>1, Zenon DEF ShrinkProtect
<1>3. /\ loc[t].old # NoBlock /\ s \in Sizes /\ At(t) = {} /\ pc[t] \notin Named
      /\ Old(t) = Recorded(a) /\ Mine(t) = Recorded(a) /\ Recorded(a) = Run(a, s) \cup T
      /\ Run(a, s) \cap T = {} /\ Open(Run(a, s)) /\ Sound(loc[t].old)
      /\ Mine(t) \subseteq va /\ va \subseteq Pages
  BY <1>1, <1>2, Cutting
<1>4. /\ pc' \in [Threads -> PCs] /\ loc' \in [Threads -> Locs]
      /\ pc'[t] = "cut" /\ loc'[t] = loc[t]
      /\ \A u \in Threads \ {t} : pc'[u] = pc[u] /\ loc'[u] = loc[u]
  BY <1>2, JustGoto, Zenon DEF PCs, IInv
<1>5. prot' \in [Pages -> {"none", "rw"}] /\ \A p \in Pages \ T : prot'[p] = prot[p]
  <2>1. prot \in [Pages -> {"none", "rw"}] /\ Typed
    BY Zenon DEF IInv, Typed
  <2> QED BY <1>2, <2>1, SetProt
<1>6. Typed'
  BY <1>2, <1>4, <1>5, Zenon DEF IInv, Typed
<1>7. At(t)' = {} /\ Old(t)' = Recorded(a)
  BY <1>1, <1>2, <1>3, <1>4, Zenon DEF At, Old, Bare, Named, Recorded
<1>8. OldOK(t)'
  <2>1. Sound(loc[t].old)'
    BY <1>2, <1>3, <1>4, Zenon DEF Sound
  <2>2. Open(Run(a, s))'
    BY <1>3, <1>5, Zenon DEF Open, Run
  <2>3. Open(Run(loc[t].old.addr, loc[t].size))'
    BY <1>1, <1>4, <2>2, Zenon
  <2> QED BY <1>4, <2>1, <2>3, Zenon DEF OldOK
<1>9. NewOK(t)' /\ TailOK(t)'
  BY <1>2, <1>4, Zenon DEF NewOK, TailOK, Named, IInv, ThreadOK
<1>10. ThreadOK(t)'
  BY <1>1, <1>3, <1>4, <1>7, <1>8, <1>9, Zenon DEF ThreadOK
<1>11. Frame(t)
  BY <1>2, <1>3, <1>4, <1>5, <1>6, <1>10, Zenon DEF Frame
<1>12. DOMAIN meta' \cap Mine(t) \subseteq Keys(t)'
  BY <1>2, <1>3, <1>4, BareFree, Zenon DEF Keys
<1>13. Mine(t)' = Mine(t)
  BY <1>3, <1>7, Zenon DEF Mine
<1> QED BY <1>2, <1>3, <1>11, <1>12, <1>13, Inner, Zenon

(* The tail is given back. *)
LEMMA ShrinkReleaseKeeps ==
    ASSUME IInv, NEW t \in Threads, ShrinkRelease(t)
    PROVE  IInv'
<1>1. PICK a, s, T : /\ a = loc[t].old.addr /\ s = loc[t].size
                     /\ T = PagesOf(loc[t].addr, loc[t].total)
  BY Zenon
<1>2. /\ pc[t] = "cut" /\ Goto(t, "record") /\ UNCHANGED <<prot, hdr, meta, live, loc>>
      /\ va' = va \ T
  BY <1>1, Zenon DEF ShrinkRelease
<1>3. /\ loc[t].old # NoBlock /\ s \in Sizes /\ At(t) = {} /\ pc[t] \notin Named
      /\ Old(t) = Recorded(a) /\ Mine(t) = Recorded(a) /\ Recorded(a) = Run(a, s) \cup T
      /\ Run(a, s) \cap T = {} /\ Open(Run(a, s)) /\ Sound(loc[t].old)
      /\ Mine(t) \subseteq va /\ va \subseteq Pages
  BY <1>1, <1>2, Cutting
<1>4. /\ pc' \in [Threads -> PCs] /\ loc' \in [Threads -> Locs]
      /\ pc'[t] = "record" /\ loc'[t] = loc[t]
      /\ \A u \in Threads \ {t} : pc'[u] = pc[u] /\ loc'[u] = loc[u]
  BY <1>2, JustGoto, Zenon DEF PCs, IInv
<1>5. Typed'
  BY <1>2, <1>3, <1>4, Zenon DEF IInv, Typed
<1>6. At(t)' = {} /\ Old(t)' = Run(a, s)
  BY <1>1, <1>3, <1>4, Zenon DEF At, Old, Bare, Named, Run
<1>7. OldOK(t)'
  <2>1. Sound(loc[t].old)' /\ Open(Run(loc[t].old.addr, loc[t].size))'
    BY <1>1, <1>2, <1>3, <1>4, Zenon DEF Sound, Open, Run
  <2> QED BY <1>4, <2>1, Zenon DEF OldOK
<1>8. NewOK(t)' /\ TailOK(t)'
  BY <1>4, Zenon DEF NewOK, TailOK, Named
<1>9. ThreadOK(t)'
  BY <1>1, <1>3, <1>4, <1>6, <1>7, <1>8, Zenon DEF ThreadOK
<1>10. Frame(t)
  BY <1>2, <1>4, <1>5, <1>9, Zenon DEF Frame
<1>11. DOMAIN meta' \cap Mine(t) \subseteq Keys(t)'
  BY <1>2, <1>3, <1>4, BareFree, Zenon DEF Keys
<1>12. Mine(t)' = Run(a, s)
  BY <1>6, Zenon DEF Mine
<1>13. va' = (va \ Mine(t)) \cup Mine(t)' /\ Mine(t)' \cap va \subseteq Mine(t)
  BY <1>2, <1>3, <1>12, Zenon
<1> QED BY <1>2, <1>10, <1>11, <1>13, Inner, Zenon

(* The pages behind the block are taken if nobody has them. *)
LEMMA ExtendKeeps ==
    ASSUME IInv, NEW t \in Threads, Extend(t)
    PROVE  IInv'
<1>1. PICK a, s, tail, len, T :
         /\ a = loc[t].old.addr /\ s = loc[t].size
         /\ tail = a + OldTotal(t) \div PAGE /\ len = NewTotal(t) - OldTotal(t)
         /\ T = PagesOf(tail, len)
  BY Zenon
<1>2. /\ pc[t] = "resize" /\ NewTotal(t) > OldTotal(t) /\ T \subseteq Pages \ va /\ va' = va \cup T
      /\ loc' = [loc EXCEPT ![t].addr = tail, ![t].total = len]
      /\ Goto(t, "grown") /\ UNCHANGED <<prot, hdr, meta, live>>
  BY <1>1, Zenon DEF Extend
<1>3. /\ loc[t].old # NoBlock /\ s \in Sizes /\ At(t) = {} /\ pc[t] \notin Named
      /\ Old(t) = Recorded(a) /\ Mine(t) = Recorded(a) /\ Open(Recorded(a))
  BY <1>1, <1>2, Looking, Zenon
<1>4. /\ Sound(loc[t].old) /\ a \in DOMAIN meta /\ a \in Nat /\ meta[a] \in Sizes /\ ~OX_FORCE_THP
      /\ OldTotal(t) = total_size(meta[a]) /\ NewTotal(t) = total_size(s)
      /\ Mine(t) \subseteq va /\ va \subseteq Pages
  BY <1>1, <1>3, AtHand, Zenon
<1>5. total_size(meta[a]) < total_size(s)
  <2>1. total_size(meta[a]) \in Nat /\ total_size(s) \in Nat
    BY <1>3, <1>4, RunIs, ZenonT(30)
  <2> QED BY <1>2, <1>4, <2>1, Zenon
<1>6. tail \in Nat /\ len \in Nat /\ tail \in T /\ Run(a, s) = Recorded(a) \cup T
  <2>1. tail = a + total_size(meta[a]) \div PAGE /\ len = total_size(s) - total_size(meta[a])
    BY <1>1, <1>4, Zenon
  <2> QED BY <1>1, <1>3, <1>4, <1>5, <2>1, TailIs DEF Recorded
<1>7. PICK r : r = [loc[t] EXCEPT !.addr = tail, !.total = len]
  BY Zenon
<1>8. r \in Locs /\ r.old = loc[t].old /\ r.size = s /\ r.addr = tail /\ r.total = len
  <2>1. tail \in 0 .. NPages
    <3>1. tail \in Pages
      BY <1>2, <1>6, Zenon
    <3> QED BY <3>1, BigAllocationAssumption DEF Pages
  <2> QED BY <1>1, <1>6, <1>7, <2>1, Types, Zenon DEF Locs
<1>9. /\ pc' \in [Threads -> PCs] /\ loc' \in [Threads -> Locs]
      /\ pc'[t] = "grown" /\ loc'[t] = r
      /\ \A u \in Threads \ {t} : pc'[u] = pc[u] /\ loc'[u] = loc[u]
  <2>1. "grown" \in PCs /\ Typed /\ loc \in [Threads -> Locs] /\ loc[t] \in Locs
    BY Types, Zenon DEF PCs, IInv, Typed
  <2>2. loc' = [loc EXCEPT ![t] = r]
    BY <1>2, <1>7, <2>1, Zenon DEF Locs
  <2> QED BY <1>2, <1>8, <2>1, <2>2, Control, Zenon DEF Goto
<1>10. Typed'
  BY <1>2, <1>4, <1>9, Zenon DEF IInv, Typed
<1>11. At(t)' = {} /\ Old(t)' = Run(a, s)
  BY <1>1, <1>3, <1>8, <1>9, Zenon DEF At, Old, Bare, Named, Run
<1>12. OldOK(t)'
  <2>1. Sound(loc[t].old)' /\ Open(Recorded(loc[t].old.addr))'
    BY <1>1, <1>2, <1>3, <1>4, <1>8, <1>9, Zenon DEF Sound, Open, Recorded
  <2> QED BY <1>9, <2>1, Zenon DEF OldOK
<1>13. NewOK(t)' /\ TailOK(t)'
  BY <1>1, <1>2, <1>4, <1>5, <1>8, <1>9, Zenon DEF NewOK, TailOK, Named
<1>14. ThreadOK(t)'
  BY <1>3, <1>8, <1>9, <1>11, <1>12, <1>13, Zenon DEF ThreadOK
<1>15. Frame(t)
  BY <1>2, <1>9, <1>10, <1>14, Zenon DEF Frame
<1>16. DOMAIN meta' \cap Mine(t) \subseteq Keys(t)'
  BY <1>2, <1>3, <1>8, <1>9, BareFree DEF Keys
<1>17. Mine(t)' = Recorded(a) \cup T
  BY <1>6, <1>11, Zenon DEF Mine
<1>18. va' = (va \ Mine(t)) \cup Mine(t)' /\ Mine(t)' \cap va \subseteq Mine(t)
  BY <1>2, <1>3, <1>4, <1>17, Zenon
<1> QED BY <1>2, <1>15, <1>16, <1>18, Inner, Zenon

(* A realloc gives back the pages T it took beyond the block, if it did,   *)
(* and goes on to malloc, copy and free.                                   *)
LEMMA MoveKeeps ==
    ASSUME IInv, NEW t \in Threads, Move(t), UNCHANGED <<prot, hdr, meta, live>>,
           pc[t] \notin Named, At(t) = {}, loc[t].old # NoBlock, loc[t].size \in Sizes,
           NEW a, a = loc[t].old.addr, Open(Recorded(a)), Recorded(a) \subseteq Mine(t),
           va' = va \ (Mine(t) \ Recorded(a))
    PROVE  IInv'
<1>1. PICK s, r : s = loc[t].size /\ r = [loc[t] EXCEPT !.addr = 0, !.total = total_size(s)]
  BY Zenon
<1>2. Sound(loc[t].old) /\ a \in DOMAIN meta /\ Mine(t) \subseteq va /\ va \subseteq Pages /\ a \in Nat
  BY AtHand, Zenon
<1>3. r \in Locs /\ r.old = loc[t].old /\ r.size = s /\ r.total = total_size(s)
  <2>1. total_size(s) \in Nat
    BY <1>1, <1>2, RunIs, Zenon DEF IInv
  <2>2. 0 \in 0 .. NPages
    BY BigAllocationAssumption
  <2> QED BY <1>1, <2>1, <2>2, Types, Zenon DEF Locs
<1>4. /\ pc' \in [Threads -> PCs] /\ loc' \in [Threads -> Locs]
      /\ pc'[t] = "reserve" /\ loc'[t] = r
      /\ \A u \in Threads \ {t} : pc'[u] = pc[u] /\ loc'[u] = loc[u]
  <2>1. "reserve" \in PCs /\ Typed /\ loc \in [Threads -> Locs] /\ loc[t] \in Locs
    BY Types, Zenon DEF PCs, IInv, Typed
  <2>2. loc' = [loc EXCEPT ![t] = r]
    <3>1. PICK n : n = total_size(s)
      BY Zenon
    <3>2. loc' = [loc EXCEPT ![t].addr = 0, ![t].total = n]
      BY <1>1, <3>1, Zenon DEF Move
    <3>3. r = [loc[t] EXCEPT !.addr = 0, !.total = n]
      BY <1>1, <3>1, Zenon
    <3> QED BY <2>1, <3>2, <3>3, Zenon DEF Locs
  <2> QED BY <1>3, <2>1, <2>2, Control, Zenon DEF Goto, Move
<1>5. Typed'
  BY <1>2, <1>4, Zenon DEF IInv, Typed
<1>6. At(t)' = {} /\ Old(t)' = Recorded(a)
  BY <1>3, <1>4, Zenon DEF At, Old, Bare, Named, Recorded
<1>7. OldOK(t)'
  <2>1. Sound(loc[t].old)' /\ Open(Recorded(loc[t].old.addr))'
    BY <1>2, <1>3, <1>4, Zenon DEF Sound, Open, Recorded
  <2> QED BY <1>4, <2>1, Zenon DEF OldOK
<1>8. NewOK(t)' /\ TailOK(t)'
  BY <1>3, <1>4, Zenon DEF NewOK, TailOK, Named
<1>9. ThreadOK(t)'
  BY <1>1, <1>3, <1>4, <1>6, <1>7, <1>8, Zenon DEF ThreadOK
<1>10. Frame(t)
  BY <1>4, <1>5, <1>9, Zenon DEF Frame
<1>11. DOMAIN meta' \cap Mine(t) \subseteq Keys(t)'
  BY <1>3, <1>4, BareFree DEF Keys
<1>12. Mine(t)' = Recorded(a)
  BY <1>6, Zenon DEF Mine
<1>13. va' = (va \ Mine(t)) \cup Mine(t)' /\ Mine(t)' \cap va \subseteq Mine(t)
  BY <1>2, <1>12, Zenon
<1> QED BY <1>10, <1>11, <1>13, Inner, Zenon

(* If somebody may have them realloc goes on to move the block. *)
LEMMA ExtendFailKeeps ==
    ASSUME IInv, NEW t \in Threads, ExtendFail(t)
    PROVE  IInv'
<1>1. PICK a : a = loc[t].old.addr
  BY Zenon
<1>2. pc[t] = "resize" /\ Move(t) /\ UNCHANGED <<va, prot, hdr, meta, live>>
  BY Zenon DEF ExtendFail
<1>3. /\ loc[t].old # NoBlock /\ loc[t].size \in Sizes /\ At(t) = {} /\ pc[t] \notin Named
      /\ Mine(t) = Recorded(a) /\ Open(Recorded(a))
  BY <1>1, <1>2, Looking, Zenon
<1>4. va' = va \ (Mine(t) \ Recorded(a))
  BY <1>2, <1>3, Zenon
<1> QED BY <1>1, <1>2, <1>3, <1>4, MoveKeeps, Zenon

(* A block that is being extended is the old one and the new tail. *)
LEMMA Growing ==
    ASSUME IInv, NEW t \in Threads, pc[t] = "grown",
           NEW a, NEW s, NEW T, a = loc[t].old.addr, s = loc[t].size,
           T = PagesOf(loc[t].addr, loc[t].total)
    PROVE  /\ loc[t].old # NoBlock /\ s \in Sizes /\ At(t) = {} /\ pc[t] \notin Named
           /\ Old(t) = Run(a, s) /\ Mine(t) = Run(a, s) /\ Run(a, s) = Recorded(a) \cup T
           /\ Recorded(a) \cap T = {} /\ Open(Recorded(a)) /\ Sound(loc[t].old)
           /\ Mine(t) \subseteq va /\ va \subseteq Pages /\ a \in DOMAIN meta
<1>1. loc[t].old # NoBlock /\ s \in Sizes /\ Open(Recorded(a)) /\ TailOK(t)
  BY Zenon DEF IInv, ThreadOK, OldOK
<1>2. /\ Sound(loc[t].old) /\ a \in DOMAIN meta /\ a \in Nat /\ meta[a] \in Sizes /\ ~OX_FORCE_THP
      /\ Mine(t) \subseteq va /\ va \subseteq Pages
  BY <1>1, AtHand, Zenon
<1>3. At(t) = {} /\ Old(t) = Run(a, s) /\ pc[t] \notin Named
  BY <1>1, Zenon DEF At, Old, Bare, Named
<1>4. /\ total_size(meta[a]) < total_size(s) /\ loc[t].addr = a + total_size(meta[a]) \div PAGE
      /\ loc[t].total = total_size(s) - total_size(meta[a])
  BY <1>1, Zenon DEF TailOK
<1>5. Run(a, s) = Recorded(a) \cup T /\ Recorded(a) \cap T = {}
  BY <1>1, <1>2, <1>4, TailIs DEF Recorded
<1>6. Mine(t) = Run(a, s)
  BY <1>3, Zenon DEF Mine
<1> QED BY <1>1, <1>2, <1>3, <1>5, <1>6, Zenon

(* Added pages that cannot be made accessible are given back. *)
LEMMA ExtendUndoKeeps ==
    ASSUME IInv, NEW t \in Threads, ExtendUndo(t)
    PROVE  IInv'
<1>1. PICK a, s, T : /\ a = loc[t].old.addr /\ s = loc[t].size
                     /\ T = PagesOf(loc[t].addr, loc[t].total)
  BY Zenon
<1>2. pc[t] = "grown" /\ Move(t) /\ UNCHANGED <<prot, hdr, meta, live>> /\ va' = va \ T
  BY <1>1, Zenon DEF ExtendUndo
<1>3. /\ loc[t].old # NoBlock /\ loc[t].size \in Sizes /\ At(t) = {} /\ pc[t] \notin Named
      /\ Mine(t) = Recorded(a) \cup T /\ Recorded(a) \cap T = {} /\ Open(Recorded(a))
  BY <1>1, <1>2, Growing
<1>4. va' = va \ (Mine(t) \ Recorded(a))
  BY <1>2, <1>3, Zenon
<1> QED BY <1>1, <1>2, <1>3, <1>4, MoveKeeps, Zenon

(* Added pages become part of the block once they are accessible. *)
LEMMA ExtendProtectKeeps ==
    ASSUME IInv, NEW t \in Threads, ExtendProtect(t)
    PROVE  IInv'
<1>1. PICK a, s, T : /\ a = loc[t].old.addr /\ s = loc[t].size
                     /\ T = PagesOf(loc[t].addr, loc[t].total)
  BY Zenon
<1>2. /\ pc[t] = "grown" /\ Goto(t, "record") /\ UNCHANGED <<va, hdr, meta, live, loc>>
      /\ prot' = Set(prot, T, "rw")
  BY <1>1, Zenon DEF ExtendProtect
<1>3. /\ loc[t].old # NoBlock /\ s \in Sizes /\ At(t) = {} /\ pc[t] \notin Named
      /\ Old(t) = Run(a, s) /\ Mine(t) = Run(a, s) /\ Run(a, s) = Recorded(a) \cup T
      /\ Recorded(a) \cap T = {} /\ Open(Recorded(a)) /\ Sound(loc[t].old)
      /\ Mine(t) \subseteq va /\ va \subseteq Pages
  BY <1>1, <1>2, Growing
<1>4. /\ pc' \in [Threads -> PCs] /\ loc' \in [Threads -> Locs]
      /\ pc'[t] = "record" /\ loc'[t] = loc[t]
      /\ \A u \in Threads \ {t} : pc'[u] = pc[u] /\ loc'[u] = loc[u]
  BY <1>2, JustGoto, Zenon DEF PCs, IInv
<1>5. /\ prot' \in [Pages -> {"none", "rw"}] /\ \A p \in Pages \ T : prot'[p] = prot[p]
      /\ \A p \in Pages \cap T : prot'[p] = "rw"
  BY <1>2, SetProt DEF IInv
<1>6. Typed'
  BY <1>2, <1>4, <1>5, Zenon DEF IInv, Typed
<1>7. At(t)' = {} /\ Old(t)' = Run(a, s)
  BY <1>1, <1>3, <1>4, Zenon DEF At, Old, Bare, Named, Run
<1>8. OldOK(t)'
  <2>1. Sound(loc[t].old)'
    BY <1>2, <1>3, <1>4, Zenon DEF Sound
  <2>2. Open(Run(a, s))'
    <3>1. \A p \in Run(a, s) : prot'[p] = "rw"
      BY <1>3, <1>5, Zenon DEF Open
    <3> QED BY <3>1, Zenon DEF Open, Run
  <2>3. Open(Run(loc[t].old.addr, loc[t].size))'
    BY <1>1, <1>4, <2>2, Zenon
  <2> QED BY <1>4, <2>1, <2>3, Zenon DEF OldOK
<1>9. NewOK(t)' /\ TailOK(t)'
  BY <1>4, Zenon DEF NewOK, TailOK, Named
<1>10. ThreadOK(t)'
  BY <1>1, <1>3, <1>4, <1>7, <1>8, <1>9, Zenon DEF ThreadOK
<1>11. Frame(t)
  BY <1>2, <1>3, <1>4, <1>5, <1>6, <1>10, Zenon DEF Frame
<1>12. DOMAIN meta' \cap Mine(t) \subseteq Keys(t)'
  BY <1>2, <1>3, <1>4, BareFree, Zenon DEF Keys
<1>13. Mine(t)' = Mine(t)
  BY <1>3, <1>7, Zenon DEF Mine
<1> QED BY <1>2, <1>3, <1>11, <1>12, <1>13, Inner, Zenon

(* The copy reads and writes accessible pages only; then the old block is  *)
(* the one to free, and the new one the program's.                         *)
LEMMA CopyKeeps ==
    ASSUME IInv, NEW t \in Threads, Copy(t)
    PROVE  IInv'
<1>1. PICK a, s, c : a = loc[t].old.addr /\ s = loc[t].size /\ c = loc[t].addr
  BY Zenon
<1>2. pc[t] = "copy" /\ pc[t] \in Named /\ loc[t].old # NoBlock /\ s \in Sizes
  BY <1>1, Zenon DEF Copy, IInv, ThreadOK, Named
<1>3. /\ Sound(loc[t].old) /\ a \in DOMAIN meta /\ a \in Nat /\ a \in Pages /\ meta[a] \in Sizes
      /\ loc[t].old.size \in Sizes /\ meta[a] >= loc[t].old.size /\ ~OX_FORCE_THP
  BY <1>1, <1>2, AtHand, Zenon
<1>4. /\ c \in DOMAIN meta /\ hdr[c] = "MAGIC" /\ Open(Recorded(c)) /\ meta[c] = s
      /\ Open(Recorded(a)) /\ At(t) \cap Old(t) = {}
  BY <1>1, <1>2, Zenon DEF IInv, ThreadOK, NewOK, OldOK
<1>5. At(t) = Recorded(c) /\ Old(t) = Recorded(a) /\ c \in Pages /\ c \in Nat
  BY <1>1, <1>2, <1>4 DEF At, Old, Bare, Named, IInv, Typed, Pages
<1>6. PICK n, new : /\ n = IF meta[a] < s THEN meta[a] ELSE s
                    /\ new = [addr |-> c, size |-> s]
  BY Zenon
<1>7. n \in Sizes /\ n <= meta[a] /\ n <= meta[c]
  <2>1. s \in Nat /\ meta[a] \in Nat
    BY <1>2, <1>3, BigAllocationAssumption, Zenon
  <2> QED BY <1>2, <1>3, <1>4, <1>6, <2>1
<1>8. \A p \in PagesOf(a, realloc_total(n)) \cup PagesOf(c, realloc_total(n)) : prot[p] = "rw"
  <2>1. Run(a, n) \subseteq Recorded(a) /\ Run(c, n) \subseteq Recorded(c)
    BY <1>2, <1>3, <1>4, <1>5, <1>7, RunWithin, Zenon DEF Recorded
  <2>2. PagesOf(a, realloc_total(n)) = Run(a, n) /\ PagesOf(c, realloc_total(n)) = Run(c, n)
    BY <1>3, <1>5, <1>7, RunIs, Zenon DEF Run
  <2> QED BY <1>4, <2>1, <2>2, Zenon DEF Open
<1>9. PICK r : r = [NoLoc EXCEPT !.addr = a, !.old = new]
  BY Zenon
<1>10. /\ loc' = [loc EXCEPT ![t] = r] /\ Goto(t, "check")
       /\ UNCHANGED <<va, prot, hdr, meta, live>>
  <2>1. PagesOf(new.addr, realloc_total(n)) = PagesOf(c, realloc_total(n)) /\ new.size = s
    BY <1>6, Zenon
  <2> QED BY <1>1, <1>6, <1>8, <1>9, <2>1, Zenon DEF Copy
<1>11. new \in Blocks /\ new # NoBlock /\ new.addr = c /\ new.size = s
  <2>1. new \in Blocks /\ new.addr = c /\ new.size = s
    BY <1>2, <1>5, <1>6, Zenon DEF Blocks
  <2>2. s # 0 /\ NoBlock.size = 0
    BY <1>2, BigAllocationAssumption, Zenon DEF NoBlock
  <2> QED BY <2>1, <2>2, Zenon
<1>12. r \in Locs /\ r.old = new /\ r.addr = a
  <2>1. a \in 0 .. NPages
    BY <1>3, BigAllocationAssumption DEF Pages
  <2> QED BY <1>9, <1>11, <2>1, Zenon DEF NoLoc, Locs
<1>13. /\ pc' \in [Threads -> PCs] /\ loc' \in [Threads -> Locs]
       /\ pc'[t] = "check" /\ loc'[t] = r
       /\ \A u \in Threads \ {t} : pc'[u] = pc[u] /\ loc'[u] = loc[u]
  <2>1. "check" \in PCs /\ Typed
    BY Zenon DEF PCs, IInv
  <2> QED BY <1>10, <1>12, <2>1, Control, Zenon DEF Goto
<1>14. At(t)' = Recorded(a) /\ Old(t)' = Recorded(c)
  BY <1>10, <1>11, <1>12, <1>13, Zenon DEF At, Old, Bare, Named, Recorded
<1>15. OldOK(t)'
  <2>1. Sound(new)' /\ Open(Recorded(new.addr))'
    <3>1. s \in Nat
      BY <1>2, BigAllocationAssumption, Zenon
    <3> QED BY <1>4, <1>10, <1>11, <3>1 DEF Sound, Open, Recorded
  <2> QED BY <1>12, <1>13, <2>1, Zenon DEF OldOK
<1>16. NewOK(t)' /\ TailOK(t)'
  <2>1. a \in DOMAIN meta' /\ hdr'[a] = "MAGIC" /\ Open(Recorded(a))'
    BY <1>1, <1>3, <1>4, <1>10, Zenon DEF Sound, Open, Recorded
  <2> QED BY <1>12, <1>13, <2>1, Zenon DEF NewOK, TailOK, Named
<1>17. ThreadOK(t)'
  BY <1>4, <1>5, <1>13, <1>14, <1>15, <1>16, Zenon DEF ThreadOK
<1>18. Keys(t) \subseteq Keys(t)'
  BY <1>1, <1>2, <1>10, <1>11, <1>12, <1>13, Zenon DEF Keys, Named
<1>19. Mine(t)' = Mine(t)
  BY <1>5, <1>14, Zenon DEF Mine
<1> QED BY <1>10, <1>13, <1>17, <1>18, <1>19, Still, Zenon

-----------------------------------------------------------------------------
(* The invariant holds, and what follows from it. *)

(* No pages are taken at first. *)
LEMMA InvariantStarts ==
    ASSUME ~OX_FORCE_THP, Init
    PROVE  IInv
<1>1. NoLoc \in Locs /\ NoLoc.old = NoBlock /\ "idle" \in PCs
  BY BigAllocationAssumption DEF NoLoc, Locs, PCs
<1>2. Typed
  <2>1. DOMAIN meta = {} /\ va = {} /\ live = {}
    BY Zenon DEF Init
  <2>2. prot \in [Pages -> {"none", "rw"}] /\ hdr \in [Pages -> {"zero", "MAGIC"}]
    BY Zenon DEF Init
  <2>3. pc \in [Threads -> PCs] /\ loc \in [Threads -> Locs]
    BY <1>1, Zenon DEF Init
  <2> QED BY <2>1, <2>2, <2>3, Zenon DEF Typed
<1>3. \A t \in Threads : pc[t] = "idle" /\ loc[t].old = NoBlock
  BY <1>1, Zenon DEF Init
<1>4. \A t \in Threads : At(t) = {} /\ Old(t) = {} /\ Mine(t) = {}
  BY <1>3, Zenon DEF At, Old, Mine, Bare, Named
<1>5. \A t \in Threads : ThreadOK(t)
  <2> SUFFICES ASSUME NEW t \in Threads
               PROVE  ThreadOK(t)
    BY Zenon
  <2>1. OldOK(t) /\ NewOK(t) /\ TailOK(t)
    BY <1>3, Zenon DEF OldOK, NewOK, TailOK, Named
  <2> QED BY <1>3, <1>4, <2>1, Zenon DEF ThreadOK
<1>6. live = {} /\ va = {} /\ DOMAIN meta = {}
  BY Zenon DEF Init
<1>7. Apart /\ Accounted
  BY <1>4, <1>6, Zenon DEF Apart, Accounted
<1> QED BY <1>2, <1>5, <1>6, <1>7, Zenon DEF IInv

(* Every step keeps the invariant. *)
LEMMA InvariantKept ==
    ASSUME IInv, [Next]_vars
    PROVE  IInv'
<1>1. CASE UNCHANGED vars
  <2>1. UNCHANGED <<va, prot, hdr, meta, live, pc, loc>>
    BY <1>1, Zenon DEF vars
  <2>2. Typed'
    BY <2>1, Zenon DEF IInv, Typed
  <2>3. \A a : Recorded(a)' = Recorded(a)
    BY <2>1, Zenon DEF Recorded, Run
  <2>4. \A t \in Threads : At(t)' = At(t) /\ Old(t)' = Old(t) /\ Keys(t)' = Keys(t)
    BY <2>1, Zenon DEF At, Old, Keys, Recorded, Run
  <2>5. \A t \in Threads : Mine(t)' = Mine(t)
    BY <2>4, Zenon DEF Mine
  <2>6. \A b \in live : BlockOK(b)'
    BY <2>1, Zenon DEF IInv, BlockOK, Sound, Open, Recorded
  <2>7. ASSUME NEW t \in Threads
        PROVE  ThreadOK(t)'
    <3>1. ThreadOK(t)
      BY Zenon DEF IInv
    <3>2. OldOK(t)'
      BY <2>1, <3>1, Zenon DEF ThreadOK, OldOK, Sound, Open, Recorded, Run
    <3>3. NewOK(t)'
      BY <2>1, <3>1, Zenon DEF ThreadOK, NewOK, Open, Recorded
    <3>4. TailOK(t)'
      BY <2>1, <3>1, Zenon DEF ThreadOK, TailOK
    <3> QED BY <2>1, <2>4, <3>1, <3>2, <3>3, <3>4, Zenon DEF ThreadOK
  <2>8. Apart'
    BY <2>1, <2>3, <2>5, Zenon DEF IInv, Apart
  <2>9. Accounted'
    BY <2>1, <2>3, <2>4, <2>5, Zenon DEF IInv, Accounted
  <2> QED BY <2>1, <2>2, <2>6, <2>7, <2>8, <2>9, Zenon DEF IInv
<1>2. ASSUME NEW t \in Threads, Enter(t)
      PROVE  IInv'
  BY <1>2, BigMallocKeeps, BigFreeKeeps, UsableSizeKeeps, ReallocKeeps, Zenon DEF Enter
<1>3. ASSUME NEW t \in Threads, Alloc(t)
      PROVE  IInv'
  BY <1>3, ReserveKeeps, ReserveFailKeeps, CommitKeeps, CommitFailKeeps, WriteHeaderKeeps,
     RegisterKeeps, Zenon DEF Alloc
<1>4. ASSUME NEW t \in Threads, Free(t)
      PROVE  IInv'
  BY <1>4, CheckKeeps, UnregisterKeeps, WipeKeeps, ProtectKeeps, ReleaseKeeps, Zenon DEF Free
<1>5. ASSUME NEW t \in Threads, Resize(t)
      PROVE  IInv'
  <2>1. CASE Validate(t) \/ ResizeSame(t) \/ Record(t) \/ Copy(t)
    BY <2>1, ValidateKeeps, ResizeSameKeeps, RecordKeeps, CopyKeeps, Zenon
  <2>2. CASE Shrink(t) \/ ShrinkFail(t) \/ ShrinkProtect(t) \/ ShrinkRelease(t)
    BY <2>2, ShrinkKeeps, ShrinkFailKeeps, ShrinkProtectKeeps, ShrinkReleaseKeeps, Zenon
  <2>3. CASE Extend(t) \/ ExtendFail(t) \/ ExtendProtect(t) \/ ExtendUndo(t)
    BY <2>3, ExtendKeeps, ExtendFailKeeps, ExtendProtectKeeps, ExtendUndoKeeps, Zenon
  <2> QED BY <1>5, <2>1, <2>2, <2>3, Zenon DEF Resize
<1> QED BY <1>1, <1>2, <1>3, <1>4, <1>5, UsableKeeps, Zenon DEF Next

(* So the invariant holds always. *)
LEMMA InvariantHolds ==
    ASSUME ~OX_FORCE_THP
    PROVE  Spec => []IInv
<1>1. Init => IInv
  BY InvariantStarts, Zenon
<1>2. IInv /\ [Next]_vars => IInv'
  BY InvariantKept, Zenon
<1> QED BY <1>1, <1>2, PTL DEF Spec

(* Addresses stay inside the address space, and the table records only     *)
(* sizes that somebody asked for, whatever malloc, free and realloc of big *)
(* blocks do concurrently.                                                 *)
THEOREM BlocksTyped ==
    ASSUME ~OX_FORCE_THP
    PROVE  Spec => []TypeOK
<1>1. IInv => TypeOK
  BY Zenon DEF IInv, Typed, TypeOK, Locs
<1> QED BY <1>1, InvariantHolds, PTL

(* Without OX_FORCE_THP no call is killed: every check of a header and     *)
(* every lookup of BIG_ALLOC_MAP succeeds, and every page that is written, *)
(* read or copied is accessible.                                           *)
THEOREM NobodyIsKilled ==
    ASSUME ~OX_FORCE_THP
    PROVE  Spec => []NobodyDies
<1>1. IInv => NobodyDies
  BY Zenon DEF IInv, ThreadOK, NobodyDies
<1> QED BY <1>1, InvariantHolds, PTL

(* Without OX_FORCE_THP the program's blocks stay usable: the header is    *)
(* valid, the recorded size is enough, and the pages are marked in the VA  *)
(* bitmap and accessible, while other threads malloc, free and realloc and *)
(* system calls fail.                                                      *)
THEOREM BlocksStayUsable ==
    ASSUME ~OX_FORCE_THP
    PROVE  Spec => []LiveUsable
<1>1. IInv => LiveUsable
  <2> SUFFICES ASSUME IInv, NEW b \in live
               PROVE  /\ b.addr \in DOMAIN meta /\ meta[b.addr] >= b.size /\ hdr[b.addr] = "MAGIC"
                      /\ \A p \in PagesOf(b.addr, realloc_total(b.size)) : p \in va /\ prot[p] = "rw"
    BY Zenon DEF LiveUsable
  <2>1. /\ b.addr \in DOMAIN meta /\ meta[b.addr] >= b.size /\ hdr[b.addr] = "MAGIC"
        /\ b.size \in Sizes /\ b.addr \in Nat /\ Open(Recorded(b.addr))
    BY DEF IInv, BlockOK, Sound, Blocks, Pages
  <2>2. meta[b.addr] \in Sizes /\ Recorded(b.addr) \subseteq va /\ ~OX_FORCE_THP
    BY <2>1, Zenon DEF IInv, Typed, Accounted
  <2>3. b.size <= meta[b.addr]
    BY <2>1, <2>2, BigAllocationAssumption, Zenon
  <2>4. Run(b.addr, b.size) \subseteq Recorded(b.addr)
    BY <2>1, <2>2, <2>3, RunWithin, Zenon DEF Recorded
  <2>5. PagesOf(b.addr, realloc_total(b.size)) = Run(b.addr, b.size)
    BY <2>1, <2>2, RunIs, Zenon DEF Run
  <2> QED BY <2>1, <2>2, <2>4, <2>5, Zenon DEF Open
<1> QED BY <1>1, InvariantHolds, PTL

(* Without OX_FORCE_THP nothing leaks: when no call is under way, the VA   *)
(* bitmap and the table hold the program's blocks and nothing else,        *)
(* whichever system calls have failed before.                              *)
THEOREM NoPageIsLost ==
    ASSUME ~OX_FORCE_THP
    PROVE  Spec => []NothingLeaks
<1>1. IInv => NothingLeaks
  <2> SUFFICES ASSUME IInv, \A t \in Threads : pc[t] = "idle"
               PROVE  /\ DOMAIN meta = {b.addr : b \in live}
                      /\ va = UNION {PagesOf(a, total_size(meta[a])) : a \in DOMAIN meta}
    BY Zenon DEF NothingLeaks
  <2>1. \A t \in Threads : Mine(t) = {} /\ Keys(t) = {}
    BY IdleHas, Homes, Zenon
  <2>2. DOMAIN meta = {b.addr : b \in live}
    BY <2>1, Homes, Zenon DEF IInv, Accounted
  <2>3. \A p \in va : \E a \in DOMAIN meta : p \in Recorded(a)
    BY <2>1, <2>2, Zenon DEF IInv, Accounted
  <2>4. \A a \in DOMAIN meta : Recorded(a) \subseteq va
    BY <2>2, Zenon DEF IInv, Accounted
  <2>5. va = UNION {Recorded(a) : a \in DOMAIN meta}
    BY <2>3, <2>4, Zenon
  <2> QED BY <2>2, <2>5, Zenon DEF Recorded, Run
<1> QED BY <1>1, InvariantHolds, PTL
=============================================================================
