-------------------------- MODULE ThreadCacheProofs --------------------------
(***************************************************************************)
(* Proofs about the thread caches, for any number of threads, any size of  *)
(* regions, batches and caches: every block of every region is in exactly  *)
(* one place, whatever malloc, free, exits and trimming do.                *)
(***************************************************************************)
EXTENDS ThreadCache, FiniteSetTheorems, TLAPS

-----------------------------------------------------------------------------
(* Lists. *)

(* The list of a finite set has its elements, each once. *)
LEMMA ListOfSet ==
    ASSUME NEW S, IsFiniteSet(S)
    PROVE  /\ ListOf(S) \in Seq(S) /\ Len(ListOf(S)) = Cardinality(S)
           /\ IsInjective(ListOf(S)) /\ Range(ListOf(S)) = S
           /\ Cardinality(S) \in Nat
<1> DEFINE n == Cardinality(S)
           s == ListOf(S)
<1>1. n \in Nat /\ ExistsBijection(1 .. n, S)
  BY FS_CardinalityType, Zenon
<1>2. PICK f \in [1 .. n -> S] : IsInjective(f)
  BY <1>1, Zenon DEF ExistsBijection, Bijection, Injection, IsInjective
<1>3. s \in [1 .. n -> S] /\ IsInjective(s)
  BY <1>2, Zenon DEF ListOf
<1>4. IsFiniteSet(1 .. n) /\ Cardinality(1 .. n) = n
  BY <1>1, FS_Interval
<1>5. s \in Injection(1 .. n, S)
  BY <1>3, Zenon DEF Injection, IsInjective
<1>6. s \in Surjection(1 .. n, S)
  BY <1>4, <1>5, FS_Injection, Zenon
<1>7. Range(s) = S
  BY <1>3, <1>6, Zenon DEF Surjection, Range
<1>8. s \in Seq(S) /\ Len(s) = n
  BY <1>1, <1>3
<1> QED BY <1>1, <1>3, <1>7, <1>8, Zenon

(* A list over a set is one over any larger set. *)
LEMMA Wider ==
    ASSUME NEW A, NEW B, A \subseteq B, NEW s \in Seq(A)
    PROVE  s \in Seq(B)
<1>1. Len(s) \in Nat /\ s \in [1 .. Len(s) -> A]
  OBVIOUS
<1>2. s \in [1 .. Len(s) -> B]
  BY <1>1, Zenon
<1> QED BY <1>1, <1>2

(* A list put before another. *)
LEMMA Joined ==
    ASSUME NEW s \in Seq(Nat), NEW r \in Seq(Nat), IsInjective(s), IsInjective(r),
           Range(s) \cap Range(r) = {}
    PROVE  /\ s \o r \in Seq(Nat) /\ Len(s \o r) = Len(s) + Len(r)
           /\ IsInjective(s \o r) /\ Range(s \o r) = Range(s) \cup Range(r)
<1> DEFINE c == s \o r
<1>1. c \in Seq(Nat) /\ Len(c) = Len(s) + Len(r) /\ Len(s) \in Nat /\ Len(r) \in Nat
  OBVIOUS
<1>2. \A i \in 1 .. Len(c) : c[i] = IF i <= Len(s) THEN s[i] ELSE r[i - Len(s)]
  OBVIOUS
<1>3. DOMAIN c = 1 .. Len(c) /\ DOMAIN s = 1 .. Len(s) /\ DOMAIN r = 1 .. Len(r)
  BY <1>1
<1>4. \A i \in 1 .. Len(s) : i \in 1 .. Len(c) /\ c[i] = s[i]
  BY <1>1, <1>2
<1>5. \A i \in 1 .. Len(r) : i + Len(s) \in 1 .. Len(c) /\ c[i + Len(s)] = r[i]
  BY <1>1, <1>2
<1>6. Range(c) \subseteq Range(s) \cup Range(r)
  <2> SUFFICES ASSUME NEW i \in 1 .. Len(c)
               PROVE  c[i] \in Range(s) \cup Range(r)
    BY <1>3, Zenon DEF Range
  <2>1. CASE i <= Len(s)
    BY <2>1, <1>1, <1>2, <1>3, SMTT(30) DEF Range
  <2>2. CASE ~(i <= Len(s))
    <3>1. i - Len(s) \in 1 .. Len(r) /\ c[i] = r[i - Len(s)]
      BY <2>2, <1>1, <1>2
    <3> QED BY <3>1, <1>3, Zenon DEF Range
  <2> QED BY <2>1, <2>2, Zenon
<1>7. Range(s) \subseteq Range(c) /\ Range(r) \subseteq Range(c)
  BY <1>3, <1>4, <1>5, Zenon DEF Range
<1>8. IsInjective(c)
  <2> SUFFICES ASSUME NEW i \in 1 .. Len(c), NEW j \in 1 .. Len(c), c[i] = c[j]
               PROVE  i = j
    BY <1>3, Zenon DEF IsInjective
  <2>1. CASE i <= Len(s) /\ j <= Len(s)
    <3>1. i \in DOMAIN s /\ j \in DOMAIN s /\ s[i] = s[j]
      BY <2>1, <1>1, <1>2, <1>3
    <3> QED BY <3>1, Zenon DEF IsInjective
  <2>2. CASE ~(i <= Len(s)) /\ ~(j <= Len(s))
    <3>1. i - Len(s) \in DOMAIN r /\ j - Len(s) \in DOMAIN r /\ r[i - Len(s)] = r[j - Len(s)]
      BY <2>2, <1>1, <1>2, <1>3
    <3>2. i - Len(s) = j - Len(s)
      BY <3>1, Zenon DEF IsInjective
    <3> QED BY <3>2, <1>1
  <2>3. ASSUME NEW k \in 1 .. Len(c), NEW l \in 1 .. Len(c), k <= Len(s), ~(l <= Len(s)),
               c[k] = c[l]
        PROVE  FALSE
    <3>1. k \in DOMAIN s /\ l - Len(s) \in DOMAIN r /\ s[k] = r[l - Len(s)]
      BY <2>3, <1>1, <1>2, <1>3
    <3> QED BY <3>1, Zenon DEF Range
  <2> QED BY <2>1, <2>2, <2>3, Zenon
<1> QED BY <1>1, <1>6, <1>7, <1>8, Zenon

(* A block in front of a list that does not have it. *)
LEMMA Prepended ==
    ASSUME NEW b \in Nat, NEW s \in Seq(Nat), IsInjective(s), {b} \cap Range(s) = {}
    PROVE  /\ <<b>> \o s \in Seq(Nat) /\ Len(<<b>> \o s) = 1 + Len(s)
           /\ IsInjective(<<b>> \o s) /\ Range(<<b>> \o s) = {b} \cup Range(s)
<1>0. <<b>> \in Seq(Nat)
  OBVIOUS
<1>1. PICK o \in Seq(Nat) : o = <<b>>
  BY <1>0, Zenon
<1>2. IsInjective(o) /\ Range(o) = {b} /\ Len(o) = 1
  BY <1>1 DEF IsInjective, Range
<1>3. /\ o \o s \in Seq(Nat) /\ Len(o \o s) = Len(o) + Len(s)
      /\ IsInjective(o \o s) /\ Range(o \o s) = Range(o) \cup Range(s)
  <2>1. Range(o) \cap Range(s) = {}
    BY <1>2, Zenon
  <2> QED BY <1>2, <2>1, Joined, Zenon
<1> QED BY <1>1, <1>2, <1>3, Zenon

(* A list without its head. *)
LEMMA Popped ==
    ASSUME NEW B, NEW s \in Seq(B), s # <<>>, IsInjective(s)
    PROVE  /\ Tail(s) \in Seq(B) /\ Len(Tail(s)) = Len(s) - 1 /\ Len(s) \in Nat \ {0}
           /\ IsInjective(Tail(s)) /\ Range(Tail(s)) = Range(s) \ {Head(s)}
           /\ Head(s) = s[1] /\ Head(s) \in Range(s)
<1> DEFINE r == Tail(s)
<1>1. r \in Seq(B) /\ Len(r) = Len(s) - 1 /\ Len(s) \in Nat \ {0} /\ Head(s) = s[1]
  OBVIOUS
<1>2. DOMAIN r = 1 .. Len(r) /\ DOMAIN s = 1 .. Len(s)
  BY <1>1
<1>3. \A i \in 1 .. Len(r) : i + 1 \in 1 .. Len(s) /\ r[i] = s[i + 1]
  BY <1>1
<1>4. IsInjective(r)
  <2> SUFFICES ASSUME NEW i \in 1 .. Len(r), NEW j \in 1 .. Len(r), r[i] = r[j]
               PROVE  i = j
    BY <1>2, Zenon DEF IsInjective
  <2>1. s[i + 1] = s[j + 1] /\ i + 1 \in DOMAIN s /\ j + 1 \in DOMAIN s
    BY <1>2, <1>3, Zenon
  <2>2. i + 1 = j + 1
    BY <2>1, Zenon DEF IsInjective
  <2> QED BY <2>2
<1>5. Range(r) \subseteq Range(s) \ {Head(s)}
  <2> SUFFICES ASSUME NEW i \in 1 .. Len(r)
               PROVE  r[i] \in Range(s) /\ r[i] # s[1]
    BY <1>1, <1>2, Zenon DEF Range
  <2>1. i + 1 \in DOMAIN s /\ 1 \in DOMAIN s /\ i + 1 # 1 /\ r[i] = s[i + 1]
    BY <1>1, <1>2, <1>3
  <2> QED BY <2>1, Zenon DEF Range, IsInjective
<1>6. Range(s) \ {Head(s)} \subseteq Range(r)
  <2> SUFFICES ASSUME NEW i \in 1 .. Len(s), s[i] # s[1]
               PROVE  s[i] \in Range(r)
    BY <1>1, <1>2, Zenon DEF Range
  <2>1. i - 1 \in 1 .. Len(r) /\ r[i - 1] = s[i]
    BY <1>1, <1>3
  <2> QED BY <2>1, <1>2, Zenon DEF Range
<1>7. Head(s) \in Range(s)
  BY <1>1, <1>2 DEF Range
<1> QED BY <1>1, <1>4, <1>5, <1>6, <1>7, Zenon

-----------------------------------------------------------------------------
(* Places. *)

Live == <<"live", Trimmer>>

Pool == <<"pool", Trimmer>>

Slots == {Live, Pool} \cup ({"cache", "region"} \X Threads) \cup ({"young", "old"} \X Actors)

(* What is where. *)
At(k, a) ==
    IF k = "live" THEN live
    ELSE IF k = "pool" THEN pool
    ELSE IF k = "cache" THEN Cached(a)
    ELSE IF k = "region" THEN Uncarved(a)
    ELSE IF k = "young" THEN loc[a].young
    ELSE loc[a].old

Where == [p \in Slots |-> At(p[1], p[2])]

Apart(w) == \A p, q \in Slots : p # q => w[p] \cap w[q] = {}

All(w) == UNION {w[p] : p \in Slots}

(* Blocks that go from one place to another. *)
LEMMA Moved ==
    ASSUME NEW w, NEW v, NEW p \in Slots, NEW q \in Slots, p # q, NEW X, X \subseteq w[p],
           v[p] = w[p] \ X, v[q] = w[q] \cup X, \A r \in Slots \ {p, q} : v[r] = w[r],
           Apart(w)
    PROVE  Apart(v) /\ All(v) = All(w)
<1>1. \A r \in Slots : v[r] \subseteq w[r] \cup (IF r = q THEN X ELSE {})
  BY Zenon
<1>2. w[q] \cap X = {} /\ \A r \in Slots \ {p, q} : w[r] \cap X = {}
  BY Zenon DEF Apart
<1>3. \A r \in Slots \ {q} : v[r] \cap X = {} /\ v[r] \subseteq w[r]
  BY <1>1, <1>2, Zenon
<1>4. Apart(v)
  <2> SUFFICES ASSUME NEW r \in Slots, NEW s \in Slots, r # s, NEW b, b \in v[r], b \in v[s]
               PROVE  FALSE
    BY Zenon DEF Apart
  <2>1. CASE r # q /\ s # q
    BY <2>1, <1>3, Zenon DEF Apart
  <2>2. CASE r = q
    BY <2>2, <1>1, <1>3, Zenon DEF Apart
  <2>3. CASE s = q
    BY <2>3, <1>1, <1>3, Zenon DEF Apart
  <2> QED BY <2>1, <2>2, <2>3, Zenon
<1>5. \A b : (\E r \in Slots : b \in v[r]) <=> (\E r \in Slots : b \in w[r])
  <2>1. ASSUME NEW b, NEW r \in Slots, b \in v[r]
        PROVE  \E s \in Slots : b \in w[s]
    BY <2>1, <1>1, Zenon
  <2>2. ASSUME NEW b, NEW r \in Slots, b \in w[r]
        PROVE  \E s \in Slots : b \in v[s]
    <3>1. CASE b \in X
      BY <3>1, Zenon
    <3>2. CASE b \notin X
      <4>1. b \in v[r]
        BY <2>2, <3>2, Zenon
      <4> QED BY <4>1, Zenon
    <3> QED BY <3>1, <3>2, Zenon
  <2> QED BY <2>1, <2>2, Zenon
<1>6. All(v) = All(w)
  BY <1>5, ZenonT(30) DEF All
<1> QED BY <1>4, <1>6, Zenon

(* Blocks that go from one place to two others. *)
Parted(w, v, p, q, s, X, Y) ==
    /\ p \in Slots /\ q \in Slots /\ s \in Slots /\ p # q /\ p # s /\ q # s
    /\ X \subseteq w[p] /\ Y \subseteq w[p] /\ X \cap Y = {}
    /\ v[p] = w[p] \ (X \cup Y) /\ v[q] = w[q] \cup X /\ v[s] = w[s] \cup Y
    /\ \A r \in Slots \ {p, q, s} : v[r] = w[r]

(* Parting what one place holds among two others keeps places apart. *)
LEMMA MovedTwo ==
    ASSUME NEW w, NEW v, NEW p, NEW q, NEW s, NEW X, NEW Y, Parted(w, v, p, q, s, X, Y), Apart(w)
    PROVE  Apart(v) /\ All(v) = All(w)
<1> USE DEF Parted
<1> DEFINE u == [r \in Slots |-> IF r = p THEN w[p] \ X ELSE IF r = q THEN w[q] \cup X ELSE w[r]]
<1>1. u[p] = w[p] \ X /\ u[q] = w[q] \cup X /\ \A r \in Slots \ {p, q} : u[r] = w[r]
  BY Zenon
<1> HIDE DEF u
<1>2. Apart(u) /\ All(u) = All(w)
  BY <1>1, Moved, ZenonT(30)
<1>3. /\ Y \subseteq u[p] /\ v[p] = u[p] \ Y /\ v[s] = u[s] \cup Y
      /\ \A r \in Slots \ {p, s} : v[r] = u[r]
  BY <1>1, Zenon
<1>4. Apart(v) /\ All(v) = All(u)
  BY <1>2, <1>3, Moved, ZenonT(30)
<1> QED BY <1>2, <1>4, Zenon

(* Blocks that come to two places. *)
Added(w, v, q, s, X, Y) ==
    /\ q \in Slots /\ s \in Slots /\ q # s
    /\ X \cap All(w) = {} /\ Y \cap All(w) = {} /\ X \cap Y = {}
    /\ v[q] = w[q] \cup X /\ v[s] = w[s] \cup Y
    /\ \A r \in Slots \ {q, s} : v[r] = w[r]

(* So does adding blocks that were in no place. *)
LEMMA Came ==
    ASSUME NEW w, NEW v, NEW q, NEW s, NEW X, NEW Y, Added(w, v, q, s, X, Y), Apart(w)
    PROVE  Apart(v) /\ All(v) = All(w) \cup X \cup Y
<1> USE DEF Added
<1>1. \A r \in Slots : w[r] \cap X = {} /\ w[r] \cap Y = {} /\ w[r] \subseteq v[r]
  BY DEF All
<1>2. \A r \in Slots : \A b : b \in v[r] <=> \/ b \in w[r] \/ (r = q /\ b \in X)
                                              \/ (r = s /\ b \in Y)
  BY Zenon
<1>3. Apart(v)
  <2> SUFFICES ASSUME NEW r \in Slots, NEW k \in Slots, r # k, NEW b, b \in v[r], b \in v[k]
               PROVE  FALSE
    BY ZenonT(30) DEF Apart
  <2>1. CASE b \in w[r]
    BY <2>1, <1>1, <1>2, Zenon DEF Apart
  <2>2. CASE b \in w[k]
    BY <2>2, <1>1, <1>2, Zenon DEF Apart
  <2>3. CASE b \notin w[r] /\ b \notin w[k]
    BY <2>3, <1>2, Zenon
  <2> QED BY <2>1, <2>2, <2>3, Zenon
<1>4. \A b : (\E r \in Slots : b \in v[r]) <=> (\E r \in Slots : b \in w[r]) \/ b \in X \/ b \in Y
  BY <1>2, Zenon
<1>5. All(v) = All(w) \cup X \cup Y
  BY <1>4 DEF All
<1> QED BY <1>3, <1>5, Zenon

(* Where the places are. *)
LEMMA Slot ==
    /\ Live \in Slots /\ Pool \in Slots /\ Live # Pool
    /\ \A t \in Threads : <<"cache", t>> \in Slots /\ <<"region", t>> \in Slots
    /\ \A a \in Actors : <<"young", a>> \in Slots /\ <<"old", a>> \in Slots
    /\ \A p \in Slots : \/ p = Live \/ p = Pool
                        \/ \E t \in Threads : p = <<"cache", t>> \/ p = <<"region", t>>
                        \/ \E a \in Actors : p = <<"young", a>> \/ p = <<"old", a>>
BY DEF Slots, Live, Pool

Placed ==
    /\ Where[Live] = live /\ Where[Pool] = pool
    /\ \A t \in Threads : Where[<<"cache", t>>] = Cached(t) /\ Where[<<"region", t>>] = Uncarved(t)
    /\ \A a \in Actors : Where[<<"young", a>>] = loc[a].young /\ Where[<<"old", a>>] = loc[a].old

(* What each place holds, in terms of the variables of ThreadCache ... *)
LEMMA WhereIs == Placed
<1>1. \A p \in Slots : Where[p] = At(p[1], p[2])
  BY Zenon DEF Where
<1>2. Where[Live] = At("live", Trimmer) /\ Where[Pool] = At("pool", Trimmer)
  BY <1>1, Slot, Zenon DEF Live, Pool
<1>3. \A t \in Threads : /\ Where[<<"cache", t>>] = At("cache", t)
                         /\ Where[<<"region", t>>] = At("region", t)
  BY <1>1, Slot, Zenon
<1>4. \A a \in Actors : /\ Where[<<"young", a>>] = At("young", a)
                        /\ Where[<<"old", a>>] = At("old", a)
  BY <1>1, Slot, Zenon
<1> QED BY <1>2, <1>3, <1>4, Zenon DEF At, Placed

(* ... and after a step. *)
LEMMA WhereNext == Placed'
BY WhereIs, PTL

(* The same place is the same place. *)
LEMMA Distinct ==
    /\ \A t \in Threads : /\ <<"cache", t>> \notin {Live, Pool}
                          /\ <<"region", t>> \notin {Live, Pool}
    /\ \A t, u \in Threads : <<"cache", t>> # <<"region", u>>
    /\ \A a \in Actors : <<"young", a>> \notin {Live, Pool} /\ <<"old", a>> \notin {Live, Pool}
    /\ \A a, c \in Actors : <<"young", a>> # <<"old", c>>
    /\ \A a \in Actors, t \in Threads : /\ <<"young", a>> \notin {<<"cache", t>>, <<"region", t>>}
                                        /\ <<"old", a>> \notin {<<"cache", t>>, <<"region", t>>}
BY Zenon DEF Live, Pool

-----------------------------------------------------------------------------
(* The invariant. *)

CacheType == bin \in [Threads -> [list : Seq(Nat), usage : Int]]

LocType ==
    loc \in [Actors -> [tries : Nat, rounds : Nat, young : SUBSET Nat, old : SUBSET Nat]]

PCs == {"idle", "pop", "spawn", "global", "fill", "take", "dead", "trim"}

Types ==
    /\ regions \in 0 .. MaxRegions
    /\ hint \in BATCH_MIN .. BATCH_MAX
    /\ TOTAL_MALLOC_FREE \in 0 .. BootCalls
    /\ THREAD_SPAWNED \in BOOLEAN /\ HOT_READY \in BOOLEAN /\ trimmers \in Nat
    /\ CacheType
    /\ pending \in [Threads -> [region : Nat, next : Nat]]
    /\ pc \in [Actors -> PCs]
    /\ LocType

(* The blocks of the regions that are mapped. *)
Mapped == 1 .. regions * ITERATIONS

Cap == Max({TLS_MAX_BLOCKS, BATCH_MAX, MaxInit})

(* The counter of a cache is right, and a refill begins with an empty one. *)
Cache(t) ==
    /\ IsInjective(bin[t].list)
    /\ bin[t].usage = Len(bin[t].list) /\ bin[t].usage <= Cap
    /\ pc[t] \in {"global", "fill"} => bin[t].list = <<>>

(* A region that has been begun has blocks left. *)
Begun(m) == m.region \in 1 .. regions /\ m.next \in 0 .. ITERATIONS - 1

Region(t) == pending[t] = NoRegion \/ Begun(pending[t])

(* Only who trims has blocks in hand. *)
Hands(a) == pc[a] # "trim" => loc[a].young = {} /\ loc[a].old = {}

(* Every block that is mapped is in one place. *)
Partition == Apart(Where) /\ All(Where) = Mapped

(* One thread at a time starts the trim thread, and only when there is none. *)
Spawns ==
    /\ \A t \in Threads : pc[t] = "spawn" => THREAD_SPAWNED /\ trimmers = 0
    /\ \A t, u \in Threads : pc[t] = "spawn" /\ pc[u] = "spawn" => t = u
    /\ trimmers > 0 => THREAD_SPAWNED /\ trimmers = 1

Places ==
    /\ Partition
    /\ \A t \in Threads : Cache(t) /\ Region(t)
    /\ \A a \in Actors : Hands(a)

IInv == Types /\ Spawns /\ Places

-----------------------------------------------------------------------------
(* Regions. *)

(* The bound of a cache is no less than any of the three limits. *)
LEMMA CapFacts == /\ Cap \in Nat \ {0} /\ TLS_MAX_BLOCKS <= Cap
                  /\ BATCH_MAX <= Cap /\ MaxInit <= Cap
<1> DEFINE S == {TLS_MAX_BLOCKS, BATCH_MAX, MaxInit}
<1>1. S \subseteq Nat
  BY ThreadCacheAssumption, Zenon
<1>2. \E x \in S : \A y \in S : x >= y
  <2>1. CASE TLS_MAX_BLOCKS >= BATCH_MAX /\ TLS_MAX_BLOCKS >= MaxInit
    BY <2>1, ThreadCacheAssumption
  <2>2. CASE BATCH_MAX >= TLS_MAX_BLOCKS /\ BATCH_MAX >= MaxInit
    BY <2>2, ThreadCacheAssumption
  <2>3. CASE MaxInit >= TLS_MAX_BLOCKS /\ MaxInit >= BATCH_MAX
    BY <2>3, ThreadCacheAssumption
  <2> QED BY <2>1, <2>2, <2>3, ThreadCacheAssumption
<1>3. Cap \in S /\ \A y \in S : Cap >= y
  BY <1>2, Zenon DEF Cap, Max
<1> QED BY <1>1, <1>3, ThreadCacheAssumption

(* One region more is ITERATIONS blocks more. *)
LEMMA Times ==
    ASSUME NEW r \in Nat
    PROVE  r * ITERATIONS \in Nat /\ (r + 1) * ITERATIONS = r * ITERATIONS + ITERATIONS
BY ThreadCacheAssumption

(* More regions have more blocks. *)
LEMMA TimesLeq ==
    ASSUME NEW r \in Nat, NEW s \in Nat, r <= s
    PROVE  r * ITERATIONS <= s * ITERATIONS
BY ThreadCacheAssumption

(* The blocks init_blocks cuts off a region. *)
Cut(m, max) ==
    {b \in RegionBlocks(m) : b <= (m.region - 1) * ITERATIONS + m.next + Count(m, max)}

(* What is cut off, and what is left. *)
CutOK(m, d, max) ==
    /\ Cut(m, max) \subseteq RegionBlocks(m) /\ Cut(m, max) \subseteq Nat
    /\ IsFiniteSet(Cut(m, max)) /\ Cardinality(Cut(m, max)) = Count(m, max)
    /\ Count(m, max) \in 1 .. max
    /\ d.region = m.region /\ d.next \in 1 .. ITERATIONS
    /\ d = [region |-> m.region, next |-> d.next]
    /\ RegionBlocks(d) = RegionBlocks(m) \ Cut(m, max)
    /\ d.next = ITERATIONS => RegionBlocks(d) = {}

(* init_blocks cuts off at least one block, and the rest is what follows. *)
LEMMA CutFacts ==
    ASSUME NEW r \in Nat, NEW n \in 0 .. ITERATIONS - 1, NEW max \in Nat \ {0},
           NEW m, m = [region |-> r + 1, next |-> n]
    PROVE  /\ CutOK(m, Advanced(m, max), max)
           /\ RegionBlocks(m) = (r * ITERATIONS + n + 1) .. (r * ITERATIONS + ITERATIONS)
<1> DEFINE d == Advanced(m, max)
           c == Count(m, max)
<1>1. PICK k \in Nat : k = r * ITERATIONS
  BY Times, Zenon
<1>2. (r + 1) * ITERATIONS = k + ITERATIONS /\ (m.region - 1) * ITERATIONS = k
  BY <1>1, Times
<1>3. c \in 1 .. max /\ n + c \in 1 .. ITERATIONS
  BY ThreadCacheAssumption DEF Count, remaining_blocks
<1>4. d = [region |-> r + 1, next |-> n + c]
  BY DEF Advanced
<1>5. RegionBlocks(m) = (k + n + 1) .. (k + ITERATIONS)
  BY <1>2, Zenon DEF RegionBlocks
<1>6. RegionBlocks(d) = (k + n + c + 1) .. (k + ITERATIONS)
  <2>1. (d.region - 1) * ITERATIONS = k /\ d.region * ITERATIONS = k + ITERATIONS /\ d.next = n + c
    BY <1>2, <1>4
  <2> QED BY <2>1, <1>1, <1>3 DEF RegionBlocks
<1>7. Cut(m, max) = (k + n + 1) .. (k + n + c)
  <2>1. Cut(m, max) = {b \in RegionBlocks(m) : b <= k + n + c}
    BY <1>2, Zenon DEF Cut
  <2>2. PICK e \in Nat : e = c
    BY <1>3
  <2>3. e <= ITERATIONS - n /\ ITERATIONS \in Nat
    BY <2>2, <1>3, ThreadCacheAssumption
  <2>4. {b \in (k + n + 1) .. (k + ITERATIONS) : b <= k + n + e} = (k + n + 1) .. (k + n + e)
    BY <2>3
  <2> QED BY <2>1, <2>2, <2>4, <1>5, Zenon
<1>8. IsFiniteSet(Cut(m, max)) /\ Cardinality(Cut(m, max)) = c
  <2>1. PICK i, j \in Int : i = k + n + 1 /\ j = k + n + c
    BY <1>1, <1>3
  <2>2. IsFiniteSet(i .. j) /\ Cardinality(i .. j) = IF i > j THEN 0 ELSE j - i + 1
    BY FS_Interval, Zenon
  <2>3. ~(i > j) /\ j - i + 1 = c
    BY <2>1, <1>1, <1>3
  <2> QED BY <2>1, <2>2, <2>3, <1>7, Zenon
<1>9. RegionBlocks(d) = RegionBlocks(m) \ Cut(m, max)
  BY <1>1, <1>3, <1>5, <1>6, <1>7, ThreadCacheAssumption
<1>10. d.next = ITERATIONS => RegionBlocks(d) = {}
  BY <1>1, <1>3, <1>4, <1>6, ThreadCacheAssumption, SMTT(30)
<1>11. Cut(m, max) \subseteq RegionBlocks(m) /\ Cut(m, max) \subseteq Nat
  BY <1>1, <1>3, <1>7 DEF Cut
<1>12. /\ d.region = m.region /\ d.next \in 1 .. ITERATIONS
       /\ d = [region |-> m.region, next |-> d.next]
  BY <1>3, <1>4
<1>13. CutOK(m, d, max)
  <2> HIDE DEF d
  <2> QED BY <1>3, <1>8, <1>9, <1>10, <1>11, <1>12, Zenon DEF CutOK
<1> QED BY <1>1, <1>5, <1>13, Zenon

-----------------------------------------------------------------------------
(* Steps. *)

(* What the steps of others than P do not change. *)
LEMMA Rest ==
    ASSUME NEW P,
           Live \in P \/ live' = live, Pool \in P \/ pool' = pool,
           \A t \in Threads : <<"cache", t>> \in P \/ Cached(t)' = Cached(t),
           \A t \in Threads : <<"region", t>> \in P \/ Uncarved(t)' = Uncarved(t),
           \A a \in Actors : <<"young", a>> \in P \/ loc'[a].young = loc[a].young,
           \A a \in Actors : <<"old", a>> \in P \/ loc'[a].old = loc[a].old
    PROVE  \A r \in Slots \ P : Where'[r] = Where[r]
<1> SUFFICES ASSUME NEW r \in Slots \ P PROVE Where'[r] = Where[r]
  BY Zenon
<1>1. CASE r = Live \/ r = Pool
  BY <1>1, WhereIs, WhereNext, Zenon DEF Placed
<1>2. ASSUME NEW t \in Threads, r = <<"cache", t>> \/ r = <<"region", t>>
      PROVE  Where'[r] = Where[r]
  BY <1>2, WhereIs, WhereNext, ZenonT(30) DEF Placed
<1>3. ASSUME NEW a \in Actors, r = <<"young", a>> \/ r = <<"old", a>>
      PROVE  Where'[r] = Where[r]
  BY <1>3, WhereIs, WhereNext, ZenonT(30) DEF Placed
<1> QED BY <1>1, <1>2, <1>3, Slot, Zenon

(* Nothing moves. *)
LEMMA Stay ==
    ASSUME Partition, UNCHANGED <<regions, pool, live, bin, pending>>,
           \A a \in Actors : loc'[a].young = loc[a].young /\ loc'[a].old = loc[a].old
    PROVE  Partition'
<1>1. \A t \in Threads : Cached(t)' = Cached(t) /\ Uncarved(t)' = Uncarved(t)
  BY Zenon DEF Cached, Uncarved
<1>2. \A r \in Slots \ {} : Where'[r] = Where[r]
  BY <1>1, Rest, Zenon
<1>3. Apart(Where') /\ All(Where') = All(Where)
  BY <1>2, ZenonT(30) DEF Partition, Apart, All
<1> QED BY <1>3, Zenon DEF Partition, Mapped, Apart, All

(* What is there lies in the regions that are mapped. *)
LEMMA InMapped ==
    ASSUME Types, Partition
    PROVE  /\ live \subseteq Mapped /\ pool \subseteq Mapped /\ Mapped \subseteq Nat
           /\ \A t \in Threads : Cached(t) \subseteq Mapped /\ Uncarved(t) \subseteq Mapped
           /\ \A a \in Actors : loc[a].young \subseteq Mapped /\ loc[a].old \subseteq Mapped
           /\ regions * ITERATIONS \in Nat /\ IsFiniteSet(Mapped)
<1>1. regions \in Nat /\ regions * ITERATIONS \in Nat
  BY Times, ThreadCacheAssumption DEF Types
<1>2. Mapped \subseteq Nat /\ IsFiniteSet(Mapped)
  BY <1>1, FS_Interval DEF Mapped
<1>3. \A p \in Slots : Where[p] \subseteq Mapped
  BY Zenon DEF Partition, All
<1> QED BY <1>1, <1>2, <1>3, Slot, WhereIs, ZenonT(30) DEF Placed

(* A cache keeps its list, its counter and its region. *)
LEMMA CacheStays ==
    ASSUME NEW t \in Threads, Cache(t), Region(t), bin'[t] = bin[t], pending'[t] = pending[t],
           regions' = regions \/ regions' = regions + 1, regions \in Nat,
           pc'[t] \in {"global", "fill"} => bin[t].list = <<>>
    PROVE  Cache(t)' /\ Region(t)'
<1>1. Cache(t)'
  BY Zenon DEF Cache
<1>2. Region(t)'
  BY DEF Region, Begun, NoRegion
<1> QED BY <1>1, <1>2, Zenon

(* The head of a cache goes to the program. *)
LEMMA PopKept ==
    ASSUME Types, Places, NEW t \in Threads, pc[t] \in {"pop", "take"}, bin[t].list # <<>>,
           bin' = [bin EXCEPT ![t] = pop_from_thread(@)], Returns(t, Head(bin[t].list)),
           UNCHANGED <<regions, pool, pending>>
    PROVE  Places' /\ CacheType' /\ LocType'
<1> DEFINE s == bin[t].list
           b == Head(s)
           p == <<"cache", t>>
<1>0. t \in Actors /\ s \in Seq(Nat) /\ bin[t].usage \in Int
  BY Zenon DEF Actors, Types, CacheType
<1>1. /\ bin'[t].list = Tail(s) /\ bin'[t].usage = bin[t].usage - 1
      /\ \A u \in Threads \ {t} : bin'[u] = bin[u]
  BY Zenon DEF pop_from_thread, Types, CacheType
<1>2. /\ live' = live \cup {b}
      /\ pc'[t] = "idle" /\ \A a \in Actors \ {t} : pc'[a] = pc[a] /\ loc'[a] = loc[a]
      /\ loc'[t] = NoLoc
  BY <1>0, Zenon DEF Returns, Goto, Types, LocType
<1>3. /\ Tail(s) \in Seq(Nat) /\ Len(Tail(s)) = Len(s) - 1 /\ Len(s) \in Nat \ {0}
      /\ IsInjective(Tail(s)) /\ Range(Tail(s)) = Range(s) \ {b} /\ b \in Range(s)
  <2>1. IsInjective(s)
    BY Zenon DEF Places, Cache
  <2> QED BY <2>1, <1>0, Popped, Zenon
<1>4. loc[t].young = {} /\ loc[t].old = {}
  BY <1>0, Zenon DEF Places, Hands
<1>5. \A a \in Actors : loc'[a].young = loc[a].young /\ loc'[a].old = loc[a].old
  <2>1. NoLoc.young = {} /\ NoLoc.old = {}
    BY Zenon DEF NoLoc
  <2> QED BY <2>1, <1>2, <1>4, Zenon
<1>6. /\ Cached(t)' = Cached(t) \ {b} /\ b \in Cached(t)
      /\ \A u \in Threads \ {t} : Cached(u)' = Cached(u)
      /\ \A u \in Threads : Uncarved(u)' = Uncarved(u)
  <2>2. Cached(t)' = Cached(t) \ {b} /\ b \in Cached(t)
    BY <1>1, <1>3, Zenon DEF Cached
  <2>3. \A u \in Threads \ {t} : Cached(u)' = Cached(u)
    BY <1>1, Zenon DEF Cached
  <2>4. \A u \in Threads : Uncarved(u)' = Uncarved(u)
    BY Zenon DEF Uncarved
  <2> QED BY <2>2, <2>3, <2>4, Zenon
<1>7. \A r \in Slots \ {p, Live} : Where'[r] = Where[r]
  BY <1>5, <1>6, Rest, Zenon
<1>8. /\ Where'[p] = Where[p] \ {b} /\ {b} \subseteq Where[p]
      /\ Where'[Live] = Where[Live] \cup {b}
  BY <1>2, <1>6, WhereIs, WhereNext, Zenon DEF Placed
<1>9. Apart(Where') /\ All(Where') = All(Where)
  <2>1. p \in Slots /\ Live \in Slots /\ p # Live
    BY Slot, Distinct, Zenon
  <2>2. Apart(Where)
    BY Zenon DEF Places, Partition
  <2> HIDE DEF p, b
  <2> QED BY <1>7, <1>8, <2>1, <2>2, Moved, Zenon
<1>10. Partition'
  BY <1>9, Zenon DEF Places, Partition, Mapped, Apart, All
<1>11. ASSUME NEW u \in Threads PROVE Cache(u)' /\ Region(u)'
  <2>1. CASE u = t
    <3>1. Cache(t) /\ Region(t)
      BY Zenon DEF Places
    <3>2. bin'[t].usage = Len(Tail(s)) /\ bin'[t].usage <= Cap
      BY <1>0, <1>1, <1>3, <3>1, CapFacts DEF Cache
    <3>3. Cache(t)'
      <4>2. pc'[t] \notin {"global", "fill"}
        BY <1>2, Zenon
      <4> QED BY <1>1, <1>3, <3>2, <4>2, Zenon DEF Cache
    <3>4. Region(t)'
      BY <3>1, Zenon DEF Region, Begun
    <3> QED BY <2>1, <3>3, <3>4, Zenon
  <2>2. CASE u # t
    <3>1. Cache(u) /\ Region(u) /\ u \in Actors
      BY Zenon DEF Places, Actors
    <3>2. bin'[u] = bin[u] /\ pending'[u] = pending[u] /\ pc'[u] = pc[u] /\ regions \in Nat
      BY <1>1, <1>2, <2>2, <3>1, ThreadCacheAssumption DEF Types
    <3> QED BY <3>1, <3>2, CacheStays, Zenon DEF Cache
  <2> QED BY <2>1, <2>2, Zenon
<1>12. ASSUME NEW a \in Actors PROVE Hands(a)'
  BY <1>2, <1>4, <1>5, Zenon DEF Places, Hands
<1>13. bin' \in [Threads -> [list : Seq(Nat), usage : Int]]
  BY <1>0, <1>3, SMTT(30) DEF Types, CacheType, pop_from_thread
<1>14. loc' \in [Actors -> [tries : Nat, rounds : Nat, young : SUBSET Nat, old : SUBSET Nat]]
  BY <1>0, Zenon DEF Types, LocType, Returns, NoLoc
<1> QED BY <1>10, <1>11, <1>12, <1>13, <1>14, Zenon DEF Places, CacheType, LocType

(* The caches and regions of the others, and what the trimmers have. *)
LEMMA OthersStay ==
    ASSUME Types, Places, NEW t \in Threads, pc[t] # "trim", pc'[t] # "trim",
           \A u \in Threads \ {t} : bin'[u] = bin[u] /\ pending'[u] = pending[u],
           \A a \in Actors \ {t} : pc'[a] = pc[a] /\ loc'[a] = loc[a],
           loc'[t].young = {} /\ loc'[t].old = {},
           regions' = regions \/ regions' = regions + 1,
           Partition', Cache(t)', Region(t)'
    PROVE  /\ Places'
           /\ \A a \in Actors : loc'[a].young = loc[a].young /\ loc'[a].old = loc[a].old
<1>1. t \in Actors /\ regions \in Nat
  BY ThreadCacheAssumption DEF Actors, Types
<1>2. ASSUME NEW u \in Threads \ {t} PROVE Cache(u)' /\ Region(u)'
  <2>1. Cache(u) /\ Region(u) /\ u \in Actors
    BY Zenon DEF Places, Actors
  <2>2. bin'[u] = bin[u] /\ pending'[u] = pending[u] /\ pc'[u] = pc[u]
    BY <2>1, Zenon
  <2> QED BY <1>1, <2>1, <2>2, CacheStays, SMTT(20) DEF Cache
<1>3. ASSUME NEW a \in Actors PROVE Hands(a)'
  BY Zenon DEF Places, Hands
<1>4. loc[t].young = {} /\ loc[t].old = {}
  BY <1>1, Zenon DEF Places, Hands
<1> QED BY <1>2, <1>3, <1>4, Zenon DEF Places

(* Blocks of the pool go into an empty cache, all but the first of them. *)
LEMMA RefillKept ==
    ASSUME Types, Places, NEW t \in Threads, Refill(t)
    PROVE  Places' /\ CacheType' /\ LocType'
<1>0. t \in Actors /\ regions \in Nat /\ bin[t].usage \in Int
  BY ThreadCacheAssumption DEF Actors, Types, CacheType
<1>1. Cache(t) /\ Region(t) /\ bin[t].list = <<>> /\ bin[t].usage = 0
  BY Zenon DEF Places, Cache, Refill
<1>2. PICK S \in SUBSET pool :
          /\ S # {} /\ Cardinality(S) <= hint /\ pool' = pool \ S
          /\ bin' = [bin EXCEPT ![t] = pop_from_thread(
                       push_to_thread_tailed(@, ListOf(S), Cardinality(S)))]
          /\ Returns(t, ListOf(S)[1])
  BY Zenon DEF Refill, pop_from_global
<1> DEFINE L == ListOf(S)
           n == Cardinality(S)
           b == L[1]
           p == <<"cache", t>>
<1>3. IsFiniteSet(S) /\ S \subseteq Nat
  <2>1. S \subseteq Mapped /\ IsFiniteSet(Mapped) /\ Mapped \subseteq Nat
    BY InMapped, Zenon DEF Places
  <2> QED BY <2>1, FS_Subset, Zenon
<1>4. L \in Seq(S) /\ Len(L) = n /\ IsInjective(L) /\ Range(L) = S /\ n \in Nat
  BY <1>3, ListOfSet, Zenon
<1>5. L # <<>> /\ L \in Seq(Nat)
  <2>1. n # 0
    BY <1>2, <1>3, FS_EmptySet, Zenon
  <2> HIDE DEF L, n
  <2>2. L \in Seq(Nat)
    BY <1>3, <1>4, Wider, Zenon
  <2> QED BY <2>1, <2>2, <1>4
<1>6. /\ Tail(L) \in Seq(Nat) /\ Len(Tail(L)) = n - 1 /\ n \in Nat \ {0}
      /\ IsInjective(Tail(L)) /\ Range(Tail(L)) = S \ {b} /\ b \in S
  <2> HIDE DEF L
  <2> QED BY <1>4, <1>5, Popped, Zenon
<1>7. /\ bin'[t].list = Tail(L) /\ bin'[t].usage = n - 1
      /\ \A u \in Threads \ {t} : bin'[u] = bin[u]
  <2>1. L \o <<>> = L
    BY <1>5
  <2>2. bin'[t] = pop_from_thread(push_to_thread_tailed(bin[t], L, n))
    BY <1>2, Zenon DEF Types, CacheType
  <2>3. push_to_thread_tailed(bin[t], L, n) = [list |-> L, usage |-> n]
    BY <2>1, <1>1, <1>4 DEF push_to_thread_tailed
  <2>4. bin'[t] = [list |-> Tail(L), usage |-> n - 1]
    BY <2>2, <2>3 DEF pop_from_thread
  <2>5. \A u \in Threads \ {t} : bin'[u] = bin[u]
    BY <1>2, Zenon DEF Types, CacheType
  <2> HIDE DEF L, n
  <2> QED BY <2>4, <2>5
<1>8. /\ live' = live \cup {b} /\ pc'[t] = "idle" /\ loc'[t] = NoLoc
      /\ \A a \in Actors \ {t} : pc'[a] = pc[a] /\ loc'[a] = loc[a]
  BY <1>0, <1>2, Zenon DEF Returns, Goto, Types, LocType
<1>9. loc'[t].young = {} /\ loc'[t].old = {} /\ loc[t].young = {} /\ loc[t].old = {}
  BY <1>0, <1>8 DEF NoLoc, Places, Hands, Refill
<1>10. \A a \in Actors : loc'[a].young = loc[a].young /\ loc'[a].old = loc[a].old
  BY <1>8, <1>9, Zenon
<1>11. /\ Cached(t)' = S \ {b} /\ Cached(t) = {}
       /\ \A u \in Threads \ {t} : Cached(u)' = Cached(u)
       /\ \A u \in Threads : Uncarved(u)' = Uncarved(u)
  <2>1. Cached(t)' = S \ {b}
    BY <1>6, <1>7, Zenon DEF Cached
  <2>2. Cached(t) = {}
    BY <1>1 DEF Cached, Range
  <2>3. \A u \in Threads \ {t} : Cached(u)' = Cached(u)
    BY <1>7, Zenon DEF Cached
  <2>4. \A u \in Threads : Uncarved(u)' = Uncarved(u)
    BY Zenon DEF Uncarved, Refill
  <2> QED BY <2>1, <2>2, <2>3, <2>4, Zenon
<1>12. \A r \in Slots \ {Pool, p, Live} : Where'[r] = Where[r]
  BY <1>10, <1>11, Rest, ZenonT(30)
<1>13. /\ S \subseteq Where[Pool] /\ Where'[Pool] = Where[Pool] \ ((S \ {b}) \cup {b})
       /\ Where'[p] = Where[p] \cup (S \ {b}) /\ Where'[Live] = Where[Live] \cup {b}
  <2>1. (S \ {b}) \cup {b} = S
    BY <1>6, Zenon
  <2>2. /\ Where[Pool] = pool /\ Where'[Pool] = pool' /\ Where[Live] = live
        /\ Where'[Live] = live' /\ Where[p] = Cached(t) /\ Where'[p] = Cached(t)'
    BY WhereIs, WhereNext, Zenon DEF Placed
  <2>3. pool' = pool \ S /\ S \subseteq pool
    BY <1>2, Zenon
  <2> HIDE DEF p, b
  <2> QED BY <2>1, <2>2, <2>3, <1>8, <1>11
<1>14. Apart(Where') /\ All(Where') = All(Where)
  <2>1. p \in Slots /\ Live \in Slots /\ Pool \in Slots /\ p # Live /\ p # Pool /\ Live # Pool
    BY Slot, Distinct, Zenon
  <2>2. Apart(Where)
    BY Zenon DEF Places, Partition
  <2>3. (S \ {b}) \cap {b} = {} /\ S \ {b} \subseteq Where[Pool] /\ {b} \subseteq Where[Pool]
    BY <1>6, <1>13, Zenon
  <2> HIDE DEF p, b
  <2> DEFINE X == S \ {b}
             Y == {b}
  <2>4. /\ X \subseteq Where[Pool] /\ Y \subseteq Where[Pool] /\ X \cap Y = {}
        /\ Where'[Pool] = Where[Pool] \ (X \cup Y) /\ Where'[p] = Where[p] \cup X
        /\ Where'[Live] = Where[Live] \cup Y
        /\ \A r \in Slots \ {Pool, p, Live} : Where'[r] = Where[r]
    BY <1>12, <1>13, <2>3, Zenon
  <2>5. Pool # p /\ Pool # Live /\ p # Live
    BY <2>1, Zenon
  <2> HIDE DEF X, Y
  <2>6. Parted(Where, Where', Pool, p, Live, X, Y)
    BY <2>1, <2>4, <2>5, Zenon DEF Parted
  <2> QED BY <2>2, <2>6, MovedTwo, Zenon
<1>15. Partition'
  BY <1>14, Zenon DEF Places, Partition, Mapped, Apart, All, Refill
<1>16. Cache(t)'
  <2>1. n - 1 <= Cap
    BY <1>2, <1>6, CapFacts, ThreadCacheAssumption DEF Types
  <2>2. pc'[t] \notin {"global", "fill"}
    BY <1>8, Zenon
  <2> QED BY <1>6, <1>7, <2>1, <2>2, ZenonT(30) DEF Cache
<1>17. Region(t)'
  BY <1>1, Zenon DEF Region, Begun, Refill
<1>18. Places'
  <2>1. /\ pc[t] # "trim" /\ pc'[t] # "trim" /\ regions' = regions
        /\ \A u \in Threads : pending'[u] = pending[u]
    BY <1>8, Zenon DEF Refill
  <2> QED BY <2>1, <1>7, <1>8, <1>9, <1>15, <1>16, <1>17, OthersStay, ZenonT(30)
<1>19. CacheType'
  <2>1. pop_from_thread(push_to_thread_tailed(bin[t], L, n)) \in [list : Seq(Nat), usage : Int]
    <3>1. L \o <<>> = L
      BY <1>5
    <3> QED BY <3>1, <1>1, <1>6 DEF pop_from_thread, push_to_thread_tailed
  <2> QED BY <2>1, <1>2, Zenon DEF Types, CacheType
<1>20. LocType'
  BY <1>0, <1>2, Zenon DEF Types, LocType, Returns, NoLoc
<1> QED BY <1>18, <1>19, <1>20, Zenon

(* Steps that move no block. *)
LEMMA QuietKept ==
    ASSUME Types, Places, UNCHANGED <<regions, pool, live, bin, pending>>,
           \A a \in Actors : loc'[a].young = loc[a].young /\ loc'[a].old = loc[a].old,
           \A a \in Actors : Hands(a)',
           \A u \in Threads : pc'[u] \in {"global", "fill"} => bin[u].list = <<>>
    PROVE  Places' /\ CacheType'
<1>1. Partition'
  BY Stay, Zenon DEF Places
<1>2. ASSUME NEW u \in Threads PROVE Cache(u)' /\ Region(u)'
  <2>1. Cache(u) /\ Region(u) /\ regions \in Nat
    BY ThreadCacheAssumption DEF Places, Types
  <2> QED BY <2>1, CacheStays, Zenon
<1>3. CacheType'
  BY Zenon DEF Types, CacheType
<1> QED BY <1>1, <1>2, <1>3, Zenon DEF Places

(* Steps of malloc, free and trimming that move no block. *)
Waits(t) == Malloc(t) \/ Spawn(t) \/ Miss(t) \/ RefillMiss(t) \/ Exit(t)

(* These steps keep every block where it is. *)
LEMMA WaitsKept ==
    ASSUME Types, Places, NEW t \in Threads, Waits(t)
    PROVE  Places' /\ CacheType' /\ LocType'
<1>0. t \in Actors
  BY Zenon DEF Actors
<1>1. PICK l \in {"pop", "spawn", "global", "fill", "dead"} :
          /\ pc' = [pc EXCEPT ![t] = l]
          /\ l \in {"global", "fill"} => bin[t].list = <<>>
  <2>1. CASE Malloc(t)
    BY <2>1, Zenon DEF Malloc, Goto
  <2>2. CASE Spawn(t) \/ Miss(t) \/ Exit(t)
    BY <2>2, Zenon DEF Spawn, Miss, Exit, Goto
  <2>3. CASE RefillMiss(t)
    BY <2>3, Zenon DEF RefillMiss, Goto, Places, Cache
  <2> QED BY <2>1, <2>2, <2>3, Zenon DEF Waits
<1>2. UNCHANGED <<regions, pool, live, bin, pending, loc>> /\ pc[t] # "trim"
  BY Zenon DEF Waits, Malloc, Spawn, Miss, RefillMiss, Exit
<1>3. pc'[t] = l /\ \A a \in Actors \ {t} : pc'[a] = pc[a]
  BY <1>0, <1>1, Zenon DEF Types
<1>4. ASSUME NEW a \in Actors PROVE Hands(a)'
  BY <1>0, <1>2, <1>3, Zenon DEF Places, Hands
<1>5. ASSUME NEW u \in Threads, pc'[u] \in {"global", "fill"} PROVE bin[u].list = <<>>
  BY <1>1, <1>3, <1>5, Zenon DEF Places, Cache, Actors
<1>6. LocType'
  BY <1>2, Zenon DEF Types, LocType
<1> QED BY <1>2, <1>4, <1>5, <1>6, QuietKept, Zenon

(* malloc gives up. *)
LEMMA EndsKept ==
    ASSUME Types, Places, NEW t \in Threads, FillFail(t) \/ (Take(t) /\ bin[t].list = <<>>)
    PROVE  Places' /\ CacheType' /\ LocType'
<1>0. t \in Actors
  BY Zenon DEF Actors
<1>1. /\ UNCHANGED <<regions, pool, live, bin, pending>> /\ pc[t] \in {"fill", "take"}
      /\ \/ pc' = pc /\ loc' = [loc EXCEPT ![t].tries = @ + 1]
         \/ pc' = [pc EXCEPT ![t] = "idle"] /\ loc' = [loc EXCEPT ![t] = NoLoc]
  BY Zenon DEF FillFail, Take, Goto
<1>2. loc[t].young = {} /\ loc[t].old = {} /\ loc[t].tries \in Nat
  BY <1>0, <1>1, Zenon DEF Places, Hands, Types, LocType
<1>3. /\ \A a \in Actors \ {t} : pc'[a] = pc[a] /\ loc'[a] = loc[a]
      /\ pc'[t] \in {pc[t], "idle"}
  BY <1>0, <1>1, Zenon DEF Types, LocType
<1>4. loc'[t].young = {} /\ loc'[t].old = {}
  <2>1. CASE loc' = [loc EXCEPT ![t].tries = @ + 1]
    BY <2>1, <1>0, <1>2, Zenon DEF Types, LocType
  <2>2. CASE loc' = [loc EXCEPT ![t] = NoLoc]
    <3>1. loc'[t] = NoLoc
      BY <2>2, <1>0, Zenon DEF Types, LocType
    <3> QED BY <3>1 DEF NoLoc
  <2> QED BY <1>1, <2>1, <2>2, Zenon
<1>5. \A a \in Actors : loc'[a].young = loc[a].young /\ loc'[a].old = loc[a].old
  BY <1>2, <1>3, <1>4, Zenon
<1>6. ASSUME NEW a \in Actors PROVE Hands(a)'
  BY <1>3, <1>4, Zenon DEF Places, Hands
<1>7. ASSUME NEW u \in Threads, pc'[u] \in {"global", "fill"} PROVE bin[u].list = <<>>
  BY <1>1, <1>3, <1>7, Zenon DEF Places, Cache, Actors
<1>8. LocType'
  <2>1. CASE loc' = [loc EXCEPT ![t].tries = @ + 1]
    <3>1. PICK n \in Nat : n = loc[t].tries + 1
      BY <1>2
    <3>2. loc' = [loc EXCEPT ![t].tries = n]
      BY <2>1, <3>1, Zenon
    <3> QED BY <3>2, <1>0, ZenonT(30) DEF Types, LocType
  <2>2. CASE loc' = [loc EXCEPT ![t] = NoLoc]
    BY <2>2, <1>0, Zenon DEF Types, LocType, NoLoc
  <2> QED BY <1>1, <2>1, <2>2, Zenon
<1> QED BY <1>1, <1>5, <1>6, <1>7, <1>8, QuietKept, Zenon

(* A trimming begins or ends. *)
LEMMA TurnsKept ==
    ASSUME Types, Places, NEW a \in Actors, TrimStart(a) \/ TrimEnd(a)
    PROVE  Places' /\ CacheType' /\ LocType'
<1>1. UNCHANGED <<regions, pool, live, bin, pending>>
  BY Zenon DEF TrimStart, TrimEnd
<1>2. /\ \A c \in Actors \ {a} : pc'[c] = pc[c] /\ loc'[c] = loc[c]
      /\ pc'[a] \in {"trim", "idle"} /\ (pc'[a] = "idle" => loc'[a] = NoLoc)
  BY Zenon DEF TrimStart, TrimEnd, Goto, Types, LocType
<1>3. loc'[a].young = loc[a].young /\ loc'[a].old = loc[a].old
  BY ZenonT(30) DEF TrimStart, TrimEnd, Types, LocType
<1>4. ASSUME NEW c \in Actors PROVE Hands(c)'
  <2>1. NoLoc.young = {} /\ NoLoc.old = {}
    BY Zenon DEF NoLoc
  <2> QED BY <2>1, <1>2, Zenon DEF Places, Hands
<1>5. \A c \in Actors : loc'[c].young = loc[c].young /\ loc'[c].old = loc[c].old
  BY <1>2, <1>3, Zenon
<1>6. ASSUME NEW u \in Threads, pc'[u] \in {"global", "fill"} PROVE bin[u].list = <<>>
  BY <1>2, <1>6, Zenon DEF Places, Cache, Actors
<1>7. LocType'
  <2>1. CASE TrimEnd(a)
    BY <2>1, Zenon DEF TrimEnd, Types, LocType
  <2>2. CASE TrimStart(a)
    <3>1. Cardinality(pool) \in Nat
      <4>1. IsFiniteSet(pool)
        BY InMapped, FS_Subset, Zenon DEF Places
      <4> QED BY <4>1, FS_CardinalityType, Zenon
    <3>2. Cardinality(pool) \div TRIM_BATCH \in Nat
      BY <3>1, ThreadCacheAssumption
    <3> QED BY <2>2, <3>2, Zenon DEF TrimStart, Types, LocType
  <2> QED BY <2>1, <2>2, Zenon
<1> QED BY <1>1, <1>4, <1>5, <1>6, <1>7, QuietKept, Zenon

-----------------------------------------------------------------------------
(* bulk_fill. *)

(* What is left of a region. *)
KeptOK(m, k) ==
    /\ k \in [region : Nat, next : Nat]
    /\ k = NoRegion \/ (k.region = m.region /\ k.next \in 0 .. ITERATIONS - 1)
    /\ (IF k.region = 0 THEN {} ELSE RegionBlocks(k)) = RegionBlocks(m) \ Cut(m, MaxInit)

(* bulk_fill keeps the rest of a region, or nothing when there is no rest. *)
LEMMA KeptFacts ==
    ASSUME NEW r \in Nat, NEW n \in 0 .. ITERATIONS - 1,
           NEW m, m = [region |-> r + 1, next |-> n]
    PROVE  KeptOK(m, Kept(Advanced(m, MaxInit)))
<1> DEFINE d == Advanced(m, MaxInit)
           k == Kept(d)
<1>1. /\ d.region = r + 1 /\ d.next \in 1 .. ITERATIONS
      /\ d = [region |-> r + 1, next |-> d.next]
      /\ RegionBlocks(d) = RegionBlocks(m) \ Cut(m, MaxInit)
      /\ d.next = ITERATIONS => RegionBlocks(d) = {}
  <2>1. MaxInit \in Nat \ {0} /\ m.region = r + 1
    BY ThreadCacheAssumption, Zenon
  <2>2. CutOK(m, d, MaxInit)
    BY <2>1, CutFacts, Zenon
  <2> HIDE DEF d
  <2> QED BY <2>1, <2>2, Zenon DEF CutOK
<1>2. PICK e \in 1 .. ITERATIONS : e = d.next /\ d = [region |-> r + 1, next |-> e]
  BY <1>1, Zenon
<1> HIDE DEF d
<1>3. CASE e < ITERATIONS
  <2>1. k = d
    BY <1>2, <1>3, ThreadCacheAssumption DEF Kept, remaining_blocks
  <2>2. k.region = r + 1 /\ k.region # 0 /\ k.next \in 0 .. ITERATIONS - 1
    BY <2>1, <1>1, <1>2, <1>3, ThreadCacheAssumption
  <2>3. k \in [region : Nat, next : Nat]
    BY <2>1, <1>2, ThreadCacheAssumption
  <2>4. KeptOK(m, k)
    BY <2>1, <2>2, <2>3, <1>1, Zenon DEF KeptOK
  <2> QED BY <2>4, Zenon DEF d
<1>4. CASE e = ITERATIONS
  <2>1. k = NoRegion
    BY <1>2, <1>4, ThreadCacheAssumption DEF Kept, remaining_blocks
  <2>2. k.region = 0 /\ k \in [region : Nat, next : Nat]
    BY <2>1, ThreadCacheAssumption DEF NoRegion
  <2>3. RegionBlocks(m) \ Cut(m, MaxInit) = {}
    BY <1>1, <1>2, <1>4, Zenon
  <2> HIDE DEF k
  <2>4. KeptOK(m, k)
    BY <2>1, <2>2, <2>3, Zenon DEF KeptOK
  <2> QED BY <2>4, Zenon DEF k, d
<1> QED BY <1>2, <1>3, <1>4, ThreadCacheAssumption

(* The blocks that are cut off are what the cache then holds. *)
Fresh(m) == \E r \in Nat : \E n \in 0 .. ITERATIONS - 1 : m = [region |-> r + 1, next |-> n]

(* bulk_fill leaves in the cache just the blocks it has cut off. *)
LEMMA FillCache ==
    ASSUME Types, Places, NEW t \in Threads, pc[t] = "fill", pc'[t] = "take",
           NEW m, Fresh(m),
           bin' = [bin EXCEPT ![t] =
                      push_to_thread_tailed(@, Carved(m, MaxInit), Count(m, MaxInit))]
    PROVE  /\ Cached(t) = {} /\ Cached(t)' = Cut(m, MaxInit)
           /\ \A u \in Threads \ {t} : Cached(u)' = Cached(u) /\ bin'[u] = bin[u]
           /\ Cache(t)' /\ CacheType'
<1> DEFINE X == Cut(m, MaxInit)
           L == ListOf(X)
           c == Count(m, MaxInit)
<1>1. bin[t].list = <<>> /\ bin[t].usage = 0 /\ bin[t].usage \in Int
  BY Zenon DEF Places, Cache, Types, CacheType
<1>2. /\ X \subseteq Nat /\ IsFiniteSet(X) /\ Cardinality(X) = c /\ c \in 1 .. MaxInit
  <2>1. MaxInit \in Nat \ {0}
    BY ThreadCacheAssumption, Zenon
  <2>2. CutOK(m, Advanced(m, MaxInit), MaxInit)
    BY <2>1, CutFacts, Zenon DEF Fresh
  <2> QED BY <2>2, Zenon DEF CutOK
<1>3. L \in Seq(X) /\ Len(L) = c /\ IsInjective(L) /\ Range(L) = X
  <2> HIDE DEF X, c
  <2> QED BY <1>2, ListOfSet, Zenon
<1>4. Carved(m, MaxInit) = L
  BY Zenon DEF Carved, Cut
<1> HIDE DEF X, L, c
<1>5. L \in Seq(Nat) /\ c \in Nat /\ c <= Cap
  <2>1. c \in Nat /\ c <= MaxInit /\ MaxInit \in Nat
    BY <1>2, ThreadCacheAssumption
  <2>2. c <= Cap
    BY <2>1, CapFacts
  <2>3. L \in Seq(Nat)
    BY <1>2, <1>3, Wider, Zenon
  <2> QED BY <2>1, <2>2, <2>3, Zenon
<1>6. push_to_thread_tailed(bin[t], Carved(m, MaxInit), Count(m, MaxInit))
         = [list |-> L, usage |-> c]
  <2>1. L \o <<>> = L
    BY <1>5
  <2>2. Carved(m, MaxInit) \o bin[t].list = L
    BY <2>1, <1>1, <1>4, Zenon
  <2>3. bin[t].usage + Count(m, MaxInit) = c
    BY <1>1, <1>5 DEF c
  <2> QED BY <2>2, <2>3, Zenon DEF push_to_thread_tailed
<1>7. bin' = [bin EXCEPT ![t] = [list |-> L, usage |-> c]]
  BY <1>6, Zenon
<1>8. bin'[t].list = L /\ bin'[t].usage = c /\ \A u \in Threads \ {t} : bin'[u] = bin[u]
  BY <1>7 DEF Types, CacheType
<1>9. Cached(t) = {} /\ Cached(t)' = X
  BY <1>1, <1>3, <1>8 DEF Cached, Range
<1>10. \A u \in Threads \ {t} : Cached(u)' = Cached(u)
  BY <1>8, Zenon DEF Cached
<1>11. Cache(t)'
  BY <1>3, <1>5, <1>8, ZenonT(30) DEF Cache
<1>12. CacheType'
  BY <1>5, <1>7 DEF Types, CacheType
<1> QED BY <1>8, <1>9, <1>10, <1>11, <1>12, Zenon DEF X

(* The blocks that are cut off a region go into the cache ... *)
LEMMA FillPendingKept ==
    ASSUME Types, Places, NEW t \in Threads, FillPending(t)
    PROVE  Places' /\ CacheType' /\ LocType' /\ pending' \in [Threads -> [region : Nat, next : Nat]]
<1> DEFINE m == pending[t]
           X == Cut(m, MaxInit)
           k == Kept(Advanced(m, MaxInit))
           p == <<"region", t>>
           q == <<"cache", t>>
<1>0. t \in Actors /\ regions \in Nat
  BY ThreadCacheAssumption DEF Actors, Types
<1>1. m # NoRegion /\ Region(t)
  BY ThreadCacheAssumption DEF FillPending, remaining_blocks, NoRegion, Places
<1>2. PICK r \in Nat, n \in 0 .. ITERATIONS - 1 :
          m = [region |-> r + 1, next |-> n] /\ r + 1 <= regions
  <2>1. m \in [region : Nat, next : Nat] /\ Begun(m)
    BY <1>1, Zenon DEF Region, Types
  <2>2. m.region - 1 \in Nat /\ (m.region - 1) + 1 = m.region /\ m.region <= regions
        /\ m.next \in 0 .. ITERATIONS - 1
    BY <2>1, <1>0 DEF Begun
  <2>3. m = [region |-> (m.region - 1) + 1, next |-> m.next]
    BY <2>1, <2>2, Zenon
  <2> QED BY <2>2, <2>3, Zenon
<1>3. /\ bin' = [bin EXCEPT ![t] =
                    push_to_thread_tailed(@, Carved(m, MaxInit), Count(m, MaxInit))]
      /\ pending' = [pending EXCEPT ![t] = k]
      /\ pc[t] = "fill" /\ pc'[t] = "take" /\ \A a \in Actors \ {t} : pc'[a] = pc[a]
      /\ UNCHANGED <<regions, pool, live, loc>>
  BY <1>0, Zenon DEF FillPending, Goto, Types
<1>4. /\ k \in [region : Nat, next : Nat]
      /\ k = NoRegion \/ (k.region = r + 1 /\ k.next \in 0 .. ITERATIONS - 1)
      /\ (IF k.region = 0 THEN {} ELSE RegionBlocks(k)) = RegionBlocks(m) \ X
  <2>1. KeptOK(m, k) /\ m.region = r + 1
    <3> HIDE DEF m
    <3> QED BY <1>2, KeptFacts, Zenon
  <2> HIDE DEF m, k, X
  <2>2. (IF k.region = 0 THEN {} ELSE RegionBlocks(k)) = RegionBlocks(m) \ X
    BY <2>1, Zenon DEF KeptOK, X
  <2> QED BY <2>1, <2>2, Zenon DEF KeptOK
<1>5. X \subseteq RegionBlocks(m) /\ m.region # 0
  BY <1>2 DEF Cut
<1> HIDE DEF m
<1>6. /\ Cached(t) = {} /\ Cached(t)' = X
      /\ \A u \in Threads \ {t} : Cached(u)' = Cached(u) /\ bin'[u] = bin[u]
      /\ Cache(t)' /\ CacheType'
  <2>1. Fresh(m)
    BY <1>2, Zenon DEF Fresh
  <2> QED BY <2>1, <1>3, FillCache, Zenon
<1> HIDE DEF X, k
<1>7. pending'[t] = k /\ \A u \in Threads \ {t} : pending'[u] = pending[u]
  BY <1>3, Zenon DEF Types
<1>8. /\ Uncarved(t) = RegionBlocks(m) /\ Uncarved(t)' = RegionBlocks(m) \ X
      /\ \A u \in Threads \ {t} : Uncarved(u)' = Uncarved(u)
  BY <1>4, <1>5, <1>7, Zenon DEF Uncarved, m, RegionBlocks
<1>9. \A s \in Slots \ {p, q} : Where'[s] = Where[s]
  BY <1>3, <1>6, <1>8, Rest, Zenon
<1>10. X \subseteq Where[p] /\ Where'[p] = Where[p] \ X /\ Where'[q] = Where[q] \cup X
  <2>1. /\ Where[p] = Uncarved(t) /\ Where'[p] = Uncarved(t)'
        /\ Where[q] = Cached(t) /\ Where'[q] = Cached(t)'
    BY WhereIs, WhereNext, Zenon DEF Placed
  <2> HIDE DEF p, q
  <2> QED BY <2>1, <1>5, <1>6, <1>8, Zenon
<1>11. Apart(Where') /\ All(Where') = All(Where)
  <2>1. p \in Slots /\ q \in Slots /\ p # q /\ Apart(Where)
    BY Slot, Distinct, Zenon DEF Places, Partition
  <2> HIDE DEF p, q
  <2> QED BY <1>9, <1>10, <2>1, Moved, Zenon
<1>12. Partition'
  BY <1>3, <1>11, Zenon DEF Places, Partition, Mapped, Apart, All
<1>13. Region(t)'
  BY <1>0, <1>2, <1>3, <1>4, <1>7 DEF Region, Begun
<1>14. Places'
  <2>1. loc'[t].young = {} /\ loc'[t].old = {} /\ pc[t] # "trim" /\ pc'[t] # "trim"
    BY <1>0, <1>3, Zenon DEF Places, Hands
  <2> QED BY <2>1, <1>3, <1>6, <1>7, <1>12, <1>13, OthersStay, ZenonT(30)
<1>15. LocType' /\ pending' \in [Threads -> [region : Nat, next : Nat]]
  BY <1>3, <1>4, Zenon DEF Types, LocType
<1> QED BY <1>6, <1>14, <1>15, Zenon

(* ... and so do those of a new region, whose others wait. *)
LEMMA FillRegionKept ==
    ASSUME Types, Places, NEW t \in Threads, FillRegion(t)
    PROVE  Places' /\ CacheType' /\ LocType' /\ pending' \in [Threads -> [region : Nat, next : Nat]]
<1> DEFINE m == [region |-> regions + 1, next |-> 0]
           X == Cut(m, MaxInit)
           Y == RegionBlocks(m) \ X
           k == Kept(Advanced(m, MaxInit))
           p == <<"region", t>>
           q == <<"cache", t>>
<1>0. t \in Actors /\ regions \in Nat /\ 0 \in 0 .. ITERATIONS - 1
  BY ThreadCacheAssumption DEF Actors, Types
<1>1. pending[t] = NoRegion
  BY ThreadCacheAssumption DEF FillRegion, remaining_blocks, Places, Region, Begun
<1>2. ~(bin[t].usage >= TLS_MAX_BLOCKS)
  <2>1. bin[t].usage = 0
    BY Zenon DEF FillRegion, Places, Cache
  <2> QED BY <2>1, ThreadCacheAssumption
<1>3. /\ bin' = [bin EXCEPT ![t] =
                    push_to_thread_tailed(@, Carved(m, MaxInit), Count(m, MaxInit))]
      /\ pending' = [pending EXCEPT ![t] = k]
      /\ pc[t] = "fill" /\ pc'[t] = "take" /\ \A a \in Actors \ {t} : pc'[a] = pc[a]
      /\ regions' = regions + 1 /\ UNCHANGED <<pool, live, loc>>
  BY <1>0, <1>2, Zenon DEF FillRegion, Goto, Types
<1>4. /\ k \in [region : Nat, next : Nat]
      /\ k = NoRegion \/ (k.region = regions + 1 /\ k.next \in 0 .. ITERATIONS - 1)
      /\ (IF k.region = 0 THEN {} ELSE RegionBlocks(k)) = Y
  <2>1. m = [region |-> regions + 1, next |-> 0] /\ m.region = regions + 1
    BY Zenon
  <2>2. KeptOK(m, k)
    <3> HIDE DEF m
    <3> QED BY <1>0, <2>1, KeptFacts, Zenon
  <2> HIDE DEF m, k
  <2>3. (IF k.region = 0 THEN {} ELSE RegionBlocks(k)) = Y
    BY <2>2, Zenon DEF KeptOK
  <2> QED BY <2>1, <2>2, <2>3, Zenon DEF KeptOK
<1>5. /\ X \subseteq RegionBlocks(m)
      /\ RegionBlocks(m) = (regions * ITERATIONS + 1) .. (regions * ITERATIONS + ITERATIONS)
  <2>1. /\ X \subseteq RegionBlocks(m)
        /\ RegionBlocks(m) = (regions * ITERATIONS + 0 + 1) .. (regions * ITERATIONS + ITERATIONS)
    BY <1>0, CutFacts, ThreadCacheAssumption, Zenon DEF Cut
  <2>2. regions * ITERATIONS + 0 + 1 = regions * ITERATIONS + 1
    BY <1>0, Times
  <2> QED BY <2>1, <2>2, Zenon
<1>6. /\ Cached(t) = {} /\ Cached(t)' = X
      /\ \A u \in Threads \ {t} : Cached(u)' = Cached(u) /\ bin'[u] = bin[u]
      /\ Cache(t)' /\ CacheType'
  <2>1. Fresh(m)
    BY <1>0, Zenon DEF Fresh
  <2> HIDE DEF m
  <2> QED BY <2>1, <1>3, FillCache, Zenon
<1>7. /\ X \cup Y = RegionBlocks(m) /\ X \cap Y = {}
  BY <1>5, Zenon
<1>8. RegionBlocks(m) \cap Mapped = {} /\ Mapped' = Mapped \cup RegionBlocks(m)
  <2>1. PICK e \in Nat : e = regions * ITERATIONS
    BY <1>0, Times, Zenon
  <2>2. (regions + 1) * ITERATIONS = e + ITERATIONS
    BY <2>1, <1>0, Times, Zenon
  <2>3. /\ Mapped = 1 .. e /\ Mapped' = 1 .. (e + ITERATIONS)
        /\ RegionBlocks(m) = (e + 1) .. (e + ITERATIONS)
    BY <2>1, <2>2, <1>3, <1>5, Zenon DEF Mapped
  <2>4. /\ ((e + 1) .. (e + ITERATIONS)) \cap (1 .. e) = {}
        /\ 1 .. (e + ITERATIONS) = (1 .. e) \cup ((e + 1) .. (e + ITERATIONS))
    BY <2>1, ThreadCacheAssumption
  <2> QED BY <2>3, <2>4, Zenon
<1> HIDE DEF m, X, Y, k
<1>9. pending'[t] = k /\ \A u \in Threads \ {t} : pending'[u] = pending[u]
  BY <1>3, Zenon DEF Types
<1>10. /\ Uncarved(t) = {} /\ Uncarved(t)' = Y
       /\ \A u \in Threads \ {t} : Uncarved(u)' = Uncarved(u)
  BY <1>1, <1>4, <1>9 DEF Uncarved, NoRegion, RegionBlocks
<1>11. \A s \in Slots \ {q, p} : Where'[s] = Where[s]
  BY <1>3, <1>6, <1>10, Rest, Zenon
<1>12. Where'[q] = Where[q] \cup X /\ Where'[p] = Where[p] \cup Y
  <2>1. /\ Where[p] = Uncarved(t) /\ Where'[p] = Uncarved(t)'
        /\ Where[q] = Cached(t) /\ Where'[q] = Cached(t)'
    BY WhereIs, WhereNext, Zenon DEF Placed
  <2> HIDE DEF p, q
  <2> QED BY <2>1, <1>6, <1>10, Zenon
<1>13. Apart(Where') /\ All(Where') = All(Where) \cup X \cup Y
  <2>1. p \in Slots /\ q \in Slots /\ q # p /\ Apart(Where) /\ All(Where) = Mapped
    BY Slot, Distinct, Zenon DEF Places, Partition
  <2>2. X \cap All(Where) = {} /\ Y \cap All(Where) = {}
    BY <2>1, <1>7, <1>8, Zenon
  <2> HIDE DEF p, q
  <2>3. X \cap Y = {}
    BY <1>7, Zenon
  <2>4. Added(Where, Where', q, p, X, Y)
    BY <1>11, <1>12, <2>1, <2>2, <2>3, Zenon DEF Added
  <2> QED BY <2>1, <2>4, Came
<1>14. Partition'
  <2>1. All(Where') = Mapped'
    BY <1>7, <1>8, <1>13, Zenon DEF Places, Partition
  <2> QED BY <2>1, <1>13, Zenon DEF Partition, Apart, All
<1>15. Region(t)'
  BY <1>0, <1>3, <1>4, <1>9 DEF Region, Begun
<1>16. Places'
  <2>1. loc'[t].young = {} /\ loc'[t].old = {} /\ pc[t] # "trim" /\ pc'[t] # "trim"
    BY <1>0, <1>3, Zenon DEF Places, Hands
  <2> QED BY <2>1, <1>3, <1>6, <1>9, <1>14, <1>15, OthersStay, ZenonT(30)
<1>17. LocType' /\ pending' \in [Threads -> [region : Nat, next : Nat]]
  BY <1>3, <1>4, Zenon DEF Types, LocType
<1> QED BY <1>6, <1>16, <1>17, Zenon
-----------------------------------------------------------------------------
(* free and trimming. *)

(* A block of the program goes to the cache, or to the pool if that is full. *)
LEMMA FreeKept ==
    ASSUME Types, Places, NEW t \in Threads, Free(t)
    PROVE  Places' /\ CacheType' /\ LocType'
<1> DEFINE s == bin[t].list
           q == <<"cache", t>>
<1>0. t \in Actors /\ regions \in Nat /\ s \in Seq(Nat) /\ bin[t].usage \in Int
  BY ThreadCacheAssumption DEF Actors, Types, CacheType
<1>1. PICK b \in live :
          /\ live' = live \ {b}
          /\ IF bin[t].usage >= TLS_MAX_BLOCKS
               THEN pool' = pool \cup {b} /\ UNCHANGED bin
               ELSE /\ bin' = [bin EXCEPT ![t] = push_to_thread_tailed(@, <<b>>, 1)]
                    /\ UNCHANGED pool
  BY Zenon DEF Free
<1>2. UNCHANGED <<regions, pending, pc, loc>> /\ pc[t] = "idle"
  BY Zenon DEF Free
<1>3. b \in Nat /\ b \notin Cached(t)
  <2>1. b \in Nat
    BY InMapped, Zenon DEF Places
  <2>2. Live \in Slots /\ q \in Slots /\ Live # q /\ Apart(Where)
    BY Slot, Distinct, Zenon DEF Places, Partition
  <2>3. Where[Live] = live /\ Where[q] = Cached(t)
    BY WhereIs, Zenon DEF Placed
  <2> HIDE DEF q
  <2> QED BY <2>1, <2>2, <2>3, Zenon DEF Apart
<1>4. /\ \A u \in Threads : Uncarved(u)' = Uncarved(u) /\ pending'[u] = pending[u]
      /\ \A a \in Actors : pc'[a] = pc[a] /\ loc'[a] = loc[a]
      /\ loc'[t].young = {} /\ loc'[t].old = {} /\ Region(t)'
  BY <1>0, <1>2, Zenon DEF Uncarved, Places, Hands, Region, Begun
<1>5. LocType'
  BY <1>2, Zenon DEF Types, LocType
<1>6. /\ Live \in Slots /\ {b} \subseteq Where[Live]
      /\ Where'[Live] = Where[Live] \ {b} /\ Apart(Where)
  BY <1>1, Slot, WhereIs, WhereNext, Zenon DEF Placed, Places, Partition
<1>7. CASE bin[t].usage >= TLS_MAX_BLOCKS
  <2>1. pool' = pool \cup {b} /\ bin' = bin
    BY <1>1, <1>7, Zenon
  <2>2. \A u \in Threads : Cached(u)' = Cached(u)
    BY <2>1, Zenon DEF Cached
  <2>3. \A r \in Slots \ {Live, Pool} : Where'[r] = Where[r]
    BY <2>2, <1>4, Rest, Zenon
  <2>4. Where'[Pool] = Where[Pool] \cup {b} /\ Pool \in Slots /\ Live # Pool
    BY <2>1, Slot, WhereIs, WhereNext, Zenon DEF Placed
  <2>5. Apart(Where') /\ All(Where') = All(Where)
    BY <1>6, <2>3, <2>4, Moved, Zenon
  <2>6. Partition'
    BY <1>2, <2>5, Zenon DEF Places, Partition, Mapped, Apart, All
  <2>7. Cache(t)'
    BY <1>4, <2>1, <1>0, Zenon DEF Places, Cache
  <2>8. Places'
    BY <1>2, <1>4, <2>1, <2>6, <2>7, OthersStay, Zenon
  <2>9. CacheType'
    BY <2>1, Zenon DEF Types, CacheType
  <2> QED BY <1>5, <2>8, <2>9, Zenon
<1>8. CASE ~(bin[t].usage >= TLS_MAX_BLOCKS)
  <2> DEFINE c == <<b>> \o s
  <2>0. <<b>> \in Seq(Nat) /\ Len(<<b>>) = 1 /\ IsInjective(<<b>>) /\ Range(<<b>>) = {b}
    BY <1>3 DEF IsInjective, Range
  <2>1. /\ c \in Seq(Nat) /\ Len(c) = 1 + Len(s) /\ IsInjective(c)
        /\ Range(c) = {b} \cup Range(s) /\ Len(s) \in Nat
    <3>1. IsInjective(s) /\ {b} \cap Range(s) = {} /\ Len(s) \in Nat
      BY <1>0, <1>3 DEF Places, Cache, Cached
    <3>2. s \in Seq(Nat) /\ b \in Nat
      BY <1>0, <1>3, Zenon
    <3> HIDE DEF s
    <3> QED BY <2>0, <3>1, <3>2, Prepended, Zenon
  <2>2. bin' = [bin EXCEPT ![t] = [list |-> c, usage |-> bin[t].usage + 1]] /\ pool' = pool
    BY <1>1, <1>8, Zenon DEF push_to_thread_tailed
  <2> HIDE DEF c
  <2>3. /\ bin'[t].list = c /\ bin'[t].usage = bin[t].usage + 1
        /\ \A u \in Threads \ {t} : bin'[u] = bin[u]
    BY <2>2, Zenon DEF Types, CacheType
  <2>4. Cached(t)' = Cached(t) \cup {b} /\ \A u \in Threads \ {t} : Cached(u)' = Cached(u)
    BY <2>1, <2>3, Zenon DEF Cached
  <2>5. \A r \in Slots \ {Live, q} : Where'[r] = Where[r]
    BY <2>2, <2>4, <1>4, Rest, Zenon
  <2>6. Where'[q] = Where[q] \cup {b} /\ q \in Slots /\ Live # q
    BY <2>4, Slot, Distinct, WhereIs, WhereNext, Zenon DEF Placed
  <2>7. Apart(Where') /\ All(Where') = All(Where)
    <3> HIDE DEF q
    <3> QED BY <1>6, <2>5, <2>6, Moved, Zenon
  <2>8. Partition'
    BY <1>2, <2>7, Zenon DEF Places, Partition, Mapped, Apart, All
  <2>9. Cache(t)'
    <3>1. bin[t].usage = Len(s)
      BY Zenon DEF Places, Cache
    <3>2. bin'[t].usage = Len(c) /\ bin'[t].usage <= Cap
      BY <3>1, <2>1, <2>3, <1>0, <1>8, CapFacts, ThreadCacheAssumption
    <3>3. pc'[t] \notin {"global", "fill"}
      BY <1>2, Zenon
    <3> QED BY <3>2, <3>3, <2>1, <2>3, Zenon DEF Cache
  <2>10. Places'
    BY <1>2, <1>4, <2>3, <2>8, <2>9, OthersStay, Zenon
  <2>11. CacheType'
    BY <2>1, <2>2, <1>0 DEF Types, CacheType
  <2> QED BY <1>5, <2>10, <2>11, Zenon
<1> QED BY <1>7, <1>8, Zenon

(* What a trimmer does with blocks is no matter of the caches. *)
LEMMA TrimStays ==
    ASSUME Types, Places, NEW a \in Actors, pc[a] = "trim",
           UNCHANGED <<regions, bin, pending, pc>>,
           \A c \in Actors \ {a} : loc'[c] = loc[c],
           Partition'
    PROVE  Places' /\ CacheType'
<1>1. ASSUME NEW u \in Threads PROVE Cache(u)' /\ Region(u)'
  <2>1. Cache(u) /\ Region(u) /\ regions \in Nat
    BY ThreadCacheAssumption DEF Places, Types
  <2>2. pc'[u] \in {"global", "fill"} => bin[u].list = <<>>
    BY <2>1, Zenon DEF Cache
  <2> QED BY <2>1, <2>2, CacheStays, Zenon
<1>2. ASSUME NEW c \in Actors PROVE Hands(c)'
  BY Zenon DEF Places, Hands
<1>3. CacheType'
  BY Zenon DEF Types, CacheType
<1> QED BY <1>1, <1>2, <1>3, Zenon DEF Places

(* Blocks of the pool pass into the hands of a trimmer ... *)
LEMMA TrimPopKept ==
    ASSUME Types, Places, NEW a \in Actors, TrimPop(a)
    PROVE  Places' /\ CacheType' /\ LocType'
<1> DEFINE p == <<"young", a>>
           q == <<"old", a>>
<1>0. PICK S \in SUBSET pool : \E o \in SUBSET S :
          /\ pool' = pool \ S
          /\ loc' = [loc EXCEPT ![a].rounds = IF S = {} THEN 0 ELSE @ - 1,
                                ![a].young = S \ o,
                                ![a].old = @ \cup o]
  BY Zenon DEF TrimPop, pop_from_global
<1>1. PICK old \in SUBSET S :
          /\ pool' = pool \ S
          /\ loc' = [loc EXCEPT ![a].rounds = IF S = {} THEN 0 ELSE @ - 1,
                                ![a].young = S \ old,
                                ![a].old = @ \cup old]
  BY <1>0, Zenon
<1>2. /\ UNCHANGED <<regions, live, bin, pending, pc>> /\ pc[a] = "trim" /\ loc[a].young = {}
      /\ loc[a].rounds \in Nat /\ loc[a].rounds > 0 /\ loc[a].old \subseteq Nat
      /\ loc[a].tries \in Nat
  BY Zenon DEF TrimPop, Types, LocType
<1>3. /\ loc'[a].young = S \ old /\ loc'[a].old = loc[a].old \cup old
      /\ \A c \in Actors \ {a} : loc'[c] = loc[c]
  BY <1>1, Zenon DEF Types, LocType
<1>4. \A u \in Threads : Cached(u)' = Cached(u) /\ Uncarved(u)' = Uncarved(u)
  BY <1>2, Zenon DEF Cached, Uncarved
<1>5. \A r \in Slots \ {Pool, p, q} : Where'[r] = Where[r]
  BY <1>2, <1>3, <1>4, Rest, Zenon
<1> DEFINE X == S \ old
<1>6. /\ X \subseteq Where[Pool] /\ old \subseteq Where[Pool] /\ X \cap old = {}
      /\ Where'[Pool] = Where[Pool] \ (X \cup old)
      /\ Where'[p] = Where[p] \cup X /\ Where'[q] = Where[q] \cup old
  <2>1. /\ Where[Pool] = pool /\ Where'[Pool] = pool'
        /\ Where[p] = loc[a].young /\ Where'[p] = loc'[a].young
        /\ Where[q] = loc[a].old /\ Where'[q] = loc'[a].old
    BY WhereIs, WhereNext, Zenon DEF Placed
  <2>2. X \cup old = S /\ pool' = pool \ S
    BY <1>1, Zenon
  <2> HIDE DEF p, q
  <2> QED BY <2>1, <2>2, <1>2, <1>3, Zenon
<1>7. Apart(Where') /\ All(Where') = All(Where)
  <2>1. /\ p \in Slots /\ q \in Slots /\ Pool \in Slots /\ Pool # p /\ Pool # q /\ p # q
        /\ Apart(Where)
    BY Slot, Distinct, Zenon DEF Places, Partition
  <2> HIDE DEF p, q, X
  <2>2. Parted(Where, Where', Pool, p, q, X, old)
    BY <1>5, <1>6, <2>1, Zenon DEF Parted
  <2> QED BY <2>1, <2>2, MovedTwo, Zenon
<1>8. Partition'
  BY <1>2, <1>7, Zenon DEF Places, Partition, Mapped, Apart, All
<1>9. Places' /\ CacheType'
  BY <1>2, <1>3, <1>8, TrimStays, Zenon
<1>10. LocType'
  <2>1. S \subseteq Nat
    BY InMapped, Zenon DEF Places
  <2>2. PICK n \in Nat : n = IF S = {} THEN 0 ELSE loc[a].rounds - 1
    <3>1. loc[a].rounds \in Nat /\ loc[a].rounds > 0
      BY <1>2, Zenon
    <3>2. loc[a].rounds - 1 \in Nat /\ 0 \in Nat
      BY <3>1
    <3> QED BY <3>2, Zenon
  <2>3. PICK y \in SUBSET Nat, o \in SUBSET Nat : y = S \ old /\ o = loc[a].old \cup old
    BY <2>1, <1>2, Zenon
  <2>4. loc' = [loc EXCEPT ![a].rounds = n, ![a].young = y, ![a].old = o]
    BY <1>1, <2>2, <2>3, Zenon
  <2>5. PICK r \in [tries : Nat, rounds : Nat, young : SUBSET Nat, old : SUBSET Nat] :
           loc' = [loc EXCEPT ![a] = r]
    <3> DEFINE r == [loc[a] EXCEPT !.rounds = n, !.young = y, !.old = o]
    <3>1. r \in [tries : Nat, rounds : Nat, young : SUBSET Nat, old : SUBSET Nat]
      BY Zenon DEF Types, LocType
    <3>2. loc' = [loc EXCEPT ![a] = r]
      BY <2>4, Zenon DEF Types, LocType
    <3> QED BY <3>1, <3>2, Zenon
  <2> QED BY <2>5, Zenon DEF Types, LocType
<1> QED BY <1>9, <1>10, Zenon

(* ... and back into the pool. *)
LEMMA TrimBackKept ==
    ASSUME Types, Places, NEW a \in Actors, TrimPush(a) \/ TrimRelease(a)
    PROVE  Places' /\ CacheType' /\ LocType'
<1>1. /\ UNCHANGED <<regions, live, bin, pending, pc>> /\ pc[a] = "trim"
      /\ \A c \in Actors \ {a} : loc'[c] = loc[c]
  BY Zenon DEF TrimPush, TrimRelease, Types, LocType
<1>2. PICK k \in {"young", "old"}, X \in SUBSET (loc[a].young \cup loc[a].old) :
          /\ pool' = pool \cup X
          /\ X \subseteq (IF k = "young" THEN loc[a].young ELSE loc[a].old)
          /\ loc'[a].young = IF k = "young" THEN loc[a].young \ X ELSE loc[a].young
          /\ loc'[a].old = IF k = "old" THEN loc[a].old \ X ELSE loc[a].old
  <2>1. CASE TrimPush(a)
    <3>1. /\ pool' = pool \cup loc[a].young /\ loc'[a].young = {} /\ loc'[a].old = loc[a].old
      BY <2>1, Zenon DEF TrimPush, Types, LocType
    <3>2. loc[a].young \ loc[a].young = {}
      BY Zenon
    <3> QED BY <3>1, <3>2, Zenon
  <2>2. CASE TrimRelease(a)
    <3>1. PICK b \in loc[a].old : pool' = pool \cup {b} /\ loc' = [loc EXCEPT ![a].old = @ \ {b}]
      BY <2>2, Zenon DEF TrimRelease
    <3>2. loc'[a].young = loc[a].young /\ loc'[a].old = loc[a].old \ {b}
      BY <3>1, Zenon DEF Types, LocType
    <3> QED BY <3>1, <3>2, Zenon
  <2> QED BY <2>1, <2>2, Zenon
<1>3. \A u \in Threads : Cached(u)' = Cached(u) /\ Uncarved(u)' = Uncarved(u)
  BY <1>1, Zenon DEF Cached, Uncarved
<1> DEFINE p == <<k, a>>
<1>4. /\ p \in Slots /\ Pool \in Slots /\ p # Pool /\ Apart(Where)
  BY <1>2, Slot, Distinct, Zenon DEF Places, Partition
<1>5. X \subseteq Where[p] /\ Where'[p] = Where[p] \ X /\ Where'[Pool] = Where[Pool] \cup X
  BY <1>2, WhereIs, WhereNext, Zenon DEF Placed
<1>6. \A r \in Slots \ {p, Pool} : Where'[r] = Where[r]
  BY <1>1, <1>2, <1>3, Rest, Zenon
<1>7. Apart(Where') /\ All(Where') = All(Where)
  <2> HIDE DEF p
  <2> QED BY <1>4, <1>5, <1>6, Moved, Zenon
<1>8. Partition'
  BY <1>1, <1>7, Zenon DEF Places, Partition, Mapped, Apart, All
<1>9. Places' /\ CacheType'
  BY <1>1, <1>8, TrimStays, Zenon
<1>10. LocType'
  BY DEF TrimPush, TrimRelease, Types, LocType
<1> QED BY <1>9, <1>10, Zenon
-----------------------------------------------------------------------------
(* The whole. *)

(* Where every step leaves the blocks. *)
LEMMA PlacesKept ==
    ASSUME Types, Places, [Next]_vars
    PROVE  Places' /\ CacheType' /\ LocType'
<1>1. CASE UNCHANGED vars
  <2>1. /\ UNCHANGED <<regions, pool, live, bin, pending, pc, loc>>
    BY <1>1, Zenon DEF vars
  <2>2. ASSUME NEW a \in Actors PROVE Hands(a)'
    BY <2>1, Zenon DEF Places, Hands
  <2>3. ASSUME NEW u \in Threads, pc'[u] \in {"global", "fill"} PROVE bin[u].list = <<>>
    BY <2>1, <2>3, Zenon DEF Places, Cache
  <2>4. LocType'
    BY <2>1, Zenon DEF Types, LocType
  <2> QED BY <2>1, <2>2, <2>3, <2>4, QuietKept, Zenon
<1>2. ASSUME NEW t \in Threads, Hit(t) \/ (Take(t) /\ bin[t].list # <<>>)
      PROVE  Places' /\ CacheType' /\ LocType'
  <2>1. /\ pc[t] \in {"pop", "take"} /\ bin[t].list # <<>>
        /\ bin' = [bin EXCEPT ![t] = pop_from_thread(@)] /\ Returns(t, Head(bin[t].list))
        /\ UNCHANGED <<regions, pool, pending>>
    BY <1>2, Zenon DEF Hit, Take
  <2> QED BY <2>1, PopKept, Zenon
<1>3. ASSUME NEW t \in Threads,
             \/ Malloc(t) \/ Spawn(t) \/ Hit(t) \/ Miss(t) \/ Refill(t) \/ RefillMiss(t)
             \/ FillPending(t) \/ FillRegion(t) \/ FillFail(t) \/ Take(t)
             \/ Free(t) \/ Exit(t)
      PROVE  Places' /\ CacheType' /\ LocType'
  BY <1>2, <1>3, WaitsKept, EndsKept, RefillKept, FillPendingKept, FillRegionKept, FreeKept, Zenon
     DEF Waits
<1>4. ASSUME NEW a \in Actors,
             TrimStart(a) \/ TrimPop(a) \/ TrimPush(a) \/ TrimRelease(a) \/ TrimEnd(a)
      PROVE  Places' /\ CacheType' /\ LocType'
  BY <1>4, TurnsKept, TrimPopKept, TrimBackKept, Zenon
<1> QED BY <1>1, <1>3, <1>4, Zenon DEF Next

(* The hint and the counters. *)
LEMMA TypesKept ==
    ASSUME Types, Places, [Next]_vars, CacheType', LocType'
    PROVE  Types'
<1>0. ASSUME NEW up PROVE bump_batch_hint(up) => hint' \in BATCH_MIN .. BATCH_MAX
  BY ThreadCacheAssumption DEF bump_batch_hint, Types
<1>1. hint' \in BATCH_MIN .. BATCH_MAX
  <2>1. ASSUME NEW t \in Threads, Refill(t) \/ RefillMiss(t) \/ Take(t)
        PROVE  hint' \in BATCH_MIN .. BATCH_MAX
    BY <1>0, <2>1, Zenon DEF Refill, RefillMiss, Take
  <2>2. (\E t \in Threads : Refill(t) \/ RefillMiss(t) \/ Take(t)) \/ hint' = hint
    BY Zenon DEF Next, vars, Malloc, Spawn, Hit, Miss, FillPending, FillRegion, FillFail, Free,
           Exit, TrimStart, TrimPop, TrimPush, TrimRelease, TrimEnd
  <2> QED BY <2>1, <2>2, Zenon DEF Types
<1>2. regions' \in 0 .. MaxRegions
  <2>1. (regions < MaxRegions /\ regions' = regions + 1) \/ regions' = regions
    BY Zenon DEF Next, vars, Malloc, Spawn, Hit, Miss, Refill, RefillMiss, FillPending, FillRegion,
           FillFail, Take, Free, Exit, TrimStart, TrimPop, TrimPush, TrimRelease, TrimEnd
  <2> QED BY <2>1, ThreadCacheAssumption, SMTT(20) DEF Types
<1>3. TOTAL_MALLOC_FREE' \in 0 .. BootCalls
  <2>1. \/ TOTAL_MALLOC_FREE < BootCalls /\ TOTAL_MALLOC_FREE' = TOTAL_MALLOC_FREE + 1
        \/ TOTAL_MALLOC_FREE' = TOTAL_MALLOC_FREE
    <3>1. ASSUME NEW t \in Threads, Free(t)
          PROVE  \/ TOTAL_MALLOC_FREE < BootCalls /\ TOTAL_MALLOC_FREE' = TOTAL_MALLOC_FREE + 1
                 \/ TOTAL_MALLOC_FREE' = TOTAL_MALLOC_FREE
      BY <3>1, ThreadCacheAssumption, SMTT(20) DEF Free, BootCount, Types
    <3>2. \/ \E t \in Threads : Free(t)
          \/ TOTAL_MALLOC_FREE < BootCalls /\ TOTAL_MALLOC_FREE' = TOTAL_MALLOC_FREE + 1
          \/ TOTAL_MALLOC_FREE' = TOTAL_MALLOC_FREE
      BY Zenon DEF Next, vars, boot, Malloc, Spawn, Hit, Miss, Refill, RefillMiss, FillPending,
             FillRegion, FillFail, Take, Exit, TrimStart, TrimPop, TrimPush, TrimRelease, TrimEnd
    <3> QED BY <3>1, <3>2, Zenon
  <2> QED BY <2>1, ThreadCacheAssumption DEF Types
<1>4. /\ THREAD_SPAWNED' \in BOOLEAN /\ HOT_READY' \in BOOLEAN /\ trimmers' \in Nat
  <2>1. /\ THREAD_SPAWNED' = TRUE \/ THREAD_SPAWNED' = THREAD_SPAWNED
        /\ HOT_READY' = TRUE \/ HOT_READY' = HOT_READY
        /\ trimmers' = trimmers \/ trimmers' = trimmers + 1
    BY Zenon DEF Next, vars, boot, Malloc, Spawn, Hit, Miss, Refill, RefillMiss, FillPending,
           FillRegion, FillFail, Take, Free, Exit, TrimStart, TrimPop, TrimPush, TrimRelease,
           TrimEnd
  <2>2. THREAD_SPAWNED' \in BOOLEAN /\ HOT_READY' \in BOOLEAN
    BY <2>1, Zenon DEF Types
  <2>3. trimmers' \in Nat
    BY <2>1 DEF Types
  <2> QED BY <2>2, <2>3, Zenon
<1>5. pending' \in [Threads -> [region : Nat, next : Nat]]
  <2>1. (\E t \in Threads : FillPending(t) \/ FillRegion(t)) \/ pending' = pending
    BY Zenon DEF Next, vars, Malloc, Spawn, Hit, Miss, Refill, RefillMiss, FillFail, Take, Free,
           Exit, TrimStart, TrimPop, TrimPush, TrimRelease, TrimEnd
  <2> QED BY <2>1, FillPendingKept, FillRegionKept, SMTT(20) DEF Types
<1>6. pc' \in [Actors -> PCs]
  <2>1. \A t \in Threads : t \in Actors
    BY Zenon DEF Actors
  <2>2. ASSUME NEW t \in Threads, Malloc(t)
        PROVE  \E l \in {"pop", "spawn"} : pc' = [pc EXCEPT ![t] = l]
    BY <2>2, SMTT(20) DEF Malloc, Goto
  <2>3. \/ pc' = pc \/ \E t \in Threads : Malloc(t)
        \/ \E a \in Actors : \E l \in {"idle", "pop", "global", "fill", "take", "dead", "trim"} :
              pc' = [pc EXCEPT ![a] = l]
    BY <2>1, Zenon DEF Next, vars, Spawn, Hit, Miss, Refill, RefillMiss, FillPending,
           FillRegion, FillFail, Take, Free, Exit, TrimStart, TrimPop, TrimPush, TrimRelease,
           TrimEnd, Goto, Returns
  <2>4. ASSUME NEW a \in Actors, NEW l \in PCs, pc' = [pc EXCEPT ![a] = l]
        PROVE  pc' \in [Actors -> PCs]
    BY <2>4, Zenon DEF Types
  <2>5. ASSUME NEW t \in Threads, Malloc(t)
        PROVE  pc' \in [Actors -> PCs]
    <3>1. PICK l \in {"pop", "spawn"} : pc' = [pc EXCEPT ![t] = l]
      BY <2>2, <2>5, Zenon
    <3> QED BY <3>1, <2>1, <2>4, Zenon DEF PCs
  <2>6. ASSUME NEW a \in Actors,
               NEW l \in {"idle", "pop", "global", "fill", "take", "dead", "trim"},
               pc' = [pc EXCEPT ![a] = l]
        PROVE  pc' \in [Actors -> PCs]
    BY <2>4, <2>6, Zenon DEF PCs
  <2> QED BY <2>3, <2>5, <2>6, Zenon DEF Types
<1> QED BY <1>1, <1>2, <1>3, <1>4, <1>5, <1>6, Zenon DEF Types

(* Who starts the trim thread has set THREAD_SPAWNED first. *)
LEMMA SpawnsKept ==
    ASSUME Types, Spawns, [Next]_vars
    PROVE  Spawns'
<1>0. \A t \in Threads : t \in Actors
  BY Zenon DEF Actors
<1>1. ASSUME NEW t \in Threads, Malloc(t)
      PROVE  Spawns'
  <2>1. /\ trimmers' = trimmers /\ \A u \in Threads \ {t} : pc'[u] = pc[u]
        /\ THREAD_SPAWNED => THREAD_SPAWNED'
        /\ pc'[t] = "spawn" => ~THREAD_SPAWNED /\ THREAD_SPAWNED'
    BY <1>0, <1>1, Zenon DEF Malloc, Goto, Types
  <2> QED BY <2>1 DEF Spawns, Types
<1>2. ASSUME NEW t \in Threads, Spawn(t)
      PROVE  Spawns'
  <2>1. /\ trimmers' = trimmers + 1 /\ \A u \in Threads \ {t} : pc'[u] = pc[u]
        /\ pc'[t] = "pop" /\ THREAD_SPAWNED' /\ pc[t] = "spawn"
    BY <1>0, <1>2, Zenon DEF Spawn, Goto, Types
  <2>2. trimmers' = 1 /\ \A u \in Threads : pc'[u] # "spawn"
    BY <2>1 DEF Spawns
  <2> QED BY <2>1, <2>2, Zenon DEF Spawns
<1>3. CASE /\ UNCHANGED <<THREAD_SPAWNED, trimmers>>
           /\ \A u \in Threads : pc'[u] = "spawn" => pc[u] = "spawn"
  BY <1>3, Zenon DEF Spawns
<1>4. \/ \E t \in Threads : Malloc(t) \/ Spawn(t)
      \/ /\ UNCHANGED <<THREAD_SPAWNED, trimmers>>
         /\ \/ pc' = pc
            \/ \E a \in Actors : \E l \in {"idle", "global", "fill", "take", "dead", "trim"} :
                  pc' = [pc EXCEPT ![a] = l]
  BY <1>0, ZenonT(30) DEF Next, vars, boot, Hit, Miss, Refill, RefillMiss, FillPending, FillRegion,
         FillFail, Take, Free, Exit, TrimStart, TrimPop, TrimPush, TrimRelease, TrimEnd,
         Goto, Returns
<1>5. ASSUME NEW a \in Actors, NEW l \in {"idle", "global", "fill", "take", "dead", "trim"},
             pc' = [pc EXCEPT ![a] = l]
      PROVE  \A u \in Threads : pc'[u] = "spawn" => pc[u] = "spawn"
  BY <1>0, <1>5, Zenon DEF Types
<1> QED BY <1>1, <1>2, <1>3, <1>4, <1>5, Zenon

(* No region is mapped at first, and every place is empty. *)
LEMMA InitInvariant == Init => IInv
<1> SUFFICES ASSUME Init PROVE IInv
  BY Zenon
<1>1. Types
  <2>1. CacheType
    BY DEF Init, CacheType
  <2>2. LocType
    BY Zenon DEF Init, LocType, NoLoc
  <2>3. pending \in [Threads -> [region : Nat, next : Nat]]
    BY ThreadCacheAssumption, Zenon DEF Init, NoRegion
  <2>4. THREAD_SPAWNED \in BOOLEAN /\ HOT_READY \in BOOLEAN
    BY Zenon DEF Init
  <2>6. pc \in [Actors -> PCs]
    BY Zenon DEF Init, PCs
  <2>5. /\ regions \in 0 .. MaxRegions /\ hint \in BATCH_MIN .. BATCH_MAX
        /\ TOTAL_MALLOC_FREE \in 0 .. BootCalls /\ trimmers \in Nat
    BY ThreadCacheAssumption DEF Init
  <2> QED BY <2>1, <2>2, <2>3, <2>4, <2>5, <2>6, Zenon DEF Types
<1>2. Spawns
  BY DEF Init, Spawns, Actors
<1>3. \A t \in Threads : Cached(t) = {} /\ Uncarved(t) = {} /\ Cache(t) /\ Region(t)
  BY CapFacts DEF Init, Cached, Uncarved, Cache, Region, NoRegion, Range, IsInjective, Actors
<1>4. \A a \in Actors : loc[a].young = {} /\ loc[a].old = {} /\ Hands(a)
  BY Zenon DEF Init, Hands, NoLoc
<1>5. live = {} /\ pool = {} /\ regions = 0
  BY Zenon DEF Init
<1>6. \A p \in Slots : Where[p] = {}
  BY <1>3, <1>4, <1>5, Slot, WhereIs, Zenon DEF Placed
<1>7. Mapped = {}
  BY <1>5, ThreadCacheAssumption DEF Mapped
<1>8. Partition
  BY <1>6, <1>7, Zenon DEF Partition, Apart, All
<1> QED BY <1>1, <1>2, <1>3, <1>4, <1>8, Zenon DEF IInv, Places

(* The invariant holds throughout. *)
LEMMA Invariant == Spec => []IInv
<1>1. Init => IInv
  BY InitInvariant, Zenon
<1>2. IInv /\ [Next]_vars => IInv'
  BY PlacesKept, TypesKept, SpawnsKept, Zenon DEF IInv
<1> QED BY <1>1, <1>2, PTL DEF Spec

-----------------------------------------------------------------------------
(* Theorems. *)

(* malloc, free, refills, exits and trimming keep the hint of the batches  *)
(* within its limits, start at most one trim thread, and handle no block   *)
(* that is not of a region.                                                *)
THEOREM CachesAreTyped == Spec => []TypeOK
<1>1. IInv => TypeOK
  <2> SUFFICES ASSUME IInv PROVE TypeOK
    BY Zenon
  <2>1. Types /\ Spawns /\ Places /\ regions \in Nat /\ MaxRegions \in Nat
    BY ThreadCacheAssumption DEF IInv, Types
  <2>2. Mapped \subseteq Blocks
    <3>1. regions * ITERATIONS <= MaxRegions * ITERATIONS
      BY <2>1, TimesLeq DEF Types
    <3>2. regions * ITERATIONS \in Nat /\ MaxRegions * ITERATIONS \in Nat
      BY <2>1, Times, Zenon
    <3> QED BY <3>1, <3>2 DEF Mapped, Blocks
  <2>3. /\ live \subseteq Blocks /\ pool \subseteq Blocks
        /\ \A t \in Threads : Range(bin[t].list) \subseteq Blocks
        /\ \A a \in Actors : loc[a].young \cup loc[a].old \subseteq Blocks
    BY <2>1, <2>2, InMapped, Zenon DEF Places, Cached
  <2>4. \A t \in Threads : bin[t].usage \in Nat /\ pending[t].region \in 0 .. regions
    <3> SUFFICES ASSUME NEW t \in Threads
                 PROVE  bin[t].usage \in Nat /\ pending[t].region \in 0 .. regions
      BY Zenon
    <3>1. bin[t].usage \in Nat
      BY <2>1 DEF Places, Cache, Types, CacheType
    <3>2. pending[t].region \in 0 .. regions
      BY <2>1 DEF Places, Region, Begun, NoRegion
    <3> QED BY <3>1, <3>2, Zenon
  <2>5. trimmers \in 0 .. 1
    BY <2>1 DEF Spawns, Types
  <2> QED BY <2>1, <2>3, <2>4, <2>5, Zenon DEF TypeOK, Types
<1> QED BY <1>1, Invariant, PTL

(* However the threads refill, free each other's blocks, exit and trim, no *)
(* block is in two lists, or in a list and with the program.               *)
THEOREM BlocksHaveOnePlace == Spec => []NoBlockTwice
<1>1. IInv => NoBlockTwice
  <2> SUFFICES ASSUME IInv PROVE NoBlockTwice
    BY Zenon
  <2>1. Places /\ Apart(Where) /\ Placed
    BY WhereIs, Zenon DEF IInv, Places, Partition
  <2>2. ASSUME NEW t \in Threads
        PROVE  /\ IsInjective(bin[t].list) /\ Cached(t) \cap Uncarved(t) = {}
               /\ (Cached(t) \cup Uncarved(t)) \cap (pool \cup live) = {}
    <3> DEFINE k == <<"cache", t>>
               r == <<"region", t>>
    <3>1. /\ {k, r, Live, Pool} \subseteq Slots /\ k # r
          /\ k # Live /\ k # Pool /\ r # Live /\ r # Pool
      BY Slot, Distinct, Zenon
    <3>2. Where[k] = Cached(t) /\ Where[r] = Uncarved(t) /\ Where[Live] = live /\ Where[Pool] = pool
      BY <2>1, Zenon DEF Placed
    <3>3. IsInjective(bin[t].list)
      BY <2>1, Zenon DEF Places, Cache
    <3> HIDE DEF k, r
    <3> QED BY <3>1, <3>2, <3>3, <2>1 DEF Apart
  <2>3. ASSUME NEW t \in Threads, NEW u \in Threads, t # u
        PROVE  (Cached(t) \cup Uncarved(t)) \cap (Cached(u) \cup Uncarved(u)) = {}
    <3> DEFINE k == <<"cache", t>>
               r == <<"region", t>>
               l == <<"cache", u>>
               s == <<"region", u>>
    <3>1. {k, r, l, s} \subseteq Slots /\ k # l /\ k # s /\ r # l /\ r # s
      BY <2>3, Slot, Zenon
    <3>2. /\ Where[k] = Cached(t) /\ Where[r] = Uncarved(t)
          /\ Where[l] = Cached(u) /\ Where[s] = Uncarved(u)
      BY <2>1, Zenon DEF Placed
    <3> HIDE DEF k, r, l, s
    <3> QED BY <3>1, <3>2, <2>1 DEF Apart
  <2>4. ASSUME NEW t \in Threads, NEW a \in Actors
        PROVE  Borrowed(a) \cap (Cached(t) \cup Uncarved(t)) = {}
    <3> DEFINE k == <<"cache", t>>
               r == <<"region", t>>
               l == <<"young", a>>
               s == <<"old", a>>
    <3>1. {k, r, l, s} \subseteq Slots /\ k # l /\ k # s /\ r # l /\ r # s
      BY Slot, Zenon
    <3>2. /\ Where[k] = Cached(t) /\ Where[r] = Uncarved(t)
          /\ Where[l] = loc[a].young /\ Where[s] = loc[a].old
      BY <2>1, Zenon DEF Placed
    <3> HIDE DEF k, r, l, s
    <3> QED BY <3>1, <3>2, <2>1 DEF Apart, Borrowed
  <2>5. pool \cap live = {}
    BY <2>1, Slot, Zenon DEF Apart, Placed
  <2>6. ASSUME NEW a \in Actors
        PROVE  /\ Borrowed(a) \cap (pool \cup live) = {}
               /\ loc[a].young \cap loc[a].old = {}
    <3> DEFINE l == <<"young", a>>
               s == <<"old", a>>
    <3>1. /\ {l, s, Live, Pool} \subseteq Slots /\ l # s
          /\ l # Live /\ l # Pool /\ s # Live /\ s # Pool
      BY Slot, Distinct, Zenon
    <3>2. /\ Where[l] = loc[a].young /\ Where[s] = loc[a].old
          /\ Where[Live] = live /\ Where[Pool] = pool
      BY <2>1, Zenon DEF Placed
    <3> HIDE DEF l, s
    <3> QED BY <3>1, <3>2, <2>1, Zenon DEF Apart, Borrowed
  <2>7. ASSUME NEW a \in Actors, NEW c \in Actors, a # c
        PROVE  Borrowed(a) \cap Borrowed(c) = {}
    <3> DEFINE k == <<"young", a>>
               r == <<"old", a>>
               l == <<"young", c>>
               s == <<"old", c>>
    <3>1. {k, r, l, s} \subseteq Slots /\ k # l /\ k # s /\ r # l /\ r # s
      BY <2>7, Slot, Zenon
    <3>2. /\ Where[k] = loc[a].young /\ Where[r] = loc[a].old
          /\ Where[l] = loc[c].young /\ Where[s] = loc[c].old
      BY <2>1, Zenon DEF Placed
    <3> HIDE DEF k, r, l, s
    <3> QED BY <3>1, <3>2, <2>1, Zenon DEF Apart, Borrowed
  <2> QED BY <2>2, <2>3, <2>4, <2>5, <2>6, <2>7, Zenon DEF NoBlockTwice
<1> QED BY <1>1, Invariant, PTL

(* No block of a region is forgotten by a refill, a free, an exit or a     *)
(* trimming: each is with the program, in a list or still to be cut off.   *)
THEOREM BlocksAreKept == Spec => []NoBlockLost
<1>1. IInv => NoBlockLost
  <2> SUFFICES ASSUME IInv PROVE NoBlockLost
    BY Zenon
  <2>1. ASSUME NEW b \in Mapped
        PROVE  \/ b \in live \/ b \in pool
               \/ \E t \in Threads : b \in Cached(t) \cup Uncarved(t)
               \/ \E a \in Actors : b \in Borrowed(a)
    <3>1. PICK p \in Slots : b \in Where[p]
      BY Zenon DEF IInv, Places, Partition, All
    <3> QED BY <3>1, Slot, WhereIs, Zenon DEF Placed, Borrowed
  <2> DEFINE C == UNION {Cached(t) \cup Uncarved(t) : t \in Threads}
             H == UNION {Borrowed(a) : a \in Actors}
  <2>2. \A b : /\ (\E t \in Threads : b \in Cached(t) \cup Uncarved(t)) => b \in C
               /\ (\E a \in Actors : b \in Borrowed(a)) => b \in H
    BY Zenon
  <2> HIDE DEF C, H
  <2>3. Mapped \subseteq live \cup pool \cup C \cup H
    BY <2>1, <2>2, Zenon
  <2> QED BY <2>3, Zenon DEF NoBlockLost, Mapped, C, H
<1> QED BY <1>1, Invariant, PTL

(* The usage counter of a cache is the length of its list after every      *)
(* refill, malloc and free, and no cache grows beyond its cap by more than *)
(* one refill.                                                             *)
THEOREM CachesStaySmall == Spec => []UsageBounded
<1>1. IInv => UsageBounded
  BY Zenon DEF IInv, Places, Cache, UsageBounded, Cap
<1> QED BY <1>1, Invariant, PTL
=============================================================================
