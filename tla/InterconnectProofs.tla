------------------------- MODULE InterconnectProofs -------------------------
(***************************************************************************)
(* Proofs about the InterConnect cache, for any number of threads, blocks  *)
(* and shards and any width of tag and counter: as long as no tag comes    *)
(* round under a pop that sleeps (TimelySpec), the shards keep their lists *)
(* and counters, and are a pool.                                           *)
(***************************************************************************)
EXTENDS Interconnect, FiniteSetTheorems, TLAPS

-----------------------------------------------------------------------------
(* The invariant. *)

(* Links nx spell out the list k from pointer p on. *)
Spells(nx, p, k) ==
    IF k = <<>> THEN p = Null
    ELSE /\ p = k[1]
         /\ \A i \in 1 .. Len(k) - 1 : nx[k[i]] = k[i + 1]
         /\ nx[k[Len(k)]] = Null

Lists == \A s \in Shards : Spells(next, head[s].ptr, stack[s])

(* No block is in two places. *)
Apart ==
    /\ \A t, u \in Threads : t # u => own[t] \cap own[u] = {}
    /\ \A s \in Shards : IsInjective(stack[s])
    /\ \A s, r \in Shards : s # r => Range(stack[s]) \cap Range(stack[r]) = {}
    /\ \A s \in Shards, t \in Threads : Range(stack[s]) \cap own[t] = {}

(* A push has its chain to itself, linked, until it is in the list. *)
Pushes(t) ==
    pc[t] \in {"pushload", "link", "pushcas"} =>
        /\ loc[t].chain # <<>> /\ IsInjective(loc[t].chain)
        /\ Range(loc[t].chain) \subseteq own[t] /\ Linked(loc[t].chain)
        /\ pc[t] = "pushcas" => next[Last(loc[t].chain)] = loc[t].cur.ptr

IsPre(c, k) == Len(c) <= Len(k) /\ \A i \in 1 .. Len(c) : c[i] = k[i]

(* What a pop has walked down is the front of the list, provided the head  *)
(* is still the word it read.                                              *)
Pops(t) ==
    Popping(t) =>
        /\ loc[t].chain # <<>> /\ Len(loc[t].chain) <= loc[t].batch
        /\ head[loc[t].shard] = loc[t].cur =>
              /\ IsPre(loc[t].chain, stack[loc[t].shard])
              /\ pc[t] = "popcas" => loc[t].new = next[Last(loc[t].chain)]

(* What a pop has taken is its thread's. *)
Took(t) ==
    pc[t] \in {"sub", "seal"} => loc[t].chain # <<>> /\ Range(loc[t].chain) \subseteq own[t]

(* The shard at hand. *)
InShard(t) ==
    /\ pc[t] \notin {"idle", "pushload", "check"} => loc[t].shard \in Shards
    /\ Len(loc[t].chain) <= MaxBatch
    /\ pc[t] \in {"check", "popload", "walk", "new", "popcas"} =>
          /\ loc[t].victim \in Shards /\ loc[t].batch >= 1
          /\ IF loc[t].victim = 0 THEN loc[t].shard = loc[t].cpu
             ELSE loc[t].cpu \in Shards
                  /\ loc[t].shard = (loc[t].cpu + loc[t].victim) % ncpu

Local(t) == Pushes(t) /\ Pops(t) /\ Took(t) /\ InShard(t)

Counts ==
    /\ UsageAccounted
    /\ \A s \in Shards : IsFiniteSet(PendingAt(s, "add")) /\ IsFiniteSet(PendingAt(s, "sub"))

(* A pop that began alone is alone, and the shards behind it are empty. *)
Calms ==
    \A t \in calm :
        /\ calm = {t} /\ Alone(t)
        /\ pc[t] \in {"check", "popload", "walk", "new", "popcas"} =>
              \A j \in 0 .. loc[t].victim - 1 : stack[(loc[t].cpu + j) % ncpu] = <<>>

LInv == TypeOK /\ Apart /\ Lists /\ \A t \in Threads : Local(t)

IInv == LInv /\ Counts /\ Calms

-----------------------------------------------------------------------------
(* Lists. *)

Pointers == Blocks \cup {Null}

(* A chain whose last link points to a list makes a longer list. *)
LEMMA PushList ==
    ASSUME NEW nx, NEW c \in Seq(Blocks), NEW k \in Seq(Blocks), NEW p,
           c # <<>>, Spells(nx, p, k), nx[c[Len(c)]] = p,
           \A i \in 1 .. Len(c) - 1 : nx[c[i]] = c[i + 1]
    PROVE  Spells(nx, c[1], c \o k)
<1> DEFINE d == c \o k
<1>1. /\ d \in Seq(Blocks) /\ Len(d) = Len(c) + Len(k) /\ Len(c) \in Nat \ {0} /\ Len(k) \in Nat
      /\ \A i \in 1 .. Len(d) : d[i] = IF i <= Len(c) THEN c[i] ELSE k[i - Len(c)]
  OBVIOUS
<1>2. CASE k = <<>>
  <2>1. d = c /\ p = Null
    BY <1>2 DEF Spells
  <2> QED BY <2>1, <1>1, Zenon DEF Spells
<1>3. CASE k # <<>>
  <2>1. p = k[1] /\ nx[k[Len(k)]] = Null /\ \A i \in 1 .. Len(k) - 1 : nx[k[i]] = k[i + 1]
    BY <1>3, Zenon DEF Spells
  <2>2. Len(k) >= 1 /\ d # <<>> /\ d[1] = c[1]
    BY <1>1, <1>3
  <2>3. nx[d[Len(d)]] = Null
    BY <1>1, <2>1, <2>2
  <2>4. ASSUME NEW i \in 1 .. Len(d) - 1
        PROVE  nx[d[i]] = d[i + 1]
    <3>1. CASE i < Len(c)
      BY <3>1, <1>1
    <3>2. CASE i = Len(c)
      BY <3>2, <1>1, <2>1, <2>2
    <3>3. CASE i > Len(c)
      <4>1. i - Len(c) \in 1 .. Len(k) - 1 /\ (i + 1) - Len(c) = (i - Len(c)) + 1
        BY <3>3, <1>1
      <4>2. d[i] = k[i - Len(c)] /\ d[i + 1] = k[(i - Len(c)) + 1]
        BY <3>3, <4>1, <1>1
      <4> QED BY <4>1, <4>2, <2>1, Zenon
    <3> QED BY <3>1, <3>2, <3>3, <1>1
  <2> QED BY <2>2, <2>3, <2>4, Zenon DEF Spells
<1> QED BY <1>2, <1>3, Zenon

(* A list without its front is what the last link of the front points to. *)
LEMMA PopList ==
    ASSUME NEW nx, NEW k \in Seq(Blocks), NEW p, NEW n \in 1 .. Len(k), Spells(nx, p, k)
    PROVE  Spells(nx, nx[k[n]], SubSeq(k, n + 1, Len(k)))
<1> DEFINE d == SubSeq(k, n + 1, Len(k))
<1>1. /\ d \in Seq(Blocks) /\ Len(d) = Len(k) - n /\ Len(k) \in Nat
      /\ \A i \in 1 .. Len(d) : d[i] = k[n + i]
  OBVIOUS
<1>2. k # <<>> /\ nx[k[Len(k)]] = Null /\ \A i \in 1 .. Len(k) - 1 : nx[k[i]] = k[i + 1]
  BY DEF Spells
<1>3. CASE n = Len(k)
  <2>1. d = <<>>
    BY <1>1, <1>3
  <2> QED BY <1>2, <1>3, <2>1, Zenon DEF Spells
<1>4. CASE n < Len(k)
  <2>1. d # <<>> /\ d[1] = k[n + 1] /\ d[Len(d)] = k[Len(k)]
    <3>1. Len(d) \in 1 .. Len(d) /\ 1 \in 1 .. Len(d) /\ n + Len(d) = Len(k)
      BY <1>1, <1>4
    <3>2. d # <<>>
      <4>1. Len(<<>>) = 0 /\ Len(d) # 0
        BY <3>1
      <4> HIDE DEF d
      <4> QED BY <4>1, Zenon
    <3>3. d[1] = k[n + 1] /\ d[Len(d)] = k[n + Len(d)]
      BY <3>1, <1>1, Zenon
    <3> QED BY <3>1, <3>2, <3>3, Zenon
  <2>2. nx[k[n]] = k[n + 1]
    BY <1>2, <1>4
  <2>3. ASSUME NEW i \in 1 .. Len(d) - 1
        PROVE  nx[d[i]] = d[i + 1]
    <3>1. n + i \in 1 .. Len(k) - 1 /\ n + (i + 1) = (n + i) + 1
      BY <1>1
    <3>2. d[i] = k[n + i] /\ d[i + 1] = k[(n + i) + 1]
      BY <3>1, <1>1
    <3> QED BY <3>1, <3>2, <1>2, Zenon
  <2> QED BY <2>1, <2>2, <2>3, <1>2, Zenon DEF Spells
<1> QED BY <1>3, <1>4

(* A link outside a list may be written. *)
LEMMA WriteList ==
    ASSUME NEW nx \in [Blocks -> Pointers], NEW k \in Seq(Blocks), NEW p, NEW b, NEW v,
           Spells(nx, p, k), b \notin Range(k)
    PROVE  Spells([nx EXCEPT ![b] = v], p, k)
<1>1. \A i \in 1 .. Len(k) : k[i] \in Blocks /\ k[i] # b /\ [nx EXCEPT ![b] = v][k[i]] = nx[k[i]]
  BY DEF Range
<1>2. CASE k = <<>>
  BY <1>2, Zenon DEF Spells
<1>3. CASE k # <<>>
  <2>1. Len(k) \in 1 .. Len(k) /\ \A i \in 1 .. Len(k) - 1 : i \in 1 .. Len(k)
    BY <1>3
  <2> QED BY <1>1, <1>3, <2>1, Zenon DEF Spells
<1> QED BY <1>2, <1>3, Zenon

(* Walking down a list from its front stays in front. *)
LEMMA WalkList ==
    ASSUME NEW nx, NEW c \in Seq(Blocks), NEW k \in Seq(Blocks), NEW p,
           Spells(nx, p, k), c # <<>>, IsPre(c, k), nx[c[Len(c)]] # Null
    PROVE  IsPre(Append(c, nx[c[Len(c)]]), k)
<1> DEFINE n == nx[c[Len(c)]]
<1>1. Len(c) \in 1 .. Len(k) /\ c[Len(c)] = k[Len(c)] /\ k # <<>>
  BY DEF IsPre
<1>2. Len(c) # Len(k)
  BY <1>1, Zenon DEF Spells
<1>3. n = k[Len(c) + 1]
  BY <1>1, <1>2 DEF Spells
<1>4. n \in Blocks
  BY <1>1, <1>2, <1>3
<1>5. /\ Len(Append(c, n)) = Len(c) + 1
      /\ \A i \in 1 .. Len(c) + 1 : Append(c, n)[i] = IF i = Len(c) + 1 THEN n ELSE c[i]
  BY <1>4
<1> HIDE DEF n
<1>6. IsPre(Append(c, n), k)
  BY <1>1, <1>2, <1>3, <1>5 DEF IsPre
<1> QED BY <1>6, Zenon DEF n

-----------------------------------------------------------------------------
(* Steps of one thread. *)

Locs == [cpu : Nat, victim : Nat, shard : Nat, batch : 0 .. MaxBatch, cur : Words,
         chain : Seq(Blocks), new : Pointers]

(* A step of t leaves the other threads where they are. *)
Others(t) == \A u \in Threads \ {t} : pc'[u] = pc[u] /\ loc'[u] = loc[u]

(* A step takes thread t to program point p with locals l. *)
Moves(t, p, l) == pc' = [pc EXCEPT ![t] = p] /\ loc' = [loc EXCEPT ![t] = l]

(* So a step of t moves t alone, and keeps the types of pc and loc. *)
LEMMA Moved ==
    ASSUME TypeOK, NEW t \in Threads, NEW p \in PCs, NEW l \in Locs, Moves(t, p, l)
    PROVE  /\ pc'[t] = p /\ loc'[t] = l /\ Others(t)
           /\ pc' \in [Threads -> PCs] /\ loc' \in [Threads -> Locs]
BY Zenon DEF TypeOK, Moves, Others, Locs, Pointers

(* A step that writes only pc and loc keeps the types. *)
LEMMA MovedQuietly ==
    ASSUME TypeOK, NEW t \in Threads, NEW p \in PCs, NEW l \in Locs, Moves(t, p, l),
           UNCHANGED <<head, usage, next, stack, own, calm>>
    PROVE  pc'[t] = p /\ loc'[t] = l /\ Others(t) /\ TypeOK'
<1>1. /\ pc'[t] = p /\ loc'[t] = l /\ Others(t)
      /\ pc' \in [Threads -> PCs] /\ loc' \in [Threads -> Locs]
  BY Moved, Zenon
<1> QED BY <1>1, SMTT(40) DEF TypeOK, Locs, Pointers

(* A step that writes nothing shared but the counter keeps the lists. *)
LEMMA QuietKept ==
    ASSUME LInv, NEW t \in Threads, UNCHANGED <<head, next, stack, own>>, Others(t),
           TypeOK', Local(t)'
    PROVE  LInv'
<1>1. Apart' /\ Lists'
  BY Zenon DEF LInv, Apart, Lists
<1>2. ASSUME NEW u \in Threads \ {t}
      PROVE  Local(u)'
  <2>1. Local(u) /\ pc'[u] = pc[u] /\ loc'[u] = loc[u]
    BY Zenon DEF LInv, Others
  <2> QED BY <2>1, Zenon DEF Local, Pushes, Pops, Took, InShard, Popping, Linked
<1> QED BY <1>1, <1>2, Zenon DEF LInv

(* Nor does a step that writes a link of a block its thread has to itself. *)
LEMMA WriteKept ==
    ASSUME LInv, NEW t \in Threads, NEW b \in own[t], NEW v,
           next' = [next EXCEPT ![b] = v],
           UNCHANGED <<head, stack, own>>, Others(t), TypeOK', Local(t)'
    PROVE  LInv'
<1>1. next \in [Blocks -> Pointers] /\ stack \in [Shards -> Seq(Blocks)] /\ b \in Blocks
      /\ loc \in [Threads -> Locs]
  BY Zenon DEF LInv, TypeOK, Pointers, Locs
<1>2. Apart'
  BY Zenon DEF LInv, Apart
<1>3. ASSUME NEW s \in Shards
      PROVE  Spells(next', head'[s].ptr, stack'[s])
  <2>1. b \notin Range(stack[s]) /\ Spells(next, head[s].ptr, stack[s]) /\ stack[s] \in Seq(Blocks)
    BY <1>1, Zenon DEF LInv, Apart, Lists
  <2> QED BY <2>1, <1>1, WriteList, Zenon
<1>4. \A d \in Blocks \ {b} : next'[d] = next[d]
  BY <1>1, Zenon
<1>5. ASSUME NEW u \in Threads \ {t}
      PROVE  Local(u)'
  <2>1. Local(u) /\ pc'[u] = pc[u] /\ loc'[u] = loc[u] /\ loc[u] \in Locs
    BY <1>1, Zenon DEF LInv, Others
  <2> DEFINE c == loc[u].chain
  <2>2. c \in Seq(Blocks)
    BY <2>1, Zenon DEF Locs
  <2>3. Range(c) \subseteq own[u] => \A i \in 1 .. Len(c) : next'[c[i]] = next[c[i]]
    <3> SUFFICES ASSUME Range(c) \subseteq own[u], NEW i \in 1 .. Len(c)
                 PROVE  c[i] \in Blocks \ {b}
      BY <1>4, Zenon
    <3>1. c[i] \in Range(c) /\ c[i] \in Blocks
      BY <2>2 DEF Range
    <3>2. b \notin own[u]
      BY Zenon DEF LInv, Apart
    <3> QED BY <3>1, <3>2, Zenon
  <2>4. Pushes(u)'
    <3> SUFFICES ASSUME pc[u] \in {"pushload", "link", "pushcas"}
                 PROVE  Pushes(u)'
      BY <2>1, Zenon DEF Pushes
    <3>1. c # <<>> /\ Range(c) \subseteq own[u] /\ Linked(c)
      BY <2>1, Zenon DEF Local, Pushes
    <3>2. Linked(c)' /\ next'[Last(c)] = next[Last(c)]
      BY <3>1, <2>1, <2>2, <2>3 DEF Linked, Last
    <3> QED BY <3>1, <3>2, <2>1, Zenon DEF Local, Pushes
  <2>5. Pops(u)'
    <3> SUFFICES ASSUME Popping(u), head[loc[u].shard] = loc[u].cur
                 PROVE  next'[Last(c)] = next[Last(c)]
      BY <2>1, Zenon DEF Local, Pops, Popping
    <3>1. c # <<>> /\ IsPre(c, stack[loc[u].shard]) /\ loc[u].shard \in Shards
      BY <2>1, Zenon DEF Local, Pops, InShard, Popping
    <3> DEFINE k == stack[loc[u].shard]
    <3>2. k \in Seq(Blocks) /\ b \notin Range(k)
      BY <3>1, <1>1, Zenon DEF LInv, Apart
    <3>3. Len(c) \in 1 .. Len(k) /\ c[Len(c)] = k[Len(c)] /\ k[Len(c)] \in Blocks
      BY <3>1, <3>2, <2>2 DEF IsPre
    <3>4. k[Len(c)] \in Range(k)
      BY <3>2, <3>3 DEF Range
    <3> QED BY <3>2, <3>3, <3>4, <1>4, Zenon DEF Last
  <2>6. Took(u)' /\ InShard(u)'
    BY <2>1, Zenon DEF Local, Took, InShard
  <2> QED BY <2>4, <2>5, <2>6, Zenon DEF Local
<1> QED BY <1>2, <1>3, <1>5, Zenon DEF LInv, Lists

(* Remainders. *)
LEMMA Mod ==
    ASSUME NEW n \in Int, NEW m \in Nat \ {0}
    PROVE  n % m \in 0 .. m - 1 /\ \E q \in Int : n % m = n - m * q
<1>1. n % m \in 0 .. m - 1
  OBVIOUS
<1>2. \E q \in Int : n % m = n - m * q
  OBVIOUS
<1> QED BY <1>1, <1>2, Zenon

(* There is a shard, and every CPU has a number. *)
LEMMA ShardCount == ncpu \in Nat \ {0} /\ get_cpu_id \subseteq Nat /\ 0 \in Shards
BY InterconnectAssumption DEF get_cpu_id, Shards

(* The locals of an idle thread are locals. *)
LEMMA NoLocType == NoLoc \in Locs /\ NoWord \in Words
BY InterconnectAssumption DEF NoLoc, Locs, NoWord, Words, Pointers

(* A thread that has returned is between calls. *)
LEMMA IdleLocal ==
    ASSUME NEW t, pc'[t] = "idle", loc'[t] = NoLoc
    PROVE  Local(t)'
<1>1. Len(NoLoc.chain) <= MaxBatch
  BY InterconnectAssumption DEF NoLoc
<1> QED BY <1>1, Zenon DEF Local, Pushes, Pops, Took, InShard, Popping

(* The owner's own links: thread lists and fresh chains. *)
LEMMA RelinkKept ==
    ASSUME LInv, NEW t \in Threads, NEW b \in own[t], NEW n \in own[t] \cup {Null},
           Relink(t, b, n), calm' \subseteq Threads
    PROVE  LInv'
<1>1. Local(t) /\ TypeOK
  BY Zenon DEF LInv
<1>2. Others(t) /\ TypeOK'
  BY <1>1, Zenon DEF Relink, Others, TypeOK
<1>3. Local(t)'
  BY <1>1, Zenon DEF Relink, Local, Pushes, Pops, Took, InShard, Popping
<1> QED BY <1>2, <1>3, WriteKept, Zenon DEF Relink

(* A push starts with a linked chain of its own blocks. *)
LEMMA PushCallKept ==
    ASSUME LInv, NEW t \in Threads, NEW c \in Chains(own[t]), NEW cpu \in get_cpu_id,
           PushCall(t, c, cpu), calm' \subseteq Threads
    PROVE  LInv'
<1> DEFINE l == [NoLoc EXCEPT !.shard = cpu, !.chain = c]
<1>1. Local(t) /\ TypeOK
  BY Zenon DEF LInv
<1>2. /\ c \in Seq(own[t]) /\ c \in Seq(Blocks) /\ c # <<>> /\ Len(c) <= MaxBatch
      /\ IsInjective(c) /\ Range(c) \subseteq own[t]
  <2>1. PICK n \in 1 .. MaxBatch : c \in [1 .. n -> own[t]] /\ IsInjective(c)
    BY Zenon DEF Chains
  <2>2. n \in Nat \ {0} /\ n <= MaxBatch /\ own[t] \subseteq Blocks
    BY <1>1, InterconnectAssumption DEF TypeOK
  <2>3. c \in Seq(own[t]) /\ Len(c) = n
    BY <2>1, <2>2
  <2>4. c \in Seq(Blocks)
    BY <2>1, <2>2, <2>3
  <2> QED BY <2>1, <2>2, <2>3, <2>4, Zenon DEF Range
<1>3. l \in Locs /\ l.shard = cpu /\ l.chain = c
  BY <1>2, NoLocType, ShardCount, Zenon DEF NoLoc, Locs
<1>4. Moves(t, "pushload", l) /\ Linked(c) /\ UNCHANGED <<head, usage, next, stack, own>>
  BY Zenon DEF PushCall, Goto, Moves
<1> HIDE DEF l
<1>5. pc'[t] = "pushload" /\ loc'[t] = l /\ Others(t) /\ TypeOK'
  <2>1. "pushload" \in PCs
    BY Zenon DEF PCs
  <2> QED BY <1>1, <1>3, <1>4, <2>1, Moved, Zenon DEF TypeOK, Locs, Pointers
<1>6. Local(t)'
  BY <1>2, <1>3, <1>4, <1>5, Zenon DEF Local, Pushes, Pops, Took, InShard, Popping, Linked
<1> QED BY <1>4, <1>5, <1>6, QuietKept, Zenon

(* A push loads the head word. *)
LEMMA PushLoadKept ==
    ASSUME LInv, NEW t \in Threads, PushLoad(t), UNCHANGED calm
    PROVE  LInv'
<1> DEFINE l == [loc[t] EXCEPT !.cur = head[loc[t].shard]]
<1>1. Local(t) /\ TypeOK /\ loc \in [Threads -> Locs] /\ loc[t].shard \in Shards
  BY SMTT(20) DEF LInv, TypeOK, Locs, Pointers, PushLoad
<1>2. /\ l \in Locs /\ l.shard = loc[t].shard /\ l.chain = loc[t].chain
      /\ l.batch = loc[t].batch
  BY <1>1, ZenonT(30) DEF Locs, TypeOK
<1>3. Moves(t, "link", l) /\ pc[t] = "pushload" /\ UNCHANGED <<head, usage, next, stack, own>>
  BY <1>1, Zenon DEF PushLoad, Goto, Moves
<1> HIDE DEF l
<1>4. pc'[t] = "link" /\ loc'[t] = l /\ Others(t) /\ TypeOK'
  <2>1. "link" \in PCs
    BY Zenon DEF PCs
  <2> QED BY <1>1, <1>2, <1>3, <2>1, MovedQuietly, Zenon
<1>5. Local(t)'
  BY <1>1, <1>2, <1>3, <1>4, Zenon DEF Local, Pushes, Pops, Took, InShard, Popping, Linked
<1> QED BY <1>3, <1>4, <1>5, QuietKept, Zenon

(* A push links its tail, a block no list holds, to the head it read. *)
LEMMA PushLinkKept ==
    ASSUME LInv, NEW t \in Threads, PushLink(t), UNCHANGED calm
    PROVE  LInv'
<1> DEFINE c == loc[t].chain
           b == Last(c)
           v == loc[t].cur.ptr
<1>1. Local(t) /\ TypeOK /\ loc \in [Threads -> Locs] /\ loc[t] \in Locs
  BY Zenon DEF LInv, TypeOK, Locs, Pointers
<1>2. /\ pc[t] = "link" /\ next' = [next EXCEPT ![b] = v] /\ pc' = [pc EXCEPT ![t] = "pushcas"]
      /\ UNCHANGED <<head, usage, stack, own, loc>>
  BY Zenon DEF PushLink, Goto
<1>3. c \in Seq(Blocks) /\ c # <<>> /\ IsInjective(c) /\ Range(c) \subseteq own[t] /\ Linked(c)
      /\ loc[t].shard \in Shards /\ v \in Pointers
  BY <1>1, <1>2, Zenon DEF Local, Pushes, InShard, Locs, Words, Pointers
<1>4. b \in own[t] /\ b \in Blocks /\ b = c[Len(c)] /\ Len(c) \in DOMAIN c
  BY <1>3 DEF Range, Last
<1> HIDE DEF b, v
<1>5. next' \in [Blocks -> Pointers] /\ next'[b] = v /\ \A d \in Blocks \ {b} : next'[d] = next[d]
  BY <1>1, <1>2, <1>3, <1>4, Zenon DEF TypeOK, Pointers
<1>6. pc'[t] = "pushcas" /\ Others(t) /\ TypeOK'
  BY <1>1, <1>2, <1>5, Zenon DEF TypeOK, Others, Pointers, PCs
<1>7. Linked(c)'
  <2> SUFFICES ASSUME NEW i \in 1 .. Len(c) - 1
               PROVE  next'[c[i]] = c[i + 1]
    BY <1>2, Zenon DEF Linked
  <2>1. i \in DOMAIN c /\ i # Len(c) /\ c[i] \in Blocks
    BY <1>3
  <2>2. c[i] # b
    BY <1>3, <1>4, <2>1, Zenon DEF IsInjective
  <2> QED BY <1>3, <1>5, <2>1, <2>2, Zenon DEF Linked
<1>8. next'[Last(loc'[t].chain)] = loc'[t].cur.ptr
  BY <1>2, <1>5, Zenon DEF b, v
<1>9. Local(t)'
  BY <1>1, <1>2, <1>3, <1>6, <1>7, <1>8, Zenon DEF Local, Pushes, Pops, Took, InShard, Popping
<1> QED BY <1>2, <1>4, <1>6, <1>9, WriteKept, Zenon

(* A failed exchange sends a push back to link its tail anew. *)
LEMMA PushCasFailKept ==
    ASSUME LInv, NEW t \in Threads, PushCasFail(t), UNCHANGED calm
    PROVE  LInv'
<1> DEFINE l == [loc[t] EXCEPT !.cur = head[loc[t].shard]]
<1>1. Local(t) /\ TypeOK /\ loc \in [Threads -> Locs] /\ loc[t].shard \in Shards
  BY Zenon DEF LInv, TypeOK, Locs, Pointers, PushCasFail, Local, InShard
<1>2. /\ l \in Locs /\ l.shard = loc[t].shard /\ l.chain = loc[t].chain
      /\ l.batch = loc[t].batch
  BY <1>1, Zenon DEF Locs, TypeOK
<1>3. Moves(t, "link", l) /\ pc[t] = "pushcas" /\ UNCHANGED <<head, usage, next, stack, own>>
  BY <1>1, Zenon DEF PushCasFail, Goto, Moves
<1> HIDE DEF l
<1>4. pc'[t] = "link" /\ loc'[t] = l /\ Others(t) /\ TypeOK'
  <2>1. "link" \in PCs
    BY Zenon DEF PCs
  <2> QED BY <1>1, <1>2, <1>3, <2>1, MovedQuietly, Zenon
<1>5. Local(t)'
  BY <1>1, <1>2, <1>3, <1>4, Zenon DEF Local, Pushes, Pops, Took, InShard, Popping, Linked
<1> QED BY <1>3, <1>4, <1>5, QuietKept, Zenon

(* A return leaves the lists alone. *)
LEMMA ReturnKept ==
    ASSUME LInv, NEW t \in Threads, Return(t), UNCHANGED <<head, next, stack, own, calm>>,
           usage' \in [Shards -> 0 .. UsageMod - 1]
    PROVE  LInv'
<1>1. TypeOK /\ Moves(t, "idle", NoLoc) /\ "idle" \in PCs
  BY Zenon DEF LInv, Return, Goto, Moves, PCs
<1>2. pc'[t] = "idle" /\ loc'[t] = NoLoc /\ Others(t) /\ TypeOK'
  BY <1>1, NoLocType, Moved, Zenon DEF TypeOK, Locs, Pointers
<1>3. Local(t)'
  BY <1>2, IdleLocal, Zenon
<1> QED BY <1>2, <1>3, QuietKept, Zenon

(* fetch_add leaves the lists alone. *)
LEMMA PushAddKept ==
    ASSUME LInv, NEW t \in Threads, PushAdd(t), UNCHANGED calm
    PROVE  LInv'
<1>1. Local(t) /\ TypeOK /\ loc \in [Threads -> Locs] /\ pc[t] = "add"
  BY Zenon DEF LInv, TypeOK, Locs, Pointers, PushAdd
<1>2. PICK n \in Int : n = usage[loc[t].shard] + Len(loc[t].chain)
  BY <1>1 DEF TypeOK, Locs, Local, InShard
<1>3. n % UsageMod \in 0 .. UsageMod - 1
  BY InterconnectAssumption, Mod, Zenon
<1>4. usage' = [usage EXCEPT ![loc[t].shard] = n % UsageMod]
  BY <1>2, Zenon DEF PushAdd
<1>5. usage' \in [Shards -> 0 .. UsageMod - 1]
  BY <1>1, <1>3, <1>4, Zenon DEF TypeOK
<1> QED BY <1>5, ReturnKept, Zenon DEF PushAdd

(* A pop starts at the shard of its CPU. *)
LEMMA PopCallKept ==
    ASSUME LInv, NEW t \in Threads, NEW n \in 1 .. MaxBatch, NEW cpu \in get_cpu_id,
           PopCall(t, n, cpu), calm' \subseteq Threads
    PROVE  LInv'
<1> DEFINE l == [NoLoc EXCEPT !.cpu = cpu, !.shard = cpu, !.batch = n]
<1>1. Local(t) /\ TypeOK
  BY Zenon DEF LInv
<1>2. /\ l \in Locs /\ l.shard = cpu /\ l.cpu = cpu /\ l.victim = 0 /\ l.chain = <<>> /\ l.batch = n
  <2>1. cpu \in Nat /\ n \in 0 .. MaxBatch
    BY ShardCount, InterconnectAssumption
  <2> QED BY <2>1, NoLocType, Zenon DEF NoLoc, Locs
<1>3. Moves(t, "check", l) /\ UNCHANGED <<head, usage, next, stack, own>>
  BY Zenon DEF PopCall, Goto, Moves
<1> HIDE DEF l
<1>4. pc'[t] = "check" /\ loc'[t] = l /\ Others(t) /\ TypeOK'
  <2>1. "check" \in PCs
    BY Zenon DEF PCs
  <2> QED BY <1>1, <1>2, <1>3, <2>1, Moved, Zenon DEF TypeOK, Locs, Pointers
<1>5. Local(t)'
  BY <1>2, <1>4, ShardCount, InterconnectAssumption
  DEF Local, Pushes, Pops, Took, InShard, Popping
<1> QED BY <1>3, <1>4, <1>5, QuietKept, Zenon

(* A pop that finds nothing goes on to the next shard. *)
LEMMA NextVictimKept ==
    ASSUME LInv, NEW t \in Threads, NextVictim(t), pc[t] \in {"check", "popload"},
           loc[t].shard \in Shards, UNCHANGED <<head, usage, next, stack, own, calm>>
    PROVE  LInv'
<1> DEFINE i == loc[t].victim + 1
           s == (loc[t].cpu + i) % ncpu
           l == [loc[t] EXCEPT !.victim = i, !.shard = s, !.cur = NoWord, !.chain = <<>>]
<1>1. Local(t) /\ TypeOK /\ loc[t] \in Locs /\ loc \in [Threads -> Locs]
  BY Zenon DEF LInv, TypeOK, Locs, Pointers
<1>2. CASE i >= ncpu /\ Return(t)
  BY <1>1, <1>2, ReturnKept, Zenon DEF TypeOK
<1>3. CASE ~(i >= ncpu /\ Return(t))
  <2>1. i < ncpu /\ Moves(t, "check", l)
    BY <1>1, <1>3, Zenon DEF NextVictim, Goto, Moves
  <2>2. loc[t].victim \in Shards /\ loc[t].cpu \in Shards /\ i \in Shards /\ i # 0
    BY <1>1, <2>1, ShardCount DEF Local, InShard, Locs, Shards
  <2>3. s \in Shards /\ s \in Nat /\ i \in Nat
    <3>1. PICK n \in Nat : n = loc[t].cpu + i
      BY <2>2, ShardCount DEF Shards
    <3>2. n % ncpu \in 0 .. ncpu - 1
      BY ShardCount, Mod
    <3> QED BY <2>2, <3>1, <3>2, ShardCount DEF Shards
  <2>4. /\ l \in Locs /\ l.shard = s /\ l.cpu = loc[t].cpu /\ l.victim = i /\ l.chain = <<>>
        /\ l.batch = loc[t].batch /\ loc[t].batch >= 1
    <3>1. <<>> \in Seq(Blocks)
      OBVIOUS
    <3> HIDE DEF s, i
    <3> QED BY <1>1, <2>3, <3>1, NoLocType, Zenon DEF Locs, Local, InShard
  <2> HIDE DEF l
  <2>5. pc'[t] = "check" /\ loc'[t] = l /\ Others(t) /\ TypeOK'
    <3>1. "check" \in PCs
      BY Zenon DEF PCs
    <3> QED BY <1>1, <2>1, <2>4, <3>1, MovedQuietly, Zenon
  <2>6. Local(t)'
    BY <2>2, <2>4, <2>5, InterconnectAssumption DEF Local, Pushes, Pops, Took, InShard, Popping
  <2> QED BY <2>5, <2>6, QuietKept, Zenon
<1> QED BY <1>2, <1>3, Zenon

(* A pop looks at the counter. *)
LEMMA PopCheckKept ==
    ASSUME LInv, NEW t \in Threads, PopCheck(t), UNCHANGED calm
    PROVE  LInv'
<1>1. CASE NextVictim(t)
  BY <1>1, NextVictimKept, Zenon DEF PopCheck
<1>2. CASE Goto(t, "popload") /\ UNCHANGED loc
  <2>1. Local(t) /\ TypeOK /\ pc[t] = "check" /\ loc[t].shard \in Shards
        /\ UNCHANGED <<head, usage, next, stack, own>>
    BY Zenon DEF LInv, PopCheck
  <2>2. pc'[t] = "popload" /\ Others(t) /\ TypeOK'
    BY <1>2, <2>1, Zenon DEF TypeOK, Others, Goto, PCs
  <2>3. Local(t)'
    BY <1>2, <2>1, <2>2, Zenon DEF Local, Pushes, Pops, Took, InShard, Popping
  <2> QED BY <2>1, <2>2, <2>3, QuietKept, Zenon
<1> QED BY <1>1, <1>2, Zenon DEF PopCheck

(* A pop loads the head word: the front of the list. *)
LEMMA PopLoadKept ==
    ASSUME LInv, NEW t \in Threads, PopLoad(t), UNCHANGED calm
    PROVE  LInv'
<1> DEFINE w == head[loc[t].shard]
           l == [loc[t] EXCEPT !.cur = w, !.chain = <<w.ptr>>]
<1>1. /\ Local(t) /\ TypeOK /\ loc[t] \in Locs /\ loc \in [Threads -> Locs]
      /\ pc[t] = "popload" /\ loc[t].shard \in Shards
      /\ UNCHANGED <<head, usage, next, stack, own>>
  BY Zenon DEF LInv, TypeOK, Locs, Pointers, PopLoad, Local, InShard
<1>2. CASE w.ptr = Null /\ NextVictim(t)
  BY <1>1, <1>2, NextVictimKept, Zenon
<1>3. CASE ~(w.ptr = Null /\ NextVictim(t))
  <2>1. w.ptr # Null /\ Moves(t, "walk", l)
    BY <1>1, <1>3, Zenon DEF PopLoad, Goto, Moves
  <2>2. w \in Words /\ w.ptr \in Blocks
    BY <1>1, <2>1, Zenon DEF TypeOK, Words
  <2>3. <<w.ptr>> \in Seq(Blocks) /\ Len(<<w.ptr>>) = 1 /\ <<w.ptr>> # <<>> /\ <<w.ptr>>[1] = w.ptr
    BY <2>2
  <2>4. /\ l \in Locs /\ l.shard = loc[t].shard /\ l.cpu = loc[t].cpu
        /\ l.victim = loc[t].victim /\ l.chain = <<w.ptr>> /\ l.cur = w /\ l.batch = loc[t].batch
    BY <1>1, <2>2, <2>3, Zenon DEF Locs
  <2>5. IsPre(<<w.ptr>>, stack[loc[t].shard])
    <3> DEFINE k == stack[loc[t].shard]
    <3>1. Spells(next, w.ptr, k) /\ k \in Seq(Blocks)
      BY <1>1, Zenon DEF LInv, Lists, TypeOK
    <3>2. k # <<>> /\ k[1] = w.ptr /\ Len(k) >= 1
      BY <3>1, <2>1 DEF Spells
    <3> QED BY <2>3, <3>2 DEF IsPre
  <2>6. loc[t].batch >= 1
    BY <1>1, Zenon DEF Local, InShard
  <2> HIDE DEF l
  <2>7. pc'[t] = "walk" /\ loc'[t] = l /\ Others(t) /\ TypeOK'
    <3>1. "walk" \in PCs
      BY Zenon DEF PCs
    <3> QED BY <1>1, <2>1, <2>4, <3>1, MovedQuietly, Zenon
  <2>8. Local(t)'
    <3>0. Len(l.chain) <= MaxBatch
      BY <2>3, <2>4, InterconnectAssumption
    <3>1. InShard(t)'
      BY <1>1, <2>4, <2>7, <3>0, Zenon DEF Local, InShard
    <3>2. Pops(t)'
      BY <1>1, <2>3, <2>4, <2>5, <2>6, <2>7, Zenon DEF Pops
    <3> QED BY <2>7, <3>1, <3>2, Zenon DEF Local, Pushes, Took
  <2> QED BY <1>1, <2>7, <2>8, QuietKept, Zenon
<1> QED BY <1>2, <1>3, Zenon

(* The walk ends with the link the new head is to be. *)
LEMMA PopsOn ==
    ASSUME LInv, NEW t \in Threads, pc[t] \in {"walk", "new"},
           loc' = [loc EXCEPT ![t].new = next[Last(loc[t].chain)]], Goto(t, "popcas"),
           UNCHANGED <<head, usage, next, stack, own, calm>>
    PROVE  LInv'
<1> DEFINE c == loc[t].chain
           n == next[Last(c)]
           l == [loc[t] EXCEPT !.new = n]
<1>1. /\ Local(t) /\ TypeOK /\ loc[t] \in Locs /\ loc \in [Threads -> Locs]
      /\ loc[t].shard \in Shards /\ c \in Seq(Blocks) /\ c # <<>>
  BY Zenon DEF LInv, TypeOK, Locs, Pointers, Local, InShard, Pops, Popping
<1>2. n \in Pointers
  <2>1. Last(c) \in Blocks
    BY <1>1 DEF Last
  <2> QED BY <1>1, <2>1, Zenon DEF TypeOK, Pointers
<1>3. Moves(t, "popcas", l)
  BY <1>1, Zenon DEF Goto, Moves
<1>4. /\ l \in Locs /\ l.shard = loc[t].shard /\ l.cpu = loc[t].cpu
      /\ l.victim = loc[t].victim /\ l.chain = c /\ l.cur = loc[t].cur
      /\ l.batch = loc[t].batch /\ l.new = n
  BY <1>1, <1>2, Zenon DEF Locs
<1> HIDE DEF l
<1>5. pc'[t] = "popcas" /\ loc'[t] = l /\ Others(t) /\ TypeOK'
  <2>1. "popcas" \in PCs
    BY Zenon DEF PCs
  <2> QED BY <1>1, <1>3, <1>4, <2>1, MovedQuietly, Zenon
<1>6. Local(t)'
  <2>1. InShard(t)'
    BY <1>1, <1>4, <1>5, Zenon DEF Local, InShard
  <2>2. Pops(t)'
    BY <1>1, <1>4, <1>5, Zenon DEF Local, Pops, Popping
  <2> QED BY <1>5, <2>1, <2>2, Zenon DEF Local, Pushes, Took
<1> QED BY <1>5, <1>6, QuietKept, Zenon

(* Every turn of the walk stays in front of the list, if the head stays. *)
LEMMA PopWalkKept ==
    ASSUME LInv, NEW t \in Threads, PopWalk(t), UNCHANGED calm
    PROVE  LInv'
<1> DEFINE c == loc[t].chain
           k == stack[loc[t].shard]
           n == next[c[Len(c)]]
           l == [loc[t] EXCEPT !.chain = Append(c, n)]
           m == [loc[t] EXCEPT !.new = n]
<1>1. /\ Local(t) /\ TypeOK /\ loc[t] \in Locs /\ loc \in [Threads -> Locs]
      /\ pc[t] = "walk" /\ loc[t].shard \in Shards /\ c \in Seq(Blocks) /\ c # <<>>
      /\ Len(c) <= loc[t].batch /\ loc[t].batch <= MaxBatch
      /\ UNCHANGED <<head, usage, next, stack, own>>
  <2>1. /\ Local(t) /\ TypeOK /\ loc[t] \in Locs /\ loc \in [Threads -> Locs] /\ pc[t] = "walk"
        /\ UNCHANGED <<head, usage, next, stack, own>>
    BY Zenon DEF LInv, TypeOK, Locs, Pointers, PopWalk
  <2>2. loc[t].batch <= MaxBatch /\ c \in Seq(Blocks)
    BY <2>1, InterconnectAssumption DEF Locs
  <2> QED BY <2>1, <2>2, Zenon DEF Local, InShard, Pops, Popping
<1>2. n \in Pointers /\ k \in Seq(Blocks) /\ Spells(next, head[loc[t].shard].ptr, k)
  <2>1. c[Len(c)] \in Blocks
    BY <1>1
  <2> QED BY <1>1, <2>1, Zenon DEF LInv, TypeOK, Pointers, Lists
<1>3. head[loc[t].shard] = loc[t].cur => IsPre(c, k)
  BY <1>1, Zenon DEF Local, Pops, Popping
<1>4. CASE Len(c) < loc[t].batch /\ n # Null
  <2>1. Moves(t, "walk", l)
    <3>1. loc' = [loc EXCEPT ![t].chain = Append(@, n)] /\ pc' = pc
      BY <1>1, <1>4 DEF PopWalk, Last
    <3>2. loc' = [loc EXCEPT ![t] = l]
      BY <1>1, <3>1, Zenon
    <3>3. pc' = [pc EXCEPT ![t] = "walk"]
      BY <1>1, <3>1, Zenon DEF TypeOK
    <3> QED BY <3>2, <3>3, Zenon DEF Moves
  <2>2. /\ Append(c, n) \in Seq(Blocks) /\ Len(Append(c, n)) = Len(c) + 1 /\ Append(c, n) # <<>>
    BY <1>1, <1>2, <1>4 DEF Pointers
  <2>3. /\ l \in Locs /\ l.shard = loc[t].shard /\ l.cpu = loc[t].cpu
        /\ l.victim = loc[t].victim /\ l.chain = Append(c, n) /\ l.cur = loc[t].cur
        /\ l.batch = loc[t].batch
    BY <1>1, <2>2, Zenon DEF Locs
  <2>4. head[loc[t].shard] = loc[t].cur => IsPre(Append(c, n), k)
    BY <1>1, <1>2, <1>3, <1>4, WalkList, Zenon
  <2> HIDE DEF l, n
  <2>5. pc'[t] = "walk" /\ loc'[t] = l /\ Others(t) /\ TypeOK'
    <3>1. "walk" \in PCs
      BY Zenon DEF PCs
    <3> QED BY <1>1, <2>1, <2>3, <3>1, MovedQuietly, Zenon
  <2>6. Local(t)'
    <3>1. Len(l.chain) <= l.batch /\ l.batch <= MaxBatch /\ Len(l.chain) <= MaxBatch
      BY <1>1, <1>4, <2>2, <2>3, InterconnectAssumption DEF Locs
    <3>2. InShard(t)'
      BY <1>1, <2>3, <2>5, <3>1, Zenon DEF Local, InShard
    <3>3. Pops(t)'
      BY <1>1, <2>2, <2>3, <2>4, <2>5, <3>1, Zenon DEF Pops
    <3> QED BY <2>5, <3>2, <3>3, Zenon DEF Local, Pushes, Took
  <2> QED BY <1>1, <2>5, <2>6, QuietKept, Zenon
<1>5. CASE Goto(t, "new") /\ UNCHANGED loc
  <2>1. pc'[t] = "new" /\ Others(t) /\ TypeOK'
    BY <1>1, <1>5, Zenon DEF TypeOK, Others, Goto, PCs
  <2>2. Local(t)'
    BY <1>1, <1>5, <2>1, Zenon DEF Local, Pushes, Pops, Took, InShard, Popping
  <2> QED BY <1>1, <2>1, <2>2, QuietKept, Zenon
<1>6. CASE loc' = [loc EXCEPT ![t].new = n] /\ Goto(t, "popcas")
  BY <1>1, <1>6, PopsOn, Zenon DEF Last
<1> QED BY <1>4, <1>5, <1>6, Zenon DEF PopWalk, Last

(* A pop reads the link for the new head once more. *)
LEMMA PopNewKept ==
    ASSUME LInv, NEW t \in Threads, PopNew(t), UNCHANGED calm
    PROVE  LInv'
BY PopsOn, Zenon DEF PopNew

(* A failed exchange sends a pop back to load the head. *)
LEMMA PopCasFailKept ==
    ASSUME LInv, NEW t \in Threads, PopCasFail(t), UNCHANGED calm
    PROVE  LInv'
<1> DEFINE l == [loc[t] EXCEPT !.cur = NoWord, !.chain = <<>>, !.new = Null]
<1>1. /\ Local(t) /\ TypeOK /\ loc[t] \in Locs /\ loc \in [Threads -> Locs] /\ pc[t] = "popcas"
      /\ UNCHANGED <<head, usage, next, stack, own>>
  BY Zenon DEF LInv, TypeOK, Locs, Pointers, PopCasFail
<1>2. /\ l \in Locs /\ l.shard = loc[t].shard /\ l.cpu = loc[t].cpu /\ l.victim = loc[t].victim
      /\ l.chain = <<>> /\ l.batch = loc[t].batch
  <2>1. <<>> \in Seq(Blocks)
    OBVIOUS
  <2> QED BY <1>1, <2>1, NoLocType, Zenon DEF Locs, Pointers
<1>3. Moves(t, "popload", l)
  BY <1>1, Zenon DEF PopCasFail, Goto, Moves
<1> HIDE DEF l
<1>4. pc'[t] = "popload" /\ loc'[t] = l /\ Others(t) /\ TypeOK'
  <2>1. "popload" \in PCs
    BY Zenon DEF PCs
  <2> QED BY <1>1, <1>2, <1>3, <2>1, MovedQuietly, Zenon
<1>5. Local(t)'
  <2>1. Pushes(t)' /\ Pops(t)' /\ Took(t)'
    BY <1>4, Zenon DEF Pushes, Pops, Took, Popping
  <2>2. /\ loc[t].shard \in Shards /\ loc[t].victim \in Shards /\ loc[t].batch >= 1
        /\ IF loc[t].victim = 0 THEN loc[t].shard = loc[t].cpu
           ELSE loc[t].cpu \in Shards /\ loc[t].shard = (loc[t].cpu + loc[t].victim) % ncpu
    BY <1>1, Zenon DEF Local, InShard
  <2>3. Len(l.chain) <= MaxBatch
    BY <1>2, InterconnectAssumption
  <2>4. InShard(t)'
    BY <1>2, <1>4, <2>2, <2>3, Zenon DEF InShard
  <2> QED BY <2>1, <2>4, Zenon DEF Local
<1> QED BY <1>1, <1>4, <1>5, QuietKept, Zenon

(* fetch_sub leaves the lists alone. *)
LEMMA PopSubKept ==
    ASSUME LInv, NEW t \in Threads, PopSub(t), UNCHANGED calm
    PROVE  LInv'
<1>1. /\ Local(t) /\ TypeOK /\ loc \in [Threads -> Locs] /\ pc[t] = "sub"
      /\ UNCHANGED <<head, next, stack, own, loc>>
  BY Zenon DEF LInv, TypeOK, Locs, Pointers, PopSub
<1>2. PICK n \in Int : n = usage[loc[t].shard] - Len(loc[t].chain)
  <2>1. loc[t].shard \in Shards
    BY <1>1, Zenon DEF Local, InShard
  <2>2. usage[loc[t].shard] \in 0 .. UsageMod - 1
    BY <1>1, <2>1, Zenon DEF TypeOK
  <2>3. Len(loc[t].chain) \in Nat
    BY <1>1 DEF Locs
  <2> QED BY <2>2, <2>3, InterconnectAssumption
<1>3. n % UsageMod \in 0 .. UsageMod - 1
  BY InterconnectAssumption, Mod, Zenon
<1>4. usage' = [usage EXCEPT ![loc[t].shard] = n % UsageMod] /\ pc' = [pc EXCEPT ![t] = "seal"]
  BY <1>2, Zenon DEF PopSub, Goto
<1>5. usage' \in [Shards -> 0 .. UsageMod - 1]
  BY <1>1, <1>3, <1>4, Zenon DEF TypeOK
<1>6. pc'[t] = "seal" /\ Others(t) /\ TypeOK'
  BY <1>1, <1>4, <1>5, Zenon DEF TypeOK, Others, PCs
<1>7. Local(t)'
  BY <1>1, <1>6, Zenon DEF Local, Pushes, Pops, Took, InShard, Popping
<1> QED BY <1>1, <1>6, <1>7, QuietKept, Zenon

(* A pop ends its chain, which no list holds any more. *)
LEMMA PopSealKept ==
    ASSUME LInv, NEW t \in Threads, PopSeal(t), UNCHANGED calm
    PROVE  LInv'
<1> DEFINE b == Last(loc[t].chain)
<1>1. /\ Local(t) /\ TypeOK /\ loc \in [Threads -> Locs] /\ pc[t] = "seal"
      /\ next' = [next EXCEPT ![b] = Null] /\ UNCHANGED <<head, usage, stack, own>>
  BY Zenon DEF LInv, TypeOK, Locs, Pointers, PopSeal
<1>2. b \in own[t]
  <2>1. loc[t].chain \in Seq(Blocks) /\ loc[t].chain # <<>> /\ Range(loc[t].chain) \subseteq own[t]
    BY <1>1, Zenon DEF Locs, Local, Took
  <2> QED BY <2>1 DEF Range, Last
<1>3. Moves(t, "idle", NoLoc) /\ "idle" \in PCs
  BY Zenon DEF PopSeal, Return, Goto, Moves, PCs
<1> HIDE DEF b
<1>4. /\ pc'[t] = "idle" /\ loc'[t] = NoLoc /\ Others(t)
      /\ pc' \in [Threads -> PCs] /\ loc' \in [Threads -> Locs]
  BY <1>1, <1>3, NoLocType, Moved, Zenon
<1>5. TypeOK'
  BY <1>1, <1>4, Zenon DEF TypeOK, Locs, Pointers
<1>6. Local(t)'
  BY <1>4, IdleLocal, Zenon
<1> QED BY <1>1, <1>2, <1>4, <1>5, <1>6, WriteKept, Zenon

-----------------------------------------------------------------------------
(* The exchanges. *)

(* A chain in front of a list that has none of its blocks. *)
LEMMA ConcatSet ==
    ASSUME NEW c \in Seq(Blocks), NEW k \in Seq(Blocks), IsInjective(c), IsInjective(k),
           Range(c) \cap Range(k) = {}
    PROVE  IsInjective(c \o k) /\ Range(c \o k) \subseteq Range(c) \cup Range(k)
<1> DEFINE d == c \o k
<1>1. /\ d \in Seq(Blocks) /\ Len(d) = Len(c) + Len(k) /\ Len(c) \in Nat /\ Len(k) \in Nat
      /\ \A i \in 1 .. Len(d) : d[i] = IF i <= Len(c) THEN c[i] ELSE k[i - Len(c)]
  OBVIOUS
<1>2. /\ \A i \in 1 .. Len(c) : c[i] \in Range(c)
      /\ \A i \in 1 .. Len(k) : k[i] \in Range(k)
  BY DEF Range
<1> HIDE DEF d
<1>3. DOMAIN d = 1 .. Len(d) /\ DOMAIN c = 1 .. Len(c) /\ DOMAIN k = 1 .. Len(k)
  BY <1>1
<1>4. ASSUME NEW i \in 1 .. Len(d)
      PROVE  \/ i \in 1 .. Len(c) /\ d[i] = c[i] /\ d[i] \in Range(c)
             \/ i - Len(c) \in 1 .. Len(k) /\ d[i] = k[i - Len(c)] /\ d[i] \in Range(k)
  <2>1. CASE i <= Len(c)
    BY <2>1, <1>1, <1>2
  <2>2. CASE i > Len(c)
    <3>1. i - Len(c) \in 1 .. Len(k)
      BY <2>2, <1>1
    <3> QED BY <2>2, <3>1, <1>1, <1>2
  <2> QED BY <2>1, <2>2, <1>1
<1>5. Range(d) \subseteq Range(c) \cup Range(k)
  BY <1>3, <1>4, Zenon DEF Range
<1>6. IsInjective(d)
  <2> SUFFICES ASSUME NEW i \in 1 .. Len(d), NEW j \in 1 .. Len(d), d[i] = d[j]
               PROVE  i = j
    BY <1>3, Zenon DEF IsInjective
  <2>1. CASE d[i] \in Range(c)
    <3>1. d[j] \notin Range(k) /\ d[i] \notin Range(k)
      BY <2>1, Zenon
    <3>2. i \in 1 .. Len(c) /\ j \in 1 .. Len(c) /\ c[i] = c[j]
      BY <1>4, <3>1, Zenon
    <3> QED BY <3>2, <1>3, Zenon DEF IsInjective
  <2>2. CASE d[i] \notin Range(c)
    <3>1. i - Len(c) \in 1 .. Len(k) /\ j - Len(c) \in 1 .. Len(k)
          /\ k[i - Len(c)] = k[j - Len(c)]
      BY <1>4, <2>2, Zenon
    <3>2. i - Len(c) = j - Len(c)
      BY <3>1, <1>3, Zenon DEF IsInjective
    <3> QED BY <3>2, <1>1
  <2> QED BY <2>1, <2>2, Zenon
<1> QED BY <1>5, <1>6, Zenon DEF d

(* A list without its front. *)
LEMMA RestSet ==
    ASSUME NEW c \in Seq(Blocks), NEW k \in Seq(Blocks), IsInjective(k), IsPre(c, k)
    PROVE  LET d == SubSeq(k, Len(c) + 1, Len(k))
           IN  /\ IsInjective(d) /\ Range(d) \subseteq Range(k) /\ Range(c) \subseteq Range(k)
               /\ Range(c) \cap Range(d) = {} /\ d \in Seq(Blocks)
               /\ Len(d) = Len(k) - Len(c)
<1> DEFINE d == SubSeq(k, Len(c) + 1, Len(k))
<1>1. Len(c) \in Nat /\ Len(k) \in Nat /\ Len(c) <= Len(k) /\ \A i \in 1 .. Len(c) : c[i] = k[i]
  BY DEF IsPre
<1>2. /\ d \in Seq(Blocks) /\ Len(d) = Len(k) - Len(c)
      /\ \A i \in 1 .. Len(d) : d[i] = k[Len(c) + i]
  BY <1>1
<1> HIDE DEF d
<1>3. DOMAIN d = 1 .. Len(d) /\ DOMAIN c = 1 .. Len(c) /\ DOMAIN k = 1 .. Len(k)
  BY <1>2
<1>4. \A i \in 1 .. Len(d) : Len(c) + i \in 1 .. Len(k)
  BY <1>1, <1>2
<1>5. \A i \in 1 .. Len(c) : i \in 1 .. Len(k)
  BY <1>1
<1>6. Range(d) \subseteq Range(k) /\ Range(c) \subseteq Range(k)
  <2>1. Range(d) \subseteq Range(k)
    BY <1>2, <1>3, <1>4, Zenon DEF Range
  <2>2. Range(c) \subseteq Range(k)
    BY <1>1, <1>3, <1>5, Zenon DEF Range
  <2> QED BY <2>1, <2>2, Zenon
<1>7. IsInjective(d)
  <2> SUFFICES ASSUME NEW i \in 1 .. Len(d), NEW j \in 1 .. Len(d), d[i] = d[j]
               PROVE  i = j
    BY <1>3, Zenon DEF IsInjective
  <2>1. Len(c) + i = Len(c) + j
    BY <1>2, <1>3, <1>4, ZenonT(30) DEF IsInjective
  <2> QED BY <2>1, <1>1
<1>8. Range(c) \cap Range(d) = {}
  <2> SUFFICES ASSUME NEW i \in 1 .. Len(c), NEW j \in 1 .. Len(d), c[i] = d[j]
               PROVE  FALSE
    BY <1>3, Zenon DEF Range
  <2>1. i = Len(c) + j
    BY <1>1, <1>2, <1>3, <1>4, <1>5, Zenon DEF IsInjective
  <2> QED BY <2>1, <1>1
<1> QED BY <1>2, <1>6, <1>7, <1>8, Zenon DEF d

(* Blocks may go between one shard and one thread. *)
LEMMA ApartKept ==
    ASSUME TypeOK, Apart, NEW s \in Shards, NEW t \in Threads, NEW k \in Seq(Blocks), NEW o,
           stack' = [stack EXCEPT ![s] = k], own' = [own EXCEPT ![t] = o],
           IsInjective(k), Range(k) \cap o = {},
           Range(k) \subseteq Range(stack[s]) \cup own[t], o \subseteq Range(stack[s]) \cup own[t]
    PROVE  Apart'
<1>1. stack'[s] = k /\ own'[t] = o
  BY Zenon DEF TypeOK
<1>2. /\ \A r \in Shards \ {s} : stack'[r] = stack[r]
      /\ \A u \in Threads \ {t} : own'[u] = own[u]
  BY Zenon DEF TypeOK
<1>3. \A u, v \in Threads : u # v => own'[u] \cap own'[v] = {}
  BY <1>1, <1>2 DEF Apart
<1>4. \A r \in Shards : IsInjective(stack'[r])
  BY <1>1, <1>2, Zenon DEF Apart
<1>5. \A r, q \in Shards : r # q => Range(stack'[r]) \cap Range(stack'[q]) = {}
  BY <1>1, <1>2 DEF Apart
<1>6. \A r \in Shards, u \in Threads : Range(stack'[r]) \cap own'[u] = {}
  BY <1>1, <1>2 DEF Apart
<1> QED BY <1>3, <1>4, <1>5, <1>6, Zenon DEF Apart

(* Nobody else's call minds a timely exchange: who pops from the shard has *)
(* read another tag.                                                       *)
LEMMA SwingLocal ==
    ASSUME LInv, NEW t \in Threads, Timely(t), Others(t),
           NEW p, NEW k, NEW o, loc[t].shard \in Shards,
           head' = [head EXCEPT ![loc[t].shard] = head_pack(p, head[loc[t].shard])],
           stack' = [stack EXCEPT ![loc[t].shard] = k], own' = [own EXCEPT ![t] = o],
           UNCHANGED next, NEW u \in Threads \ {t}
    PROVE  Local(u)'
<1> DEFINE s == loc[t].shard
<1>1. Local(u) /\ pc'[u] = pc[u] /\ loc'[u] = loc[u] /\ own'[u] = own[u]
  BY Zenon DEF LInv, TypeOK, Others
<1>2. Pushes(u)' /\ Took(u)' /\ InShard(u)'
  BY <1>1, Zenon DEF Local, Pushes, Took, InShard, Linked
<1>3. Pops(u)'
  <2> SUFFICES ASSUME Popping(u)
               PROVE  Pops(u)'
    BY <1>1, Zenon DEF Pops, Popping
  <2>1. loc[u].shard \in Shards
    BY <1>1, Zenon DEF Local, InShard, Popping
  <2>2. CASE loc[u].shard = s
    <3>1. (head[s].tag + 1) % TagMod # loc[u].cur.tag
      BY <2>2, Zenon DEF Timely
    <3>2. head'[s].tag = (head[s].tag + 1) % TagMod
      BY Zenon DEF LInv, TypeOK, head_pack
    <3> QED BY <1>1, <2>2, <3>1, <3>2, Zenon DEF Local, Pops, Popping
  <2>3. CASE loc[u].shard # s
    <3>1. head'[loc[u].shard] = head[loc[u].shard] /\ stack'[loc[u].shard] = stack[loc[u].shard]
      BY <2>1, <2>3, Zenon DEF LInv, TypeOK
    <3> QED BY <1>1, <3>1, Zenon DEF Local, Pops, Popping
  <2> QED BY <2>2, <2>3, Zenon
<1> QED BY <1>2, <1>3, Zenon DEF Local

(* The rest of an exchange: the words, and the list of the shard. *)
LEMMA SwingKept ==
    ASSUME LInv, NEW t \in Threads, Timely(t), loc[t].shard \in Shards,
           NEW p \in Pointers, NEW k \in Seq(Blocks), NEW o \in SUBSET Blocks, NEW a \in PCs,
           head' = [head EXCEPT ![loc[t].shard] = head_pack(p, head[loc[t].shard])],
           stack' = [stack EXCEPT ![loc[t].shard] = k], own' = [own EXCEPT ![t] = o],
           pc' = [pc EXCEPT ![t] = a], UNCHANGED <<usage, next, loc, calm>>,
           Spells(next, p, k), IsInjective(k), Range(k) \cap o = {},
           Range(k) \subseteq Range(stack[loc[t].shard]) \cup own[t],
           o \subseteq Range(stack[loc[t].shard]) \cup own[t],
           Local(t)'
    PROVE  LInv'
<1> DEFINE s == loc[t].shard
<1>1. TypeOK /\ Apart /\ Lists
  BY Zenon DEF LInv
<1>2. Others(t)
  BY <1>1, Zenon DEF Others, TypeOK
<1>3. head_pack(p, head[s]) \in Words
  <2>1. head[s] \in Words
    BY <1>1, Zenon DEF TypeOK
  <2>2. head[s].tag \in Nat
    BY <2>1, InterconnectAssumption DEF Words
  <2>3. (head[s].tag + 1) % TagMod \in 0 .. TagMod - 1
    <3>1. PICK n \in Int : n = head[s].tag + 1
      BY <2>2
    <3>2. TagMod \in Nat \ {0}
      BY InterconnectAssumption, Zenon
    <3> QED BY <3>1, <3>2, Mod, Zenon
  <2> QED BY <2>3, Zenon DEF head_pack, Words, Pointers
<1>4. TypeOK'
  BY <1>1, <1>3, Zenon DEF TypeOK
<1>5. Apart'
  BY <1>1, ApartKept, Zenon
<1>6. Lists'
  <2> SUFFICES ASSUME NEW r \in Shards
               PROVE  Spells(next', head'[r].ptr, stack'[r])
    BY Zenon DEF Lists
  <2>1. CASE r = s
    <3>1. head'[r].ptr = p /\ stack'[r] = k
      BY <1>1, <2>1, Zenon DEF TypeOK, head_pack
    <3> QED BY <3>1, Zenon
  <2>2. CASE r # s
    <3>1. head'[r] = head[r] /\ stack'[r] = stack[r]
      BY <1>1, <2>2, Zenon DEF TypeOK
    <3> QED BY <3>1, <1>1, Zenon DEF Lists
  <2> QED BY <2>1, <2>2, Zenon
<1>7. \A u \in Threads \ {t} : Local(u)'
  BY <1>2, SwingLocal, Zenon
<1> QED BY <1>4, <1>5, <1>6, <1>7, Zenon DEF LInv

(* A push's exchange puts its chain in front of the list. *)
LEMMA PushCasOkKept ==
    ASSUME LInv, NEW t \in Threads, Timely(t), PushCasOk(t), UNCHANGED calm
    PROVE  LInv'
<1> DEFINE c == loc[t].chain
           s == loc[t].shard
           k == c \o stack[s]
           o == own[t] \ Range(c)
<1>1. /\ Local(t) /\ TypeOK /\ Apart /\ Lists /\ loc[t] \in Locs
      /\ pc[t] = "pushcas" /\ head[s] = loc[t].cur /\ UNCHANGED <<usage, next, loc>>
  BY Zenon DEF LInv, TypeOK, Locs, Pointers, PushCasOk
<1>2. /\ c \in Seq(Blocks) /\ c # <<>> /\ IsInjective(c) /\ Range(c) \subseteq own[t]
      /\ Linked(c) /\ next[Last(c)] = head[s].ptr /\ s \in Shards /\ Len(c) <= MaxBatch
  BY <1>1, Zenon DEF Local, Pushes, InShard, Locs
<1>3. /\ stack[s] \in Seq(Blocks) /\ IsInjective(stack[s]) /\ Range(c) \cap Range(stack[s]) = {}
      /\ Range(stack[s]) \cap own[t] = {} /\ Spells(next, head[s].ptr, stack[s])
  BY <1>1, <1>2, Zenon DEF TypeOK, Apart, Lists
<1>4. IsInjective(k) /\ Range(k) \subseteq Range(c) \cup Range(stack[s])
  BY <1>2, <1>3, ConcatSet, Zenon
<1>5. Spells(next, c[1], k)
  BY <1>2, <1>3, PushList, Zenon DEF Linked, Last
<1>6. c[1] \in Pointers /\ k \in Seq(Blocks) /\ o \in SUBSET Blocks
  BY <1>1, <1>2, <1>3 DEF TypeOK, Pointers
<1>7. Range(k) \cap o = {} /\ Range(k) \subseteq Range(stack[s]) \cup own[t]
      /\ o \subseteq Range(stack[s]) \cup own[t]
  BY <1>2, <1>3, <1>4, Zenon
<1>8. /\ head' = [head EXCEPT ![s] = head_pack(c[1], head[s])]
      /\ stack' = [stack EXCEPT ![s] = k] /\ own' = [own EXCEPT ![t] = o]
      /\ pc' = [pc EXCEPT ![t] = "add"] /\ "add" \in PCs
  BY <1>1, Zenon DEF PushCasOk, Goto, PCs
<1>9. Local(t)'
  <2>1. pc'[t] = "add"
    BY <1>1, <1>8, Zenon DEF TypeOK
  <2> QED BY <1>1, <1>2, <2>1, Zenon DEF Local, Pushes, Pops, Took, InShard, Popping
<1> HIDE DEF k, o
<1> QED BY <1>1, <1>2, <1>4, <1>5, <1>6, <1>7, <1>8, <1>9, SwingKept, ZenonT(30)

(* A pop's exchange takes the front of the list away. *)
LEMMA PopCasOkKept ==
    ASSUME LInv, NEW t \in Threads, Timely(t), PopCasOk(t), UNCHANGED calm
    PROVE  LInv'
<1> DEFINE c == loc[t].chain
           s == loc[t].shard
           k == SubSeq(stack[s], Len(c) + 1, Len(stack[s]))
           o == own[t] \cup Range(c)
<1>1. /\ Local(t) /\ TypeOK /\ Apart /\ Lists /\ loc[t] \in Locs
      /\ pc[t] = "popcas" /\ head[s] = loc[t].cur /\ UNCHANGED <<usage, next, loc>>
  BY Zenon DEF LInv, TypeOK, Locs, Pointers, PopCasOk
<1>2. /\ c \in Seq(Blocks) /\ c # <<>> /\ IsPre(c, stack[s]) /\ loc[t].new = next[Last(c)]
      /\ s \in Shards /\ Len(c) <= MaxBatch
  BY <1>1, Zenon DEF Local, Pops, InShard, Locs, Popping
<1>3. /\ stack[s] \in Seq(Blocks) /\ IsInjective(stack[s])
      /\ Range(stack[s]) \cap own[t] = {} /\ Spells(next, head[s].ptr, stack[s])
  BY <1>1, <1>2, ZenonT(30) DEF TypeOK, Apart, Lists
<1>4. /\ IsInjective(k) /\ Range(k) \subseteq Range(stack[s]) /\ Range(c) \subseteq Range(stack[s])
      /\ Range(c) \cap Range(k) = {} /\ k \in Seq(Blocks)
  BY <1>2, <1>3, RestSet
<1>5. Spells(next, loc[t].new, k)
  <2>1. Len(c) \in 1 .. Len(stack[s]) /\ c[Len(c)] = stack[s][Len(c)]
    BY <1>2, <1>3 DEF IsPre
  <2> QED BY <1>2, <1>3, <2>1, PopList, ZenonT(30) DEF Last
<1>6. loc[t].new \in Pointers /\ o \in SUBSET Blocks
  BY <1>1, <1>2 DEF TypeOK, Pointers, Locs, Range
<1>7. Range(k) \cap o = {} /\ Range(k) \subseteq Range(stack[s]) \cup own[t]
      /\ o \subseteq Range(stack[s]) \cup own[t]
  BY <1>2, <1>3, <1>4, Zenon
<1>8. /\ head' = [head EXCEPT ![s] = head_pack(loc[t].new, head[s])]
      /\ stack' = [stack EXCEPT ![s] = k] /\ own' = [own EXCEPT ![t] = o]
      /\ pc' = [pc EXCEPT ![t] = "sub"] /\ "sub" \in PCs
  BY <1>1, SMTT(20) DEF PopCasOk, Goto, PCs
<1>9. Local(t)'
  <2>1. pc'[t] = "sub" /\ own'[t] = o /\ Range(c) \subseteq o
    BY <1>1, <1>8, Zenon DEF TypeOK
  <2> QED BY <1>1, <1>2, <2>1, Zenon DEF Local, Pushes, Pops, Took, InShard, Popping
<1> HIDE DEF k, o
<1> QED BY <1>1, <1>2, <1>4, <1>5, <1>6, <1>7, <1>8, <1>9, SwingKept, ZenonT(30)

(* At first every shard is empty. *)
LEMMA ListsInit == Init => LInv
<1> SUFFICES ASSUME Init
             PROVE  LInv
  BY Zenon
<1>1. PICK owner \in [Blocks -> Threads] : own = [t \in Threads |-> {b \in Blocks : owner[b] = t}]
  BY Zenon DEF Init
<1>2. TypeOK
  <2>1. head \in [Shards -> Words] /\ usage \in [Shards -> 0 .. UsageMod - 1]
        /\ next \in [Blocks -> Blocks \cup {Null}]
    BY NoLocType, InterconnectAssumption DEF Init
  <2>2. stack \in [Shards -> Seq(Blocks)] /\ own \in [Threads -> SUBSET Blocks]
        /\ pc \in [Threads -> PCs] /\ loc \in [Threads -> Locs] /\ calm \subseteq Threads
    BY <1>1, NoLocType DEF Init, PCs
  <2> QED BY <2>1, <2>2, Zenon DEF TypeOK, Locs, Pointers
<1>3. Apart
  BY <1>1 DEF Init, Apart, IsInjective, Range
<1>4. Lists
  BY Zenon DEF Init, Lists, Spells, NoWord
<1>5. \A t \in Threads : Local(t)
  BY InterconnectAssumption
  DEF Init, Local, Pushes, Pops, Took, InShard, Popping, NoLoc
<1> QED BY <1>2, <1>3, <1>4, <1>5, Zenon DEF LInv

(* Every timely step keeps the lists. *)
LEMMA ListsNext == LInv /\ [TimelyNext]_vars => LInv'
<1> SUFFICES ASSUME LInv, [TimelyNext]_vars
             PROVE  LInv'
  BY Zenon
<1>1. CASE UNCHANGED vars
  <2> USE <1>1 DEF vars
  <2>1. TypeOK'
    BY Zenon DEF LInv, TypeOK
  <2>2. Apart' /\ Lists'
    BY Zenon DEF LInv, Apart, Lists, Spells
  <2>3. \A t \in Threads : Local(t)'
    BY ZenonT(30) DEF LInv, Local, Pushes, Pops, Took, InShard, Popping, Linked
  <2> QED BY <2>1, <2>2, <2>3, Zenon DEF LInv
<1>2. ASSUME NEW t \in Threads, Call(t)
      PROVE  LInv'
  <2>0. calm \subseteq Threads
    BY Zenon DEF LInv, TypeOK
  <2>1. ASSUME NEW b \in own[t], NEW n \in own[t] \cup {Null}, Relink(t, b, n), UNCHANGED calm
        PROVE  LInv'
    BY <2>0, <2>1, RelinkKept, Zenon
  <2>2. ASSUME NEW c \in Chains(own[t]), NEW cpu \in get_cpu_id, PushCall(t, c, cpu), calm' = {}
        PROVE  LInv'
    BY <2>2, PushCallKept, Zenon
  <2>3. ASSUME NEW n \in 1 .. MaxBatch, NEW cpu \in get_cpu_id, PopCall(t, n, cpu),
               calm' = IF Alone(t) THEN {t} ELSE {}
        PROVE  LInv'
    BY <2>3, PopCallKept, Zenon
  <2> QED BY <1>2, <2>1, <2>2, <2>3, Zenon DEF Call
<1>3. ASSUME NEW t \in Threads, Advance(t)
      PROVE  LInv'
  BY <1>3, PushLoadKept, PushLinkKept, PushCasFailKept, PushAddKept, PopCheckKept, PopLoadKept,
     PopWalkKept, PopNewKept, PopCasFailKept, PopSubKept, PopSealKept, ZenonT(30) DEF Advance
<1>4. ASSUME NEW t \in Threads, Timely(t), Swing(t)
      PROVE  LInv'
  BY <1>4, PushCasOkKept, PopCasOkKept, Zenon DEF Swing
<1> QED BY <1>1, <1>2, <1>3, <1>4, Zenon DEF TimelyNext

-----------------------------------------------------------------------------
(* The counter. *)

(* A remainder may be taken early. *)
LEMMA ModAdd ==
    ASSUME NEW x \in Int, NEW n \in Int, NEW m \in Nat \ {0}
    PROVE  ((x % m) + n) % m = (x + n) % m
<1>1. PICK q \in Int : x % m = x - m * q
  BY Mod, Zenon
<1>2. PICK y \in Int : y = x + n
  OBVIOUS
<1>3. PICK q2 \in Int : y % m = y - m * q2
  BY Mod, Zenon
<1>4. PICK r \in 0 .. m - 1 : r = y % m
  BY Mod, Zenon
<1>5. PICK d \in Int : d = q2 - q
  OBVIOUS
<1>6. (x % m) + n = d * m + r
  <2>1. m * q2 - m * q = d * m
    BY <1>5
  <2>2. PICK a \in Int, b \in Int, e \in Int : a = m * q2 /\ b = m * q /\ e = d * m
    OBVIOUS
  <2>3. PICK z \in Int : z = x % m
    BY Mod
  <2>4. a - b = e /\ z = x - b /\ y = x + n /\ r = y - a
    BY <2>1, <2>2, <2>3, <1>1, <1>2, <1>3, <1>4, ZenonT(30)
  <2>5. z + n = e + r
    BY <2>4
  <2> QED BY <2>2, <2>3, <2>5, Zenon
<1>7. (d * m + r) % m = r
  OBVIOUS
<1> QED BY <1>2, <1>4, <1>6, <1>7, Zenon

(* A remainder of a small number is the number. *)
LEMMA ModSmall ==
    ASSUME NEW m \in Nat \ {0}, NEW x \in 0 .. m - 1
    PROVE  x % m = x
OBVIOUS

(* PendingAt with its state variables as parameters. *)
Pend(w, l, s, p) ==
    {q \in Threads \X (1 .. MaxBatch) :
        w[q[1]] = p /\ l[q[1]].shard = s /\ q[2] <= Len(l[q[1]].chain)}

(* What thread t adds to it. *)
Part(w, l, t, s, p) == IF w[t] = p /\ l[t].shard = s THEN Len(l[t].chain) ELSE 0

Rest(w, l, t, s, p) == {q \in Pend(w, l, s, p) : q[1] # t}

(* The updates under way are those of t and those of the others. *)
LEMMA PendSplit ==
    ASSUME NEW w, NEW l \in [Threads -> Locs], NEW t \in Threads, NEW s, NEW p,
           Len(l[t].chain) <= MaxBatch, IsFiniteSet(Rest(w, l, t, s, p))
    PROVE  /\ IsFiniteSet(Pend(w, l, s, p))
           /\ Cardinality(Pend(w, l, s, p)) =
                 Cardinality(Rest(w, l, t, s, p)) + Part(w, l, t, s, p)
           /\ Part(w, l, t, s, p) \in Nat
<1> DEFINE n == Part(w, l, t, s, p)
           R == Rest(w, l, t, s, p)
           M == {t} \X (1 .. n)
<1>1. Len(l[t].chain) \in Nat /\ l[t].chain \in Seq(Blocks)
  BY DEF Locs
<1>2. n \in Nat /\ n <= MaxBatch
  BY <1>1, InterconnectAssumption DEF Part
<1>3. Pend(w, l, s, p) = R \cup M
  <2>1. ASSUME NEW q \in Threads \X (1 .. MaxBatch), q[1] = t
        PROVE  q \in Pend(w, l, s, p) <=> q[2] \in 1 .. n
    BY <2>1, <1>1, InterconnectAssumption DEF Pend, Part
  <2>2. M \subseteq Threads \X (1 .. MaxBatch) /\ \A q \in M : q[1] = t /\ q[2] \in 1 .. n
    BY <1>2, InterconnectAssumption
  <2>3. \A q \in Threads \X (1 .. MaxBatch) : q[1] = t /\ q[2] \in 1 .. n => q \in M
    BY Zenon
  <2>4. Pend(w, l, s, p) \subseteq Threads \X (1 .. MaxBatch) /\ R \subseteq Pend(w, l, s, p)
    BY Zenon DEF Pend, Rest
  <2>5. \A q \in Pend(w, l, s, p) : q \in R <=> q[1] # t
    BY Zenon DEF Rest
  <2> HIDE DEF M, R, n
  <2> QED BY <2>1, <2>2, <2>3, <2>4, <2>5, Zenon
<1>4. R \cap M = {}
  BY Zenon DEF Rest
<1>5. IsFiniteSet(M) /\ Cardinality(M) = n
  <2>1. IsFiniteSet(1 .. n) /\ Cardinality(1 .. n) = n
    BY <1>2, FS_Interval
  <2>2. IsFiniteSet({t}) /\ Cardinality({t}) = 1
    BY FS_Singleton, Zenon
  <2>3. IsFiniteSet(M) /\ Cardinality(M) = Cardinality({t}) * Cardinality(1 .. n)
    BY <2>1, <2>2, FS_Product, Zenon
  <2> HIDE DEF n
  <2> QED BY <2>1, <2>2, <2>3, <1>2
<1>6. IsFiniteSet(R \cup M) /\ Cardinality(R \cup M) = Cardinality(R) + Cardinality(M)
  <2>1. /\ IsFiniteSet(R \cup M)
        /\ Cardinality(R \cup M) = Cardinality(R) + Cardinality(M) - Cardinality(R \cap M)
    BY <1>5, FS_Union, Zenon
  <2>2. Cardinality(R \cap M) = 0 /\ Cardinality(R) \in Nat
    BY <1>4, FS_EmptySet, FS_CardinalityType, Zenon
  <2>3. Cardinality(M) \in Nat
    BY <1>5, <1>2, Zenon
  <2> HIDE DEF R, M
  <2> QED BY <2>1, <2>2, <2>3
<1> QED BY <1>2, <1>3, <1>5, <1>6, Zenon

(* A step of t changes what it adds; the rest is as it was. *)
LEMMA RestKept ==
    ASSUME NEW t \in Threads, Others(t), NEW s, NEW p
    PROVE  Rest(pc', loc', t, s, p) = Rest(pc, loc, t, s, p)
BY Zenon DEF Others, Rest, Pend

(* The counter follows the list and the updates under way. *)
LEMMA CountsKept ==
    ASSUME LInv, LInv', Counts, NEW t \in Threads, Others(t),
           \A s \in Shards :
              usage'[s] = (usage[s] + ((Len(stack'[s]) - Part(pc', loc', t, s, "add")
                                                       + Part(pc', loc', t, s, "sub"))
                                       - (Len(stack[s]) - Part(pc, loc, t, s, "add")
                                                        + Part(pc, loc, t, s, "sub")))) % UsageMod
    PROVE  Counts'
<1>1. /\ loc \in [Threads -> Locs] /\ loc' \in [Threads -> Locs] /\ UsageMod \in Nat \ {0}
      /\ Len(loc[t].chain) <= MaxBatch /\ Len(loc'[t].chain) <= MaxBatch
      /\ \A s \in Shards : Len(stack[s]) \in Nat /\ Len(stack'[s]) \in Nat
  <2>1. /\ loc \in [Threads -> Locs] /\ loc' \in [Threads -> Locs]
        /\ stack \in [Shards -> Seq(Blocks)] /\ stack' \in [Shards -> Seq(Blocks)]
    BY Zenon DEF LInv, TypeOK, Locs, Pointers
  <2>2. Len(loc[t].chain) <= MaxBatch /\ Len(loc'[t].chain) <= MaxBatch
    BY Zenon DEF LInv, Local, InShard
  <2>3. \A s \in Shards : Len(stack[s]) \in Nat /\ Len(stack'[s]) \in Nat
    BY <2>1
  <2> QED BY <2>1, <2>2, <2>3, InterconnectAssumption, Zenon
<1>2. ASSUME NEW s, NEW p, IsFiniteSet(PendingAt(s, p))
      PROVE  \E r \in Nat :
                /\ Cardinality(PendingAt(s, p)) = r + Part(pc, loc, t, s, p)
                /\ Cardinality(PendingAt(s, p)') = r + Part(pc', loc', t, s, p)
                /\ IsFiniteSet(PendingAt(s, p)')
                /\ Part(pc, loc, t, s, p) \in Nat /\ Part(pc', loc', t, s, p) \in Nat
  <2>1. PendingAt(s, p) = Pend(pc, loc, s, p) /\ PendingAt(s, p)' = Pend(pc', loc', s, p)
    BY Zenon DEF PendingAt, Pend
  <2>2. Rest(pc, loc, t, s, p) \subseteq Pend(pc, loc, s, p)
    BY Zenon DEF Rest
  <2>3. IsFiniteSet(Rest(pc, loc, t, s, p)) /\ Cardinality(Rest(pc, loc, t, s, p)) \in Nat
    BY <1>2, <2>1, <2>2, FS_Subset, FS_CardinalityType, ZenonT(30)
  <2>4. Rest(pc', loc', t, s, p) = Rest(pc, loc, t, s, p)
    BY RestKept, Zenon
  <2>5. /\ Cardinality(Pend(pc, loc, s, p)) =
             Cardinality(Rest(pc, loc, t, s, p)) + Part(pc, loc, t, s, p)
        /\ Part(pc, loc, t, s, p) \in Nat
    BY <1>1, <2>3, PendSplit, SMTT(30)
  <2>6. /\ Cardinality(Pend(pc', loc', s, p)) =
             Cardinality(Rest(pc, loc, t, s, p)) + Part(pc', loc', t, s, p)
        /\ Part(pc', loc', t, s, p) \in Nat /\ IsFiniteSet(Pend(pc', loc', s, p))
    BY <1>1, <2>3, <2>4, PendSplit
  <2> QED BY <2>1, <2>3, <2>5, <2>6, Zenon
<1>3. ASSUME NEW s \in Shards
      PROVE  /\ IsFiniteSet(PendingAt(s, "add")') /\ IsFiniteSet(PendingAt(s, "sub")')
             /\ usage'[s] = (Len(stack'[s]) - Cardinality(PendingAt(s, "add")')
                                            + Cardinality(PendingAt(s, "sub")')) % UsageMod
  <2>1. PICK a \in Nat, k \in Nat, l \in Nat :
           /\ k = Part(pc, loc, t, s, "add") /\ l = Part(pc', loc', t, s, "add")
           /\ Cardinality(PendingAt(s, "add")) = a + k
           /\ Cardinality(PendingAt(s, "add")') = a + l
           /\ IsFiniteSet(PendingAt(s, "add")')
    BY <1>2, Zenon DEF Counts
  <2>2. PICK b \in Nat, u \in Nat, v \in Nat :
           /\ u = Part(pc, loc, t, s, "sub") /\ v = Part(pc', loc', t, s, "sub")
           /\ Cardinality(PendingAt(s, "sub")) = b + u
           /\ Cardinality(PendingAt(s, "sub")') = b + v
           /\ IsFiniteSet(PendingAt(s, "sub")')
    BY <1>2, Zenon DEF Counts
  <2>3. PICK c \in Nat, d \in Nat : c = Len(stack[s]) /\ d = Len(stack'[s])
    BY <1>1, Zenon
  <2>4. PICK x \in Int, n \in Int : x = c - (a + k) + (b + u) /\ n = (d - l + v) - (c - k + u)
    BY SMTT(30)
  <2>5. usage[s] = x % UsageMod
    BY <2>1, <2>2, <2>3, <2>4, Zenon DEF Counts, UsageAccounted
  <2>6. usage'[s] = (usage[s] + n) % UsageMod
    BY <2>1, <2>2, <2>3, <2>4, Zenon
  <2>7. usage'[s] = (x + n) % UsageMod
    BY <1>1, <2>5, <2>6, ModAdd, ZenonT(30)
  <2>8. x + n = d - (a + l) + (b + v)
    BY <2>4
  <2> QED BY <2>1, <2>2, <2>3, <2>7, <2>8, ZenonT(30)
<1> QED BY <1>3, SMTT(20) DEF Counts, UsageAccounted

(* Every step is one thread's. *)
LEMMA OneThread ==
    ASSUME TypeOK, NEW t \in Threads, Call(t) \/ Advance(t) \/ Swing(t)
    PROVE  Others(t)
<1>0. pc \in [Threads -> PCs] /\ DOMAIN loc = Threads
  BY SMTT(20) DEF TypeOK
<1>1. CASE Call(t)
  BY <1>0, <1>1, Zenon DEF Call, Relink, PushCall, PopCall, Goto, Others
<1>2. CASE Advance(t)
  BY Zenon, <1>0, <1>2
  DEF Advance, PushLoad, PushLink, PushCasFail, PushAdd, PopCheck, PopLoad, PopWalk, PopNew,
      PopCasFail, PopSub, PopSeal, NextVictim, Return, Goto, Others
<1>3. CASE Swing(t)
  BY <1>0, <1>3, Zenon DEF Swing, PushCasOk, PopCasOk, Goto, Others
<1> QED BY <1>1, <1>2, <1>3, Zenon

(* Two steps update the counter. *)
LEMMA Updates ==
    ASSUME TypeOK, NEW t \in Threads, Call(t) \/ Advance(t), ~PushAdd(t), ~PopSub(t)
    PROVE  /\ pc[t] \notin {"add", "sub"} /\ pc'[t] \notin {"add", "sub"}
           /\ UNCHANGED <<usage, stack, own>>
<1>0. pc \in [Threads -> PCs]
  BY SMTT(20) DEF TypeOK
<1>1. CASE Call(t)
  BY <1>0, <1>1, Zenon DEF Call, Relink, PushCall, PopCall, Goto
<1>2. CASE Advance(t)
  BY <1>0, <1>2, Zenon DEF Advance, PushLoad, PushLink, PushCasFail, PopCheck, PopLoad, PopWalk,
                    PopNew, PopCasFail, PopSeal, NextVictim, Return, Goto
<1> QED BY <1>1, <1>2, Zenon

(* Every timely step keeps the count. *)
LEMMA CountsNext ==
    ASSUME LInv, LInv', Counts, [TimelyNext]_vars
    PROVE  Counts'
<1>1. CASE UNCHANGED vars
  BY <1>1, ZenonT(30) DEF vars, Counts, UsageAccounted, PendingAt
<1>2. ASSUME NEW t \in Threads, Call(t) \/ Advance(t) \/ (Timely(t) /\ Swing(t))
      PROVE  Counts'
  <2>1. TypeOK /\ TypeOK' /\ Others(t)
    BY <1>2, OneThread, Zenon DEF LInv
  <2> DEFINE D(s) == (Len(stack'[s]) - Part(pc', loc', t, s, "add") + Part(pc', loc', t, s, "sub"))
                     - (Len(stack[s]) - Part(pc, loc, t, s, "add") + Part(pc, loc, t, s, "sub"))
  <2> SUFFICES ASSUME NEW s \in Shards
               PROVE  usage'[s] = (usage[s] + D(s)) % UsageMod
    BY <2>1, CountsKept, Zenon
  <2>2. PICK k \in Nat, u \in 0 .. UsageMod - 1, n \in Nat :
           k = Len(stack[s]) /\ u = usage[s] /\ n = Len(loc[t].chain)
    BY <2>1, SMTT(30) DEF TypeOK
  <2>3. UsageMod \in Nat \ {0} /\ u % UsageMod = u
    BY InterconnectAssumption, ModSmall, Zenon
  <2>4. CASE /\ UNCHANGED <<usage, stack>>
             /\ pc[t] \notin {"add", "sub"} /\ pc'[t] \notin {"add", "sub"}
    <3>1. D(s) = (k - 0 + 0) - (k - 0 + 0)
      BY <2>2, <2>4, Zenon DEF Part
    <3>2. u + D(s) = u
      BY <3>1
    <3> HIDE DEF D
    <3> QED BY <2>2, <2>3, <2>4, <3>2, Zenon
  <2>5. CASE PushAdd(t)
    <3>1. /\ stack' = stack /\ pc[t] = "add" /\ pc'[t] = "idle"
          /\ usage'[s] = IF s = loc[t].shard THEN (u + n) % UsageMod ELSE u
      BY <2>1, <2>2, <2>5, Zenon DEF PushAdd, Return, Goto, TypeOK
    <3>2. D(s) = (k - 0 + 0) - (k - Part(pc, loc, t, s, "add") + 0)
      BY <2>2, <3>1, Zenon DEF Part
    <3>3. Part(pc, loc, t, s, "add") = IF s = loc[t].shard THEN n ELSE 0
      BY <2>2, <3>1, Zenon DEF Part
    <3>4. D(s) = IF s = loc[t].shard THEN n ELSE 0
      BY <3>2, <3>3
    <3> HIDE DEF D
    <3> QED BY <2>2, <2>3, <3>1, <3>4
  <2>6. CASE PopSub(t)
    <3>1. /\ stack' = stack /\ pc[t] = "sub" /\ pc'[t] = "seal"
          /\ usage'[s] = IF s = loc[t].shard THEN (u - n) % UsageMod ELSE u
      BY <2>1, <2>2, <2>6, Zenon DEF PopSub, Return, Goto, TypeOK
    <3>2. D(s) = (k - 0 + 0) - (k - 0 + Part(pc, loc, t, s, "sub"))
      BY <2>2, <3>1, Zenon DEF Part
    <3>3. Part(pc, loc, t, s, "sub") = IF s = loc[t].shard THEN n ELSE 0
      BY <2>2, <3>1, Zenon DEF Part
    <3>4. D(s) = IF s = loc[t].shard THEN 0 - n ELSE 0
      BY <3>2, <3>3
    <3>5. u + (0 - n) = u - n /\ u + 0 = u
      OBVIOUS
    <3> HIDE DEF D
    <3> QED BY <2>2, <2>3, <3>1, <3>4, <3>5, Zenon
  <2>7. CASE PushCasOk(t)
    <3>1. /\ usage' = usage /\ loc' = loc /\ pc[t] = "pushcas" /\ pc'[t] = "add"
          /\ stack'[s] = IF s = loc[t].shard THEN loc[t].chain \o stack[s] ELSE stack[s]
      BY <2>1, <2>7, ZenonT(30) DEF PushCasOk, Goto, TypeOK
    <3>2. Len(stack'[s]) = IF s = loc[t].shard THEN n + k ELSE k
      BY <2>1, <2>2, <3>1 DEF TypeOK
    <3>3. Part(pc', loc', t, s, "add") = IF s = loc[t].shard THEN n ELSE 0
      BY <2>2, <3>1, Zenon DEF Part
    <3>4. D(s) = (Len(stack'[s]) - Part(pc', loc', t, s, "add") + 0) - (k - 0 + 0)
      BY <2>2, <3>1, Zenon DEF Part
    <3>5. u + D(s) = u
      BY <3>2, <3>3, <3>4
    <3> HIDE DEF D
    <3> QED BY <2>2, <2>3, <3>1, <3>5, Zenon
  <2>8. CASE PopCasOk(t)
    <3>1. /\ usage' = usage /\ loc' = loc /\ pc[t] = "popcas" /\ pc'[t] = "sub"
          /\ stack'[s] = IF s = loc[t].shard THEN SubSeq(stack[s], n + 1, k) ELSE stack[s]
      BY <2>1, <2>2, <2>8, SMTT(20) DEF PopCasOk, Goto, TypeOK
    <3>2. s = loc[t].shard => n <= k
      BY <2>2, <2>8, Zenon DEF PopCasOk, LInv, Local, Pops, Popping, IsPre
    <3>3. Len(stack'[s]) = IF s = loc[t].shard THEN k - n ELSE k
      <4>1. stack[s] \in Seq(Blocks)
        BY <2>1, Zenon DEF TypeOK
      <4>2. ASSUME NEW z \in Seq(Blocks), n <= Len(z)
            PROVE  Len(SubSeq(z, n + 1, Len(z))) = Len(z) - n
        BY <4>2
      <4> QED BY <2>2, <3>1, <3>2, <4>1, <4>2, Zenon
    <3>4. Part(pc', loc', t, s, "sub") = IF s = loc[t].shard THEN n ELSE 0
      BY <2>2, <3>1, Zenon DEF Part
    <3>5. D(s) = (Len(stack'[s]) - 0 + Part(pc', loc', t, s, "sub")) - (k - 0 + 0)
      BY <2>2, <3>1, Zenon DEF Part
    <3>6. u + D(s) = u
      BY <3>3, <3>4, <3>5
    <3> HIDE DEF D
    <3> QED BY <2>2, <2>3, <3>1, <3>6, ZenonT(30)
  <2> HIDE DEF D
  <2> QED BY <1>2, <2>1, <2>4, <2>5, <2>6, <2>7, <2>8, Updates, Zenon DEF Swing
<1> QED BY <1>1, <1>2, Zenon DEF TimelyNext

(* At first the counters are zero. *)
LEMMA CountsInit == Init => Counts
<1> SUFFICES ASSUME Init
             PROVE  Counts
  BY Zenon
<1>1. \A s, p : p # "idle" => PendingAt(s, p) = {}
  BY Zenon DEF Init, PendingAt
<1>2. IsFiniteSet({}) /\ Cardinality({}) = 0
  BY FS_EmptySet, Zenon
<1>3. UsageMod \in Nat \ {0} /\ 0 % UsageMod = 0
  BY InterconnectAssumption
<1>4. \A s \in Shards : usage[s] = 0 /\ Len(stack[s]) = 0
  BY Zenon DEF Init
<1>5. \A s \in Shards : PendingAt(s, "add") = {} /\ PendingAt(s, "sub") = {}
  BY <1>1, Zenon
<1>6. 0 - 0 + 0 = 0
  OBVIOUS
<1> QED BY <1>2, <1>3, <1>4, <1>5, <1>6, Zenon DEF Counts, UsageAccounted

-----------------------------------------------------------------------------
(* A pop that runs alone. *)

(* A shard holds no more blocks than there are, so its count tells an      *)
(* empty shard from a full turn of the counter.                            *)
LEMMA StackBound ==
    ASSUME TypeOK, Apart, NEW s \in Shards
    PROVE  Len(stack[s]) \in Nat /\ Len(stack[s]) < UsageMod
<1> DEFINE k == stack[s]
           n == Len(k)
<1>1. k \in [1 .. n -> Blocks] /\ IsInjective(k) /\ n \in Nat
  BY DEF TypeOK, Apart
<1>2. k \in Injection(1 .. n, Blocks)
  BY <1>1, Zenon DEF Injection
<1>3. IsFiniteSet(Blocks) /\ Cardinality(Blocks) \in Nat
  BY InterconnectAssumption, FS_CardinalityType, Zenon
<1>4. Cardinality(1 .. n) <= Cardinality(Blocks)
  BY <1>2, <1>3, FS_Injection, Zenon
<1>5. ASSUME NEW m \in Nat
      PROVE  Cardinality(1 .. m) = m
  BY FS_Interval
<1> QED BY <1>1, <1>3, <1>4, <1>5, InterconnectAssumption

(* Such a pop is turned away from a shard only if it is empty. *)
LEMMA TurnedAway ==
    ASSUME LInv, Counts, NEW t \in Threads, Alone(t), PopCheck(t) \/ PopLoad(t),
           PopCheck(t) => usage[loc[t].shard] = 0,
           PopLoad(t) => head[loc[t].shard].ptr = Null
    PROVE  /\ loc[t].shard \in Shards /\ stack[loc[t].shard] = <<>>
           /\ loc[t].cpu \in Shards /\ loc[t].victim \in Shards
           /\ loc[t].shard = (loc[t].cpu + loc[t].victim) % ncpu
<1> DEFINE s == loc[t].shard
<1>1. /\ TypeOK /\ Apart /\ Lists /\ Local(t) /\ pc[t] \in {"check", "popload"} /\ s \in Shards
  BY Zenon DEF LInv, PopCheck, PopLoad, Local, InShard
<1>2. /\ loc[t].victim \in Shards /\ loc[t].cpu \in Shards
      /\ s = (loc[t].cpu + loc[t].victim) % ncpu
  <2>1. loc[t].victim \in Shards
        /\ IF loc[t].victim = 0 THEN s = loc[t].cpu
           ELSE loc[t].cpu \in Shards /\ s = (loc[t].cpu + loc[t].victim) % ncpu
    BY <1>1, Zenon DEF Local, InShard
  <2>2. CASE loc[t].victim = 0
    <3>1. s % ncpu = s /\ s + 0 = s
      BY <1>1, ShardCount, ModSmall DEF Shards
    <3> QED BY <1>1, <2>1, <2>2, <3>1, ZenonT(30)
  <2>3. CASE loc[t].victim # 0
    BY <2>1, <2>3, Zenon
  <2> QED BY <2>2, <2>3, Zenon
<1>3. stack[s] \in Seq(Blocks)
  BY <1>1, SMTT(20) DEF TypeOK
<1>4. CASE PopLoad(t)
  <2>1. Spells(next, Null, stack[s])
    BY <1>1, <1>4, Zenon DEF Lists
  <2>2. stack[s] = <<>> \/ stack[s][1] \in Blocks
    BY <1>3
  <2> QED BY <1>1, <1>2, <2>1, <2>2, InterconnectAssumption, Zenon DEF Spells
<1>5. CASE PopCheck(t)
  <2>1. \A p \in {"add", "sub"} : PendingAt(s, p) = {}
    BY <1>1, Zenon DEF PendingAt, Alone
  <2>2. PendingAt(s, "add") = {} /\ PendingAt(s, "sub") = {}
    BY <2>1, Zenon
  <2>3. Cardinality(PendingAt(s, "add")) = 0 /\ Cardinality(PendingAt(s, "sub")) = 0
    BY <2>2, FS_EmptySet, Zenon
  <2>4. PICK n \in 0 .. UsageMod - 1 : n = Len(stack[s])
    BY <1>1, StackBound, InterconnectAssumption
  <2>5. usage[s] = (n - 0 + 0) % UsageMod
    BY <1>1, <2>3, <2>4, Zenon DEF Counts, UsageAccounted
  <2>6. n - 0 + 0 = n /\ n % UsageMod = n
    BY ModSmall, InterconnectAssumption
  <2>7. Len(stack[s]) = 0
    BY <1>5, <2>4, <2>5, <2>6, Zenon
  <2> QED BY <1>1, <1>2, <1>3, <2>7
<1> QED BY <1>4, <1>5, Zenon

(* Only the two loads can turn a pop away. *)
LEMMA Alike ==
    ASSUME LInv, NEW t \in Threads, Advance(t)
    PROVE  \/ PopCheck(t) /\ usage[loc[t].shard] = 0 /\ NextVictim(t)
           \/ PopLoad(t) /\ head[loc[t].shard].ptr = Null /\ NextVictim(t)
           \/ pc'[t] \in {"check", "popload", "walk", "new", "popcas"} =>
                 /\ pc[t] \in {"check", "popload", "walk", "new", "popcas"}
                 /\ loc'[t].cpu = loc[t].cpu /\ loc'[t].victim = loc[t].victim
<1>0. pc \in [Threads -> PCs] /\ loc \in [Threads -> Locs] /\ loc[t] \in Locs
  BY Zenon DEF LInv, TypeOK, Locs, Pointers
<1>1. CASE PushLoad(t) \/ PushLink(t) \/ PushCasFail(t) \/ PushAdd(t) \/ PopSub(t) \/ PopSeal(t)
  BY <1>0, <1>1, Zenon DEF PushLoad, PushLink, PushCasFail, PushAdd, PopSub, PopSeal, Return, Goto
<1>2. CASE PopCheck(t)
  BY <1>0, <1>2, Zenon DEF PopCheck, Goto
<1>3. CASE PopLoad(t)
  BY <1>0, <1>3 DEF PopLoad, Goto, Locs
<1>4. CASE PopWalk(t)
  BY <1>0, <1>4 DEF PopWalk, Goto, Locs
<1>5. CASE PopNew(t)
  BY <1>0, <1>5, Zenon DEF PopNew, Goto, Locs
<1>6. CASE PopCasFail(t)
  BY <1>0, <1>6, Zenon DEF PopCasFail, Goto, Locs
<1> QED BY <1>1, <1>2, <1>3, <1>4, <1>5, <1>6, ZenonT(30) DEF Advance

(* A step inside a call is not an idle thread's. *)
LEMMA Busy ==
    ASSUME NEW t \in Threads, Advance(t) \/ Swing(t)
    PROVE  pc[t] # "idle" /\ UNCHANGED calm
BY Zenon DEF Advance, Swing, PushLoad, PushLink, PushCasFail, PushAdd, PopCheck, PopLoad, PopWalk,
       PopNew, PopCasFail, PopSub, PopSeal, PushCasOk, PopCasOk

(* Whatever is done, a pop that runs alone leaves only empty shards behind. *)
LEMMA CalmsNext ==
    ASSUME LInv, Counts, Calms, [TimelyNext]_vars
    PROVE  Calms'
<1> DEFINE Asks == {"check", "popload", "walk", "new", "popcas"}
<1>1. CASE UNCHANGED vars
  BY <1>1, ZenonT(30) DEF vars, Calms, Alone
<1>2. ASSUME NEW t \in Threads, Call(t)
      PROVE  Calms'
  <2>1. Others(t) /\ TypeOK /\ pc \in [Threads -> PCs] /\ loc \in [Threads -> Locs]
    BY <1>2, OneThread, Zenon DEF LInv, TypeOK, Locs, Pointers
  <2>2. ASSUME NEW b \in own[t], NEW n \in own[t] \cup {Null}, Relink(t, b, n), UNCHANGED calm
        PROVE  Calms'
    BY <2>2, Zenon DEF Relink, Calms, Alone
  <2>3. ASSUME NEW n \in 1 .. MaxBatch, NEW cpu \in get_cpu_id, PopCall(t, n, cpu),
               calm' = IF Alone(t) THEN {t} ELSE {}
        PROVE  Calms'
    <3>1. Alone(t) => Alone(t)'
      BY <2>1, Zenon DEF Others, Alone
    <3>2. loc'[t].victim = 0
      BY <2>1, <2>3, Zenon DEF PopCall, NoLoc
    <3>3. 0 .. loc'[t].victim - 1 = {}
      BY <3>2, SMTT(20)
    <3> QED BY <2>3, <3>1, <3>3, Zenon DEF Calms
  <2> QED BY <1>2, <2>2, <2>3, SMTT(20) DEF Call, Calms
<1>3. ASSUME NEW t \in Threads, Advance(t) \/ Swing(t)
      PROVE  Calms'
  <2>1. /\ Others(t) /\ TypeOK /\ pc[t] # "idle" /\ calm' = calm
        /\ pc \in [Threads -> PCs] /\ loc \in [Threads -> Locs] /\ loc[t] \in Locs
    BY <1>3, OneThread, Busy, Zenon DEF LInv, TypeOK, Locs, Pointers
  <2> SUFFICES ASSUME NEW u \in calm
               PROVE  /\ calm = {u} /\ Alone(u)'
                      /\ pc'[u] \in Asks =>
                            \A j \in 0 .. loc'[u].victim - 1 :
                               stack'[(loc'[u].cpu + j) % ncpu] = <<>>
    BY <2>1, Zenon DEF Calms
  <2>2. u = t /\ Alone(t) /\ calm = {u}
    BY <2>1, Zenon DEF Calms, Alone
  <2>3. Alone(t)'
    BY <2>1, <2>2, Zenon DEF Others, Alone
  <2>4. ASSUME pc[t] \in Asks
        PROVE  \A j \in 0 .. loc[t].victim - 1 : stack[(loc[t].cpu + j) % ncpu] = <<>>
    BY <2>2, <2>4, SMTT(20) DEF Calms
  <2>5. CASE Swing(t)
    BY <2>1, <2>2, <2>3, <2>5, Zenon DEF Swing, PushCasOk, PopCasOk, Goto
  <2>6. CASE Advance(t) /\ NextVictim(t) /\ (PopCheck(t) \/ PopLoad(t))
                        /\ (PopCheck(t) => usage[loc[t].shard] = 0)
                        /\ (PopLoad(t) => head[loc[t].shard].ptr = Null)
    <3>1. /\ stack[loc[t].shard] = <<>> /\ loc[t].victim \in Shards
          /\ loc[t].shard = (loc[t].cpu + loc[t].victim) % ncpu
      BY <2>2, <2>6, TurnedAway, Zenon
    <3>2. pc[t] \in Asks /\ stack' = stack
      BY <2>6, Zenon DEF PopCheck, PopLoad
    <3>3. \/ loc'[t].victim = loc[t].victim + 1 /\ loc'[t].cpu = loc[t].cpu
          \/ pc'[t] = "idle"
      BY <2>1, <2>6 DEF NextVictim, Return, Goto, Locs
    <3>4. \A j \in 0 .. loc[t].victim : j = loc[t].victim \/ j \in 0 .. loc[t].victim - 1
      BY <2>1 DEF Locs
    <3>5. loc'[t].victim = loc[t].victim + 1 => loc'[t].victim - 1 = loc[t].victim
      BY <2>1 DEF Locs
    <3>6. \A j \in 0 .. loc[t].victim : stack[(loc[t].cpu + j) % ncpu] = <<>>
      BY <2>4, <3>1, <3>2, <3>4, ZenonT(30)
    <3> QED BY <2>2, <2>3, <3>2, <3>3, <3>5, <3>6, ZenonT(30)
  <2>7. CASE pc'[t] \in Asks => /\ pc[t] \in Asks /\ stack' = stack
                                /\ loc'[t].cpu = loc[t].cpu /\ loc'[t].victim = loc[t].victim
    BY <2>2, <2>3, <2>4, <2>7, SMTT(20)
  <2>8. ASSUME Advance(t)
        PROVE  stack' = stack /\ ~(PopCheck(t) /\ PopLoad(t))
    BY <2>8, Zenon DEF Advance, PushLoad, PushLink, PushCasFail, PushAdd, PopCheck, PopLoad, PopWalk,
                PopNew, PopCasFail, PopSub, PopSeal
  <2> QED BY <1>3, <2>5, <2>6, <2>7, <2>8, Alike, ZenonT(30)
<1> QED BY <1>1, <1>2, <1>3, Zenon DEF TimelyNext

(* The victims of a pop are all shards. *)
LEMMA AllShards ==
    ASSUME NEW c \in Shards, NEW s \in Shards
    PROVE  \E j \in 0 .. ncpu - 1 : s = (c + j) % ncpu
<1>1. PICK n \in Nat \ {0} : n = ncpu
  BY ShardCount, Zenon
<1>2. c \in 0 .. n - 1 /\ s \in 0 .. n - 1
  BY <1>1, Zenon DEF Shards
<1>3. CASE c <= s
  <2>1. PICK j \in 0 .. n - 1 : j = s - c
    BY <1>2, <1>3
  <2>2. c + j = s /\ s % n = s
    BY <1>2, <2>1, ModSmall
  <2> QED BY <1>1, <2>2, Zenon
<1>4. CASE c > s
  <2>1. PICK j \in 0 .. n - 1 : j = s - c + n
    BY <1>2, <1>4
  <2>2. c + j = 1 * n + s /\ (1 * n + s) % n = s
    BY <1>2, <2>1
  <2> QED BY <1>1, <2>2, Zenon
<1> QED BY <1>2, <1>3, <1>4

(* The step that NullOnlyWhenEmpty is about. *)
LEMMA NullStep ==
    ASSUME IInv, [TimelyNext]_vars, NEW t \in calm, pc[t] \in {"check", "popload"},
           pc'[t] = "idle", NEW s \in Shards
    PROVE  stack[s] = <<>>
<1>1. LInv /\ Counts /\ Calms /\ TypeOK /\ t \in Threads /\ Alone(t)
  <2>1. LInv /\ Counts /\ Calms /\ TypeOK
    BY Zenon DEF IInv, LInv
  <2>2. t \in Threads
    BY <2>1, Zenon DEF TypeOK
  <2> QED BY <2>1, <2>2, Zenon DEF Calms
<1>2. PICK u \in Threads : Call(u) \/ Advance(u) \/ Swing(u)
  BY Zenon DEF TimelyNext, vars
<1>3. u = t
  BY <1>1, <1>2, OneThread, Zenon DEF Others
<1>4. Advance(t)
  BY <1>1, <1>2, <1>3, Zenon DEF Call, Swing, Relink, PushCall, PopCall, PushCasOk, PopCasOk
<1>5. /\ NextVictim(t) /\ (PopCheck(t) \/ PopLoad(t))
      /\ (PopCheck(t) => usage[loc[t].shard] = 0) /\ (PopLoad(t) => head[loc[t].shard].ptr = Null)
  BY <1>1, <1>4, Zenon DEF Advance, PushLoad, PushLink, PushCasFail, PushAdd, PopCheck, PopLoad, PopWalk,
                    PopNew, PopCasFail, PopSub, PopSeal, Goto, TypeOK
<1>6. /\ stack[loc[t].shard] = <<>> /\ loc[t].cpu \in Shards /\ loc[t].victim \in Shards
      /\ loc[t].shard = (loc[t].cpu + loc[t].victim) % ncpu
  BY <1>1, <1>5, TurnedAway, Zenon
<1>7. loc[t].victim = ncpu - 1
  <2>1. loc[t].victim + 1 >= ncpu
    BY <1>1, <1>5, Zenon DEF NextVictim, Goto, TypeOK
  <2> QED BY <2>1, <1>6, ShardCount DEF Shards
<1>8. PICK j \in 0 .. ncpu - 1 : s = (loc[t].cpu + j) % ncpu
  BY <1>6, AllShards, Zenon
<1>9. CASE j = loc[t].victim
  BY <1>6, <1>8, <1>9, Zenon
<1>10. CASE j # loc[t].victim
  <2>1. j \in 0 .. loc[t].victim - 1
    BY <1>7, <1>8, <1>10, ShardCount
  <2> QED BY <1>1, <1>8, <2>1, Zenon DEF Calms
<1> QED BY <1>9, <1>10, SMTT(20)

-----------------------------------------------------------------------------
(* The cache is a pool. *)

(* IInv is an invariant. *)
LEMMA Invariance == TimelySpec => []IInv
<1>1. Init => IInv
  BY ListsInit, CountsInit, Zenon DEF Init, IInv, Calms
<1>2. IInv /\ [TimelyNext]_vars => IInv'
  BY ListsNext, CountsNext, CalmsNext, Zenon DEF IInv
<1> QED BY <1>1, <1>2, PTL DEF TimelySpec

(* The links of every shard spell out the blocks pushed and not popped     *)
(* since, whatever try_push, pop and the owners of other blocks write.     *)
THEOREM ListsIntact == TimelySpec => []WellLinked
<1>1. IInv => WellLinked
  <2> SUFFICES ASSUME IInv
               PROVE  WellLinked
    BY Zenon
  <2>1. TypeOK /\ Lists
    BY Zenon DEF IInv, LInv
  <2> QED BY <2>1, Zenon DEF Lists, Spells, WellLinked, Linked, Last
<1> QED BY <1>1, Invariance, PTL

(* fetch_add and fetch_sub lose no block and count none twice: the counter *)
(* of a shard is its length up to the updates still under way.             *)
THEOREM CounterExact == TimelySpec => []UsageAccounted
<1>1. IInv => UsageAccounted
  BY Zenon DEF IInv, Counts
<1> QED BY <1>1, Invariance, PTL

(* A pop that runs alone returns null only if every shard is empty: the    *)
(* counters and heads it reads turn it away from no block, and its victims *)
(* are all the shards.                                                     *)
THEOREM NullMeansEmpty == TimelySpec => NullOnlyWhenEmpty
<1>1. IInv /\ [TimelyNext]_vars =>
         [\A t \in calm : pc[t] \in {"check", "popload"} /\ pc'[t] = "idle" =>
              \A s \in Shards : stack[s] = <<>>]_vars
  BY NullStep, Zenon
<1> QED BY <1>1, Invariance, PTL DEF TimelySpec, NullOnlyWhenEmpty

(* A push's exchange is a Put of the pool. *)
LEMMA PutStep ==
    ASSUME IInv, NEW t \in Threads, PushCasOk(t)
    PROVE  Promise!Next
<1> DEFINE c == loc[t].chain
<1>1. /\ TypeOK /\ c \in Seq(Blocks) /\ c # <<>> /\ Range(c) \subseteq own[t]
      /\ own' = [own EXCEPT ![t] = @ \ Range(c)]
  BY Zenon DEF IInv, LInv, TypeOK, Local, Pushes, PushCasOk
<1>2. Range(c) \in (SUBSET Blocks) \ {{}}
  <2>1. c[1] \in Range(c) /\ Range(c) \subseteq Blocks
    BY <1>1 DEF Range
  <2> QED BY <2>1, Zenon
<1>3. Promise!Put(t, Range(c))
  BY <1>1, Zenon DEF Promise!Put
<1> QED BY <1>2, <1>3, SMTT(20) DEF Promise!Next

(* A pop's exchange is a Take of the pool. *)
LEMMA TakeStep ==
    ASSUME IInv, NEW t \in Threads, PopCasOk(t)
    PROVE  Promise!Next
<1> DEFINE c == loc[t].chain
           k == stack[loc[t].shard]
<1>1. /\ TypeOK /\ Apart /\ c \in Seq(Blocks) /\ c # <<>> /\ IsPre(c, k) /\ loc[t].shard \in Shards
      /\ own' = [own EXCEPT ![t] = @ \cup Range(c)]
  BY Zenon DEF IInv, LInv, TypeOK, Local, Pops, Popping, InShard, PopCasOk
<1>2. Range(c) \in (SUBSET Blocks) \ {{}}
  <2>1. c[1] \in Range(c) /\ Range(c) \subseteq Blocks
    BY <1>1 DEF Range
  <2> QED BY <2>1, Zenon
<1>3. Range(c) \subseteq Range(k)
  BY <1>1, RestSet, SMTT(20) DEF TypeOK, Apart
<1>4. Range(c) \subseteq Promise!Pooled
  BY <1>1, <1>2, <1>3 DEF Apart, Promise!Pooled
<1>5. Promise!Take(t, Range(c))
  BY <1>1, <1>4, Zenon DEF Promise!Take
<1> QED BY <1>2, <1>5, Zenon DEF Promise!Next

(* The shards together are a pool: a push's exchange puts the blocks of    *)
(* its chain, a pop's takes blocks that nobody has, and no other step is   *)
(* seen from outside.  No block is handed to two threads.                  *)
THEOREM CacheIsPool == TimelySpec => ImplementsGlobalPool
<1>1. Init => Promise!Init
  BY Zenon DEF Init, Promise!Init
<1>2. IInv /\ [TimelyNext]_vars => [Promise!Next]_own
  <2> SUFFICES ASSUME IInv, [TimelyNext]_vars
               PROVE  Promise!Next \/ own' = own
    BY Zenon
  <2>1. CASE UNCHANGED vars
    BY <2>1, Zenon DEF vars
  <2>2. ASSUME NEW t \in Threads, Call(t) \/ Advance(t)
        PROVE  own' = own
    BY <2>2, Zenon
    DEF Call, Advance, Relink, PushCall, PopCall, PushLoad, PushLink, PushCasFail, PushAdd,
        PopCheck, PopLoad, PopWalk, PopNew, PopCasFail, PopSub, PopSeal
  <2>3. ASSUME NEW t \in Threads, Swing(t)
        PROVE  Promise!Next
    BY <2>3, PutStep, TakeStep, Zenon DEF Swing
  <2> QED BY <2>1, <2>2, <2>3, Zenon DEF TimelyNext
<1> QED BY <1>1, <1>2, Invariance, PTL DEF TimelySpec, ImplementsGlobalPool, Promise!Spec
=============================================================================
