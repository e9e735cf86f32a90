---------------------------- MODULE Interconnect ----------------------------
(***************************************************************************)
(* The InterConnect cache (InterConnectCache, slab/interconnect.rs, in the *)
(* default build): per CPU and size class a lock-free stack of free        *)
(* blocks.  The head of a stack is one word, a block and a tag of          *)
(* ABA_TAG_BITS bits that every change of the head increments; a push      *)
(* links a chain of blocks in front of it, a pop walks down at most        *)
(* `batch' blocks and swings the head past them.  Each step below makes at *)
(* most one access to shared memory.  `usage' counts the blocks of a       *)
(* shard, apart from the head and after it.                                *)
(*                                                                         *)
(* One size class is modelled; the classes share no state.                 *)
(***************************************************************************)
EXTENDS Integers, Sequences, FiniteSets, Functions

CONSTANTS Threads,           \* the threads of the program
          Blocks,            \* the blocks of the size class
          Affinity,          \* the CPUs the process may run on
          TagMod,            \* 2^ABA_TAG_BITS
          UsageMod,          \* 2^(bits of usize)
          MaxBatch,          \* longest chain pushed or popped at once
          SpuriousFailures   \* may compare_exchange_weak fail for no reason?

Null == "null"             \* the null pointer: no block

(* get_cpu_count: the size of the affinity mask is the number of shards. *)
ncpu == Cardinality(Affinity)

Shards == 0 .. ncpu - 1

ASSUME InterconnectAssumption ==
    /\ Null \notin Blocks
    /\ Affinity \subseteq Nat
    /\ ncpu \in Nat \ {0}
    /\ TagMod \in Nat \ {0, 1}
    /\ UsageMod \in Nat \ {0}
    /\ IsFiniteSet(Blocks) /\ Cardinality(Blocks) < UsageMod
    /\ MaxBatch \in Nat \ {0}
    /\ SpuriousFailures \in BOOLEAN

VARIABLES head,   \* head[s]: the head word of shard s, a block and a tag
          usage,  \* usage[s]: the block count of shard s
          next,   \* next[b]: the link in the header of block b
          stack,  \* history: the blocks shard s holds, from its head on
          own,    \* own[t]: the free blocks thread t has to itself
          pc,     \* where thread t is
          loc,    \* the locals of thread t
          calm    \* history: the thread whose pop began alone and undisturbed

vars == <<head, usage, next, stack, own, pc, loc, calm>>

(* The locals: the CPU and how many victims follow it; the shard at hand;  *)
(* `batch'; the head word read; the chain pushed, or walked down so far;   *)
(* the block behind the chain walked.                                      *)
NoWord == [ptr |-> Null, tag |-> 0]

NoLoc == [cpu |-> 0, victim |-> 0, shard |-> 0, batch |-> 0, cur |-> NoWord,
          chain |-> <<>>, new |-> Null]

Init ==
    /\ head = [s \in Shards |-> NoWord]
    /\ usage = [s \in Shards |-> 0]
    /\ next = [b \in Blocks |-> Null]
    /\ stack = [s \in Shards |-> <<>>]
    /\ \E owner \in [Blocks -> Threads] :
          own = [t \in Threads |-> {b \in Blocks : owner[b] = t}]
    /\ pc = [t \in Threads |-> "idle"]
    /\ loc = [t \in Threads |-> NoLoc]
    /\ calm = {}

(* The last block of a chain. *)
Last(c) == c[Len(c)]

Goto(t, p) == pc' = [pc EXCEPT ![t] = p]

Return(t) == Goto(t, "idle") /\ loc' = [loc EXCEPT ![t] = NoLoc]

(* head_pack: the tag of a new head is the next one, modulo its width. *)
head_pack(b, word) == [ptr |-> b, tag |-> (word.tag + 1) % TagMod]

-----------------------------------------------------------------------------
(* The owner of free blocks links them as it likes: thread lists, fresh    *)
(* chains of init_blocks.  A walk in progress may still read these links.  *)
Relink(t, b, n) ==
    /\ pc[t] = "idle"
    /\ next' = [next EXCEPT ![b] = n]
    /\ UNCHANGED <<head, usage, stack, own, pc, loc>>

-----------------------------------------------------------------------------
(* try_push of the chain c, linked by its owner. *)

Linked(c) == \A i \in 1 .. Len(c) - 1 : next[c[i]] = c[i + 1]

Chains(S) == {c \in UNION {[1 .. n -> S] : n \in 1 .. MaxBatch} : IsInjective(c)}

PushCall(t, c, cpu) ==
    /\ pc[t] = "idle"
    /\ Linked(c)
    /\ loc' = [loc EXCEPT ![t] = [NoLoc EXCEPT !.shard = cpu, !.chain = c]]
    /\ Goto(t, "pushload")
    /\ UNCHANGED <<head, usage, next, stack, own>>

PushLoad(t) ==
    /\ pc[t] = "pushload"
    /\ loc[t].shard \in Shards
    /\ loc' = [loc EXCEPT ![t].cur = head[loc[t].shard]]
    /\ Goto(t, "link")
    /\ UNCHANGED <<head, usage, next, stack, own>>

PushLink(t) ==
    /\ pc[t] = "link"
    /\ next' = [next EXCEPT ![Last(loc[t].chain)] = loc[t].cur.ptr]
    /\ Goto(t, "pushcas")
    /\ UNCHANGED <<head, usage, stack, own, loc>>

PushCasOk(t) ==
    LET l == loc[t]
    IN  /\ pc[t] = "pushcas"
        /\ head[l.shard] = l.cur
        /\ head' = [head EXCEPT ![l.shard] = head_pack(l.chain[1], l.cur)]
        /\ stack' = [stack EXCEPT ![l.shard] = l.chain \o @]
        /\ own' = [own EXCEPT ![t] = @ \ Range(l.chain)]
        /\ Goto(t, "add")
        /\ UNCHANGED <<usage, next, loc>>

(* Mutant: the tail is linked once, outside the loop. *)
PushCasFail_NoRelink(t) ==
    LET l == loc[t]
    IN  /\ pc[t] = "pushcas"
        /\ head[l.shard] # l.cur \/ SpuriousFailures
        /\ loc' = [loc EXCEPT ![t].cur = head[l.shard]]
        /\ UNCHANGED <<head, usage, next, stack, own, pc>>

PushCasFail(t) ==
    LET l == loc[t]
    IN  /\ pc[t] = "pushcas"
        /\ head[l.shard] # l.cur \/ SpuriousFailures
        /\ loc' = [loc EXCEPT ![t].cur = head[l.shard]]
        /\ Goto(t, "link")
        /\ UNCHANGED <<head, usage, next, stack, own>>

PushAdd(t) ==
    LET l == loc[t]
    IN  /\ pc[t] = "add"
        /\ usage' = [usage EXCEPT ![l.shard] = (@ + Len(l.chain)) % UsageMod]
        /\ Return(t)
        /\ UNCHANGED <<head, next, stack, own>>

-----------------------------------------------------------------------------
(* try_pop: the shard of the calling CPU first, then the others in turn.   *)

PopCall(t, n, cpu) ==
    /\ pc[t] = "idle"
    /\ loc' = [loc EXCEPT ![t] = [NoLoc EXCEPT !.cpu = cpu, !.shard = cpu,
                                               !.batch = n]]
    /\ Goto(t, "check")
    /\ UNCHANGED <<head, usage, next, stack, own>>

(* Mutant: the last victim is left out. *)
NextVictim_Short(t) ==
    LET i == loc[t].victim + 1
    IN  \/ /\ i + 1 < ncpu
           /\ loc' = [loc EXCEPT ![t].victim = i,
                                 ![t].shard = (loc[t].cpu + i) % ncpu,
                                 ![t].cur = NoWord, ![t].chain = <<>>]
           /\ Goto(t, "check")
        \/ i + 1 >= ncpu /\ Return(t)

(* pop found nothing in its shard: the next victim, or null. *)
NextVictim(t) ==
    LET i == loc[t].victim + 1
    IN  \/ /\ i < ncpu
           /\ loc' = [loc EXCEPT ![t].victim = i,
                                 ![t].shard = (loc[t].cpu + i) % ncpu,
                                 ![t].cur = NoWord, ![t].chain = <<>>]
           /\ Goto(t, "check")
        \/ i >= ncpu /\ Return(t)

PopCheck(t) ==
    /\ pc[t] = "check"
    /\ loc[t].shard \in Shards
    /\ \/ usage[loc[t].shard] = 0 /\ NextVictim(t)
       \/ usage[loc[t].shard] # 0 /\ Goto(t, "popload") /\ UNCHANGED loc
    /\ UNCHANGED <<head, usage, next, stack, own>>

PopLoad(t) ==
    LET w == head[loc[t].shard]
    IN  /\ pc[t] = "popload"
        /\ \/ w.ptr = Null /\ NextVictim(t)
           \/ /\ w.ptr # Null
              /\ loc' = [loc EXCEPT ![t].cur = w, ![t].chain = <<w.ptr>>]
              /\ Goto(t, "walk")
        /\ UNCHANGED <<head, usage, next, stack, own>>

(* One turn of the walk: the block behind the last one, if there is one    *)
(* and the batch has room; then its link once more, for the new head.      *)
PopWalk(t) ==
    LET l == loc[t]
        n == next[Last(l.chain)]
    IN  /\ pc[t] = "walk"
        /\ \/ /\ Len(l.chain) < l.batch
              /\ n # Null
              /\ loc' = [loc EXCEPT ![t].chain = Append(@, n)]
              /\ UNCHANGED pc
           \/ /\ Len(l.chain) < l.batch
              /\ n = Null
              /\ Goto(t, "new")
              /\ UNCHANGED loc
           \/ /\ Len(l.chain) = l.batch
              /\ loc' = [loc EXCEPT ![t].new = n]
              /\ Goto(t, "popcas")
        /\ UNCHANGED <<head, usage, next, stack, own>>

PopNew(t) ==
    /\ pc[t] = "new"
    /\ loc' = [loc EXCEPT ![t].new = next[Last(loc[t].chain)]]
    /\ Goto(t, "popcas")
    /\ UNCHANGED <<head, usage, next, stack, own>>

PopCasOk(t) ==
    LET l == loc[t]
    IN  /\ pc[t] = "popcas"
        /\ head[l.shard] = l.cur
        /\ head' = [head EXCEPT ![l.shard] = head_pack(l.new, l.cur)]
        /\ stack' = [stack EXCEPT ![l.shard] =
                        SubSeq(@, Len(l.chain) + 1, Len(@))]
        /\ own' = [own EXCEPT ![t] = @ \cup Range(l.chain)]
        /\ Goto(t, "sub")
        /\ UNCHANGED <<usage, next, loc>>

(* Mutant: the loop ends on a failed exchange too. *)
PopCasFail_Taken(t) ==
    LET l == loc[t]
    IN  /\ pc[t] = "popcas"
        /\ head[l.shard] # l.cur
        /\ own' = [own EXCEPT ![t] = @ \cup Range(l.chain)]
        /\ Goto(t, "seal")
        /\ UNCHANGED <<head, usage, next, stack, loc>>

PopCasFail(t) ==
    LET l == loc[t]
    IN  /\ pc[t] = "popcas"
        /\ head[l.shard] # l.cur
        /\ loc' = [loc EXCEPT ![t].cur = NoWord, ![t].chain = <<>>,
                              ![t].new = Null]
        /\ Goto(t, "popload")
        /\ UNCHANGED <<head, usage, next, stack, own>>

(* Mutant: the counter goes down by what was asked for, not by what was    *)
(* found.                                                                  *)
PopSub_Batch(t) ==
    LET l == loc[t]
    IN  /\ pc[t] = "sub"
        /\ usage' = [usage EXCEPT ![l.shard] = (@ - l.batch) % UsageMod]
        /\ Goto(t, "seal")
        /\ UNCHANGED <<head, next, stack, own, loc>>

PopSub(t) ==
    LET l == loc[t]
    IN  /\ pc[t] = "sub"
        /\ usage' = [usage EXCEPT ![l.shard] = (@ - Len(l.chain)) % UsageMod]
        /\ Goto(t, "seal")
        /\ UNCHANGED <<head, next, stack, own, loc>>

(* The popped chain ends where the walk ended. *)
PopSeal(t) ==
    /\ pc[t] = "seal"
    /\ next' = [next EXCEPT ![Last(loc[t].chain)] = Null]
    /\ Return(t)
    /\ UNCHANGED <<head, usage, stack, own>>

-----------------------------------------------------------------------------
(* sched_getcpu names a CPU of the mask; its error counts as CPU 0. *)
get_cpu_id == Affinity \cup {0}

Alone(t) == \A u \in Threads \ {t} : pc[u] = "idle"

Call(t) ==
    \/ \E b \in own[t], n \in own[t] \cup {Null} : Relink(t, b, n) /\ UNCHANGED calm
    \/ \E c \in Chains(own[t]), cpu \in get_cpu_id : PushCall(t, c, cpu) /\ calm' = {}
    \/ \E n \in 1 .. MaxBatch, cpu \in get_cpu_id :
          PopCall(t, n, cpu) /\ calm' = IF Alone(t) THEN {t} ELSE {}

(* The steps of a call other than the successful compare-exchanges. *)
Advance(t) ==
    /\ \/ PushLoad(t) \/ PushLink(t) \/ PushCasFail(t) \/ PushAdd(t)
       \/ PopCheck(t) \/ PopLoad(t) \/ PopWalk(t) \/ PopNew(t) \/ PopCasFail(t)
       \/ PopSub(t) \/ PopSeal(t)
    /\ UNCHANGED calm

Swing(t) == (PushCasOk(t) \/ PopCasOk(t)) /\ UNCHANGED calm

Next == \E t \in Threads : Call(t) \/ Advance(t) \/ Swing(t)

Spec == Init /\ [][Next]_vars

(* The tag tells a head word from an earlier one as long as fewer than     *)
(* TagMod changes lie between them.  TimelySpec leaves out the schedules   *)
(* in which the tag comes round while another thread pops: those in which  *)
(* that thread sleeps between its load and its exchange through TagMod     *)
(* changes of the head.                                                    *)
Popping(u) == pc[u] \in {"walk", "new", "popcas"}

Timely(t) ==
    LET s == loc[t].shard
    IN  \A u \in Threads \ {t} :
            Popping(u) /\ loc[u].shard = s =>
                (head[s].tag + 1) % TagMod # loc[u].cur.tag

TimelyNext ==
    \E t \in Threads : Call(t) \/ Advance(t) \/ (Timely(t) /\ Swing(t))

TimelySpec == Init /\ [][TimelyNext]_vars

-----------------------------------------------------------------------------
(* Properties. *)

PCs == {"idle", "pushload", "link", "pushcas", "add", "check", "popload", "walk",
        "new", "popcas", "sub", "seal"}

Words == [ptr : Blocks \cup {Null}, tag : 0 .. TagMod - 1]

(* The type invariant: head words, counters and links are what their       *)
(* machine words can hold.                                                 *)
TypeOK ==
    /\ head \in [Shards -> Words]
    /\ usage \in [Shards -> 0 .. UsageMod - 1]
    /\ next \in [Blocks -> Blocks \cup {Null}]
    /\ stack \in [Shards -> Seq(Blocks)]
    /\ own \in [Threads -> SUBSET Blocks]
    /\ pc \in [Threads -> PCs]
    /\ loc \in [Threads -> [cpu : Nat, victim : Nat, shard : Nat, batch : 0 .. MaxBatch,
                            cur : Words, chain : Seq(Blocks),
                            new : Blocks \cup {Null}]]
    /\ calm \subseteq Threads

(* The words are words, and the links of a shard's list spell out exactly  *)
(* the blocks pushed and not popped since, from the head word to a null    *)
(* link, whatever try_push, pop and the owners of other blocks write in    *)
(* between.                                                                *)
WellLinked ==
    /\ TypeOK
    /\ \A s \in Shards :
          LET k == stack[s]
          IN  IF k = <<>> THEN head[s].ptr = Null
              ELSE head[s].ptr = k[1] /\ Linked(k) /\ next[Last(k)] = Null

(* Every block is in one place: free blocks of one thread, or one position *)
(* of one shard.  No pop hands out a block that another thread has.        *)
NoBlockTwice ==
    \A b \in Blocks :
        Cardinality({t \in Threads : b \in own[t]})
          + Cardinality({p \in Shards \X (1 .. Cardinality(Blocks) + 1) :
                           p[2] <= Len(stack[p[1]]) /\ stack[p[1]][p[2]] = b}) = 1

(* Blocks pushed but not yet counted, and popped but not yet discounted.   *)
PendingAt(s, p) ==
    {q \in Threads \X (1 .. MaxBatch) :
        pc[q[1]] = p /\ loc[q[1]].shard = s /\ q[2] <= Len(loc[q[1]].chain)}

(* The counter of a shard is the number of its blocks up to the updates    *)
(* still under way: fetch_add and fetch_sub follow the exchange, and none  *)
(* is lost or made twice.                                                  *)
UsageAccounted ==
    \A s \in Shards :
        usage[s] = (Len(stack[s]) - Cardinality(PendingAt(s, "add"))
                                  + Cardinality(PendingAt(s, "sub"))) % UsageMod

(* try_pop reports nothing only when there is nothing: a pop during which  *)
(* no other call is under way visits every shard, and is not turned away   *)
(* by a counter that earlier calls left wrong.                             *)
NullOnlyWhenEmpty ==
    [][\A t \in calm : pc[t] \in {"check", "popload"} /\ pc'[t] = "idle" =>
           \A s \in Shards : stack[s] = <<>>]_vars

(* What the cache promises: module GlobalPool. *)
Promise == INSTANCE GlobalPool

(* The shards together are a pool: a successful exchange puts blocks its   *)
(* thread owns or takes blocks nobody owns, every other step is invisible. *)
ImplementsGlobalPool == Promise!Spec
=============================================================================
