------------------------------ MODULE ForkReset ------------------------------
(***************************************************************************)
(* Lazy initialisation, locks and fork (va/bootstrap.rs, internals/once.rs,*)
(* internals/oncelock.rs, internals/lock.rs, abi/fallback.rs and the users *)
(* of all these).  A thread forks between two calls of the allocator while *)
(* the others are anywhere inside one.  In the child only the forking      *)
(* thread goes on, over a copy of the memory, and the handlers put right   *)
(* what the vanished threads left behind.                                  *)
(*                                                                         *)
(* What a call does is reduced to the guards and locks it passes through   *)
(* and the state fork_child resets: a sequence of instructions.            *)
(***************************************************************************)
EXTENDS Integers, Sequences, FiniteSetsExt

CONSTANTS Threads,  \* threads of the program
          Calls,    \* the calls they make
          Trimmer,  \* the thread spawn_gtrim_thread starts
          Limit,    \* calls before the trim thread is started: 1024
          Word,     \* values of a usize: 2^64
          MaxForks  \* bound: forks

ASSUME ForkAssumption ==
    /\ Trimmer \notin Threads /\ Limit \in Nat /\ MaxForks \in Nat
    /\ Word \in Nat /\ Limit < Word
    /\ Calls \subseteq {"malloc", "big_malloc", "free", "big_free", "foreign_free",
                      "fallback", "malloc_trim"}

(* The once guards: of boot_strap, of the first segment, of the radix tree *)
(* (ONCE_PROTECTION), of the InterConnect cache, of CLASS_4096, of         *)
(* OX_GLOBAL_STAMP, and of the libc symbols (one for the three).           *)
Onces == {"BOOT", "VA", "TREE", "ICC", "CLASS_4096", "STAMP", "SYMBOL"}

Locks == {"VA_LOCK", "BIG_ALLOC_MAP"}

(* What fork_child resets. *)
ResetOnces == Onces \ {"ICC"}

ResetLocks == {"VA_LOCK"}

-----------------------------------------------------------------------------
(* The calls. *)

Instr(op, g) == [op |-> op, g |-> g]

(* call_once and get_or_init. *)
Lazy(g) == <<Instr("once", g), Instr("init", g), Instr("done", g)>>

boot_strap ==
    <<Instr("once", "BOOT"), Instr("register", "BOOT"), Instr("magic", "BOOT"),
      Instr("done", "BOOT")>>

(* The lock is released by hand and then once more by the destructor of    *)
(* its guard.                                                              *)
grow == <<Instr("lock", "VA_LOCK")>> \o Lazy("TREE")
          \o <<Instr("init", "VA"), Instr("unlock", "VA_LOCK"), Instr("drop", "VA_LOCK")>>

(* The first segment's guard is held while it is made. *)
VaAlloc ==
    <<Instr("once", "VA")>> \o grow \o <<Instr("done", "VA"), Instr("room", "VA")>> \o grow

freed == <<Instr("freed", "BOOT")>>

Table == <<Instr("lock", "BIG_ALLOC_MAP"), Instr("unlock", "BIG_ALLOC_MAP")>>

Code == [
    malloc      |-> boot_strap
                      \o <<Instr("count", "BOOT"), Instr("add", "BOOT"), Instr("claim", "BOOT"),
                           Instr("spawn", "BOOT"), Instr("hot", "BOOT"), Instr("cached", "ICC")>>
                      \o Lazy("ICC") \o <<Instr("cached", "ICC")>> \o VaAlloc
                      \o <<Instr("block", "BOOT")>>,
    big_malloc  |-> boot_strap \o VaAlloc \o Table
                      \o <<Instr("block", "BOOT")>>,
    free        |-> freed \o <<Instr("kept", "ICC")>> \o Lazy("ICC"),
    big_free    |-> freed \o Table,
    foreign_free |-> freed \o Lazy("SYMBOL"),
    fallback    |-> Lazy("SYMBOL"),
    malloc_trim |-> Lazy("CLASS_4096") \o Lazy("ICC"),
    trim_thread |-> Lazy("STAMP") \o Lazy("CLASS_4096") \o Lazy("ICC")]

(* Where instruction k of call c leads to without entering or leaving a    *)
(* guard or a lock.  A guard that is passed by is left behind its end.     *)
SkipTo(c, k) ==
    1 + Min({j \in k .. Len(Code[c]) : Code[c][j] = Instr("done", Code[c][k].g)})

Leads(c, k) ==
    LET op == Code[c][k].op
    IN  IF op = "once" THEN {SkipTo(c, k)}
        ELSE IF op \in {"done", "lock", "unlock"} THEN {}
        ELSE IF op = "count" THEN {k + 1, k + 2}
        ELSE IF op = "add" THEN {k + 4}
        ELSE IF op = "claim" THEN {k + 1, k + 3}
        ELSE IF op = "cached" THEN {k + 1, Len(Code[c])}
        ELSE IF op = "kept" THEN {k + 1, Len(Code[c]) + 1}
        ELSE IF op = "room" THEN {k + 1, k + 1 + Len(grow)}
        ELSE {k + 1}

(* The guards and locks a thread before instruction k is inside, and those *)
(* of them whose work it has done.                                         *)
Held(c, k) ==
    {g \in Onces \cup Locks : \E j \in 1 .. k - 1 :
        /\ Code[c][j] \in {Instr("once", g), Instr("lock", g)}
        /\ \A i \in j + 1 .. k - 1 : Code[c][i] \notin {Instr("done", g), Instr("unlock", g)}}

Made(c, k) ==
    {g \in Held(c, k) : \E j \in 1 .. k - 1 :
        /\ Code[c][j] = Instr("init", g)
        /\ \A i \in j + 1 .. k - 1 : Code[c][i] # Instr("done", g)}

(* Behind the registration of the handlers, and behind boot_strap. *)
Registered(c, k) == c \in {"malloc", "big_malloc"} /\ k > 2

After(c, k) == c \in {"malloc", "big_malloc"} /\ k > Len(boot_strap)

Before(c, k, op) == k <= Len(Code[c]) /\ Code[c][k].op = op

(* Where a call begins once HOT_READY is set: malloc leaves out boot_strap *)
(* and what follows it, free the count.                                    *)
HotStart(c) ==
    IF c = "malloc" THEN Len(boot_strap) + 6
    ELSE IF c \in {"free", "big_free", "foreign_free"} THEN 2
    ELSE 1

(* The calls are well nested: guards and locks are left by who is inside   *)
(* them, in every way through a call; what is guarded is made before its   *)
(* guard is left; blocks are made behind boot_strap; and the trim thread   *)
(* is started by the call that has announced it.                           *)
WellNested(c, k) ==
    LET op == Code[c][k].op
        g  == Code[c][k].g
    IN  /\ op \in {"once", "done"} => g \in Onces
        /\ op \in {"lock", "unlock", "drop"} => g \in Locks
        /\ op = "drop" => g = "VA_LOCK"
        /\ op = "init" => g \in Onces
        /\ op \in {"once", "lock"} => /\ Held(c, k + 1) = Held(c, k) \cup {g}
                                      /\ Made(c, k + 1) \subseteq Made(c, k)
        /\ op \in {"done", "unlock"} => /\ g \in Held(c, k)
                                        /\ Held(c, k + 1) = Held(c, k) \ {g}
                                        /\ Made(c, k + 1) \subseteq Made(c, k)
        /\ op = "done" /\ g # "BOOT" => g \in Made(c, k)
        /\ op = "done" /\ g = "BOOT" => Registered(c, k)
        /\ op \in {"register", "magic"} => "BOOT" \in Held(c, k)
        /\ op \in {"count", "add", "claim", "spawn", "hot", "block"} => After(c, k)
        /\ After(c, k) => Registered(c, k)
        /\ After(c, k + 1) => After(c, k) \/ (op = "done" /\ g = "BOOT")
        /\ Registered(c, k + 1) => Registered(c, k) \/ op = "register"
        /\ op \in {"once", "lock", "done", "unlock"} =>
              ~Before(c, k + 1, "spawn") /\ ~Before(c, k + 1, "hot")
        /\ Before(c, k + 1, "register") => op = "once" /\ g = "BOOT"
        /\ \A j \in Leads(c, k) :
              /\ ~Before(c, j, "register")
              /\ j \in 1 .. Len(Code[c]) + 1
              /\ Held(c, j) = Held(c, k)
              /\ Made(c, j) \subseteq Made(c, k) \cup (IF op = "init" THEN {g} ELSE {})
              /\ After(c, j) => After(c, k) \/ (op = "once" /\ g = "BOOT")
              /\ Registered(c, j) =>
                    Registered(c, k) \/ op = "register" \/ (op = "once" /\ g = "BOOT")
              /\ Before(c, j, "spawn") => op = "claim" /\ j = k + 1
              /\ Before(c, j, "hot") => op = "spawn"

ASSUME CodeAssumption ==
    /\ "none" \notin DOMAIN Code /\ "fork" \notin DOMAIN Code
    /\ Calls \cup {"trim_thread"} \subseteq DOMAIN Code
    /\ \A c \in DOMAIN Code :
          /\ Len(Code[c]) \in Nat /\ HotStart(c) \in 1 .. Len(Code[c])
          /\ Held(c, Len(Code[c]) + 1) = {}
          /\ ~After(c, 1) /\ ~Registered(c, 1)
          /\ \A k \in {1, HotStart(c)} :
                /\ Held(c, k) = {} /\ ~Before(c, k, "register")
                /\ ~Before(c, k, "spawn") /\ ~Before(c, k, "hot")
          /\ \A k \in 1 .. Len(Code[c]) : WellNested(c, k)

VARIABLES once,      \* state of each once guard: 0 new, 1 running, 2 done
          lock,      \* is each lock taken?
          built,     \* what has been initialised under the guards
          call, pc,  \* the call each thread is in, and its next instruction
          inside,    \* the guards and locks each thread is inside
          alive,     \* the threads of the process
          handlers,  \* how often the fork handlers are registered
          mutex,     \* BOOTSTRAP_LOCK is taken
          left, ran, \* of a fork: preparations left, handlers to run after it
          forks,     \* forks so far
          magic,     \* MAGIC: how often it was drawn
          used,      \* the values of MAGIC in headers of live blocks
          total,     \* TOTAL_MALLOC_FREE
          spawned, hot,  \* THREAD_SPAWNED, HOT_READY
          trimmers   \* trim threads of the process

guards == <<once, lock, built, inside>>
boot == <<handlers, magic, used>>
trim == <<total, spawned, hot, trimmers>>
fork == <<mutex, left, ran, forks>>
vars == <<guards, boot, trim, fork, call, pc, alive>>

Procs == Threads \cup {Trimmer}

Init ==
    /\ once = [g \in Onces |-> 0]
    /\ lock = [l \in Locks |-> FALSE]
    /\ built = {}
    /\ call = [p \in Procs |-> "none"]
    /\ pc = [p \in Procs |-> 1]
    /\ inside = [p \in Procs |-> {}]
    /\ alive = Threads
    /\ handlers = 0 /\ mutex = FALSE
    /\ left = [p \in Procs |-> 0] /\ ran = [p \in Procs |-> 0] /\ forks = 0
    /\ magic = 0 /\ used = {}
    /\ total = 0 /\ spawned = FALSE /\ hot = FALSE /\ trimmers = 0

Idle(p) == p \in alive /\ call[p] = "none"

At(p, op) ==
    /\ p \in alive /\ call[p] \in DOMAIN Code
    /\ pc[p] <= Len(Code[call[p]]) /\ Code[call[p]][pc[p]].op = op

Of(p) == Code[call[p]][pc[p]].g

Goto(p, k) == pc' = [pc EXCEPT ![p] = k] /\ UNCHANGED call

Step(p) == Goto(p, pc[p] + 1)

-----------------------------------------------------------------------------
(* Calls and returns. *)

(* HOT_READY is read first.  Blocks are freed that exist. *)
Call(p, c) ==
    /\ Idle(p)
    /\ c \in {"free", "big_free"} => used # {}
    /\ call' = [call EXCEPT ![p] = c]
    /\ pc' = [pc EXCEPT ![p] = IF hot THEN HotStart(c) ELSE 1]
    /\ UNCHANGED <<guards, boot, trim, fork, alive>>

Return(p) ==
    /\ p \in alive /\ call[p] \in DOMAIN Code /\ pc[p] = Len(Code[call[p]]) + 1
    /\ call' = [call EXCEPT ![p] = "none"]
    /\ pc' = [pc EXCEPT ![p] = 1]
    /\ UNCHANGED <<guards, boot, trim, fork, alive>>

(* The program starts a thread (again). *)
Start(p) ==
    /\ p \in Threads \ alive
    /\ alive' = alive \cup {p}
    /\ UNCHANGED <<guards, boot, trim, fork, call, pc>>

-----------------------------------------------------------------------------
(* Once guards and locks. *)

(* The segment list and the radix tree are looked at before their guards.  *)
Skips(g) == once[g] = 2 \/ (g \in {"VA", "TREE"} /\ g \in built)

(* Mutant: the loop waits for the wrong state. *)
OnceSkip_Spin(p) == At(p, "once") /\ Skips(Of(p)) /\ UNCHANGED vars

OnceSkip(p) ==
    /\ At(p, "once") /\ Skips(Of(p))
    /\ Goto(p, SkipTo(call[p], pc[p]))
    /\ UNCHANGED <<guards, boot, trim, fork, alive>>

(* Mutant: the state is stored, not exchanged. *)
OnceEnter_Store(p) ==
    /\ At(p, "once") /\ ~Skips(Of(p))
    /\ once' = [once EXCEPT ![Of(p)] = 1]
    /\ inside' = [inside EXCEPT ![p] = @ \cup {Of(p)}]
    /\ Step(p)
    /\ UNCHANGED <<lock, built, boot, trim, fork, alive>>

(* The exchange from 0 to 1.  A thread that finds 1 waits for 2. *)
OnceEnter(p) ==
    /\ At(p, "once") /\ ~Skips(Of(p)) /\ once[Of(p)] = 0
    /\ once' = [once EXCEPT ![Of(p)] = 1]
    /\ inside' = [inside EXCEPT ![p] = @ \cup {Of(p)}]
    /\ Step(p)
    /\ UNCHANGED <<lock, built, boot, trim, fork, alive>>

OnceInit(p) ==
    /\ At(p, "init")
    /\ built' = built \cup {Of(p)}
    /\ Step(p)
    /\ UNCHANGED <<once, lock, inside, boot, trim, fork, alive>>

OnceDone(p) ==
    /\ At(p, "done")
    /\ once' = [once EXCEPT ![Of(p)] = 2]
    /\ inside' = [inside EXCEPT ![p] = @ \ {Of(p)}]
    /\ Step(p)
    /\ UNCHANGED <<lock, built, boot, trim, fork, alive>>

Lock(p) ==
    /\ At(p, "lock") /\ ~lock[Of(p)]
    /\ lock' = [lock EXCEPT ![Of(p)] = TRUE]
    /\ inside' = [inside EXCEPT ![p] = @ \cup {Of(p)}]
    /\ Step(p)
    /\ UNCHANGED <<once, built, boot, trim, fork, alive>>

Unlock(p) ==
    /\ At(p, "unlock")
    /\ lock' = [lock EXCEPT ![Of(p)] = FALSE]
    /\ inside' = [inside EXCEPT ![p] = @ \ {Of(p)}]
    /\ Step(p)
    /\ UNCHANGED <<once, built, boot, trim, fork, alive>>

(* The destructor of the guard releases the lock, whoever has it by now. *)
Drop(p) ==
    /\ At(p, "drop")
    /\ lock' = [lock EXCEPT ![Of(p)] = FALSE]
    /\ Step(p)
    /\ UNCHANGED <<once, built, inside, boot, trim, fork, alive>>

-----------------------------------------------------------------------------
(* boot_strap: the handlers are registered, the magic numbers drawn. *)

register_fork_handlers(p) ==
    /\ At(p, "register")
    /\ handlers' = handlers + 1
    /\ Step(p)
    /\ UNCHANGED <<guards, magic, used, trim, fork, alive>>

init_magic(p) ==
    /\ At(p, "magic")
    /\ magic' = magic + 1
    /\ Step(p)
    /\ UNCHANGED <<guards, handlers, used, trim, fork, alive>>

(* allocate_boot_segment: the counter is read, and counted up below the    *)
(* limit; a thread that finds enough calls and wins the exchange starts    *)
(* the trim thread.                                                        *)
Count(p) ==
    /\ At(p, "count")
    /\ Goto(p, pc[p] + (IF total < Limit THEN 1 ELSE 2))
    /\ UNCHANGED <<guards, boot, trim, fork, alive>>

Add(p) ==
    /\ At(p, "add")
    /\ total' = (total + 1) % Word
    /\ Goto(p, pc[p] + 4)
    /\ UNCHANGED <<guards, boot, spawned, hot, trimmers, fork, alive>>

Claim(p) ==
    /\ At(p, "claim")
    /\ spawned' = TRUE
    /\ Goto(p, pc[p] + (IF spawned THEN 3 ELSE 1))
    /\ UNCHANGED <<guards, boot, total, hot, trimmers, fork, alive>>

spawn_gtrim_thread(p) ==
    /\ At(p, "spawn")
    /\ trimmers' = trimmers + 1
    /\ alive' = alive \cup {Trimmer}
    /\ Step(p)
    /\ UNCHANGED <<guards, boot, total, spawned, hot, fork>>

HotReady(p) ==
    /\ At(p, "hot")
    /\ hot' = TRUE
    /\ Step(p)
    /\ UNCHANGED <<guards, boot, total, spawned, trimmers, fork, alive>>

(* free_boot_segment counts its calls too, without a limit. *)
FreeCount(p) ==
    /\ At(p, "freed")
    /\ total' = (total + 1) % Word
    /\ Step(p)
    /\ UNCHANGED <<guards, boot, spawned, hot, trimmers, fork, alive>>

(* A block from the thread's cache or the pool, or on to the next source.  *)
Cached(p) ==
    /\ At(p, "cached")
    /\ Step(p) \/ (used # {} /\ Goto(p, Len(Code[call[p]])))
    /\ UNCHANGED <<guards, boot, trim, fork, alive>>

(* free puts the block into the thread's cache, or into the pool. *)
Kept(p) ==
    /\ At(p, "kept")
    /\ Step(p) \/ Goto(p, Len(Code[call[p]]) + 1)
    /\ UNCHANGED <<guards, boot, trim, fork, alive>>

(* Some segment has room, or another one is made. *)
Room(p) ==
    /\ At(p, "room")
    /\ Step(p) \/ Goto(p, pc[p] + 1 + Len(grow))
    /\ UNCHANGED <<guards, boot, trim, fork, alive>>

Block(p) ==
    /\ At(p, "block")
    /\ used' = used \cup {magic}
    /\ Step(p)
    /\ UNCHANGED <<guards, handlers, magic, trim, fork, alive>>

-----------------------------------------------------------------------------
(* fork. *)

Forking(p) == p \in alive /\ call[p] = "fork"

ForkStart(p) ==
    /\ p \in Threads /\ Idle(p) /\ forks < MaxForks
    /\ call' = [call EXCEPT ![p] = "fork"]
    /\ left' = [left EXCEPT ![p] = handlers]
    /\ ran' = [ran EXCEPT ![p] = handlers]
    /\ forks' = forks + 1
    /\ UNCHANGED <<guards, boot, trim, mutex, pc, alive>>

(* Each registration takes the mutex, which is not reentrant. *)
fork_prepare(p) ==
    /\ Forking(p) /\ left[p] > 0 /\ ~mutex
    /\ mutex' = TRUE
    /\ left' = [left EXCEPT ![p] = @ - 1]
    /\ UNCHANGED <<guards, boot, trim, ran, forks, call, pc, alive>>

fork_parent(p) ==
    /\ Forking(p) /\ left[p] = 0
    /\ mutex' = IF ran[p] > 0 THEN FALSE ELSE mutex
    /\ call' = [call EXCEPT ![p] = "none"]
    /\ ran' = [ran EXCEPT ![p] = 0]
    /\ UNCHANGED <<guards, boot, trim, left, forks, pc, alive>>

(* Mutant: guards that are done start again. *)
reset_at_fork_All(state) == 0

(* Mutant: guards that are running count as done. *)
reset_at_fork_Done(state) == IF state = 1 THEN 2 ELSE state

reset_at_fork(state) == IF state = 1 THEN 0 ELSE state

(* Mutant: the vanished thread's lock stays. *)
reset_on_fork_Kept(l) == lock[l]

reset_on_fork(l) == IF l \in ResetLocks THEN FALSE ELSE lock[l]

(* Mutant: the flag of the fast path stays. *)
reset_fork_thread_state_Hot ==
    spawned' = FALSE /\ total' = Limit /\ UNCHANGED hot

(* Mutant: the flag of the trim thread stays. *)
reset_fork_thread_state_Spawned ==
    total' = Limit /\ hot' = FALSE /\ UNCHANGED spawned

reset_fork_thread_state == spawned' = FALSE /\ total' = Limit /\ hot' = FALSE

(* The threads that are gone leave their guards, locks and half done work; *)
(* handlers run only if they were registered.                              *)
fork_child(p) ==
    /\ Forking(p) /\ left[p] = 0
    /\ alive' = {p}
    /\ trimmers' = 0
    /\ call' = [q \in Procs |-> "none"]
    /\ pc' = [q \in Procs |-> 1]
    /\ inside' = [q \in Procs |-> {}]
    /\ left' = [q \in Procs |-> 0] /\ ran' = [q \in Procs |-> 0]
    /\ \/ /\ ran[p] > 0
          /\ mutex' = FALSE
          /\ once' = [g \in Onces |->
                          IF g \in ResetOnces THEN reset_at_fork(once[g]) ELSE once[g]]
          /\ lock' = [l \in Locks |-> reset_on_fork(l)]
          /\ reset_fork_thread_state
       \/ /\ ran[p] = 0
          /\ UNCHANGED <<mutex, once, lock, total, spawned, hot>>
    /\ UNCHANGED <<built, boot, forks>>

-----------------------------------------------------------------------------

Run(p) ==
    \/ OnceSkip(p) \/ OnceEnter(p) \/ OnceInit(p) \/ OnceDone(p) \/ Lock(p) \/ Unlock(p) \/ Drop(p)
    \/ register_fork_handlers(p) \/ init_magic(p)
    \/ Count(p) \/ Add(p) \/ Claim(p) \/ spawn_gtrim_thread(p) \/ HotReady(p) \/ FreeCount(p)
    \/ Cached(p) \/ Kept(p) \/ Room(p) \/ Block(p) \/ Return(p)

Request(p) ==
    \/ p \in Threads /\ \E c \in Calls : Call(p, c)
    \/ p = Trimmer /\ Call(p, "trim_thread")
    \/ Start(p) \/ ForkStart(p)

Next ==
    \E p \in Procs : Request(p) \/ Run(p) \/ fork_prepare(p) \/ fork_parent(p) \/ fork_child(p)

Spec == Init /\ [][Next]_vars

(* fork_child does not reset the guard of the InterConnect cache nor the   *)
(* lock of the table of big blocks, and does nothing for a fork that began *)
(* before the handlers were registered; and a boot_strap that is started   *)
(* again registers the handlers again, so that the next fork waits for its *)
(* own mutex.  TimelySpec leaves out the forks of a child at such moments. *)
Covered == (ResetOnces \cup ResetLocks) \ {"BOOT"}

Timely(p) ==
    /\ ran[p] = handlers
    /\ \A q \in alive \ {p} : inside[q] \subseteq (IF handlers = 0 THEN {} ELSE Covered)

TimelyNext ==
    \E p \in Procs : \/ Request(p) \/ Run(p) \/ fork_prepare(p) \/ fork_parent(p)
                     \/ Timely(p) /\ fork_child(p)

TimelySpec == Init /\ [][TimelyNext]_vars

(* Threads in a call, or in a fork, keep running. *)
Going(p) ==
    Run(p) \/ fork_prepare(p) \/ fork_parent(p) \/ (Timely(p) /\ fork_child(p))

FairSpec == TimelySpec /\ \A p \in Procs : WF_vars(Going(p))

-----------------------------------------------------------------------------
(* Properties. *)

(* Nobody waits for the dead: a guard that is running, a lock that is      *)
(* taken and the mutex of a fork always belong to a thread of this         *)
(* process, also after fork_child has taken away the thread that had them. *)
NoOrphan ==
    /\ \A g \in Onces : once[g] = 1 => \E p \in alive : g \in inside[p]
    /\ \A l \in Locks : lock[l] => \E p \in alive : l \in inside[p]
    /\ mutex => \E p \in alive : call[p] = "fork" /\ ran[p] > 0

(* No two threads are inside one once guard, or inside the table of big    *)
(* blocks: resetting them in the child never lets a second thread in       *)
(* beside one that is still there.  Nothing of the kind holds of VA_LOCK,  *)
(* which grow releases a second time when another thread may have it.      *)
OneInside ==
    \A p, q \in alive : p # q => inside[p] \cap inside[q] \subseteq {"VA_LOCK"}

(* A fork never waits for the mutex that it has itself: the handlers are   *)
(* registered once, though boot_strap's guard is among those that          *)
(* fork_child resets.                                                      *)
NoSelfWait ==
    \A p \in alive : call[p] = "fork" /\ left[p] > 0 => left[p] = ran[p]

(* A guard that is done has done its work: call_once and get_or_init never *)
(* return before what they guard is there, in no descendant of a process   *)
(* forked half way through.                                                *)
DoneMeansBuilt == \A g \in Onces \ {"BOOT"} : once[g] = 2 => g \in built

(* MAGIC is never drawn again while blocks are about: else every block of  *)
(* the parent would be reported as corrupt when the child frees it.        *)
MagicStable == used \subseteq {magic}

(* The fast path is on only while a trim thread runs, and there is never a *)
(* second one: the child, which has lost it, leaves the fast path and      *)
(* starts a new one.                                                       *)
TrimmerMatches == trimmers <= 1 /\ (hot => Trimmer \in alive)

(* A trim thread that has been announced comes: the exchange on            *)
(* THREAD_SPAWNED is followed by the thread, or undone by a fork.          *)
TrimmerComes == spawned ~> (Trimmer \in alive \/ ~spawned)

(* Calls do not stay inside the allocator together for ever, spinning on   *)
(* guards and locks: while some thread is inside a call or a fork, again   *)
(* and again one comes to its end.                                         *)
Active == {p \in alive : call[p] # "none"}

Completes == \E p \in Procs : call[p] # "none" /\ call'[p] = "none"

Progress == <>[](Active # {}) => []<><<Completes>>_vars
=============================================================================
