--------------------------- MODULE ForkResetProofs ---------------------------
(***************************************************************************)
(* Proofs about once guards, locks and fork, for any number of threads,    *)
(* any set of calls, any limit and any number of forks: the inductive      *)
(* invariant, that its parts are kept (who is where, and what is guarded), *)
(* and what follows from it.                                               *)
(***************************************************************************)
EXTENDS ForkReset, TLAPS

-----------------------------------------------------------------------------
(* The inductive invariant. *)

(* The type invariant.  TOTAL_MALLOC_FREE may have any value. *)
TypeOK ==
    /\ once \in [Onces -> 0 .. 2] /\ lock \in [Locks -> BOOLEAN] /\ built \subseteq Onces
    /\ call \in [Procs -> DOMAIN Code \cup {"none", "fork"}] /\ pc \in [Procs -> Nat]
    /\ inside \in [Procs -> SUBSET (Onces \cup Locks)]
    /\ alive \subseteq Procs
    /\ handlers \in Nat /\ mutex \in BOOLEAN
    /\ left \in [Procs -> Nat] /\ ran \in [Procs -> Nat] /\ forks \in Nat
    /\ magic \in Nat /\ used \subseteq Nat
    /\ spawned \in BOOLEAN /\ hot \in BOOLEAN /\ trimmers \in Nat

InCall(p) == call[p] \in DOMAIN Code

(* The place of a thread in its call tells what it is inside. *)
Places ==
    /\ \A p \in Procs : InCall(p) => pc[p] \in 1 .. Len(Code[call[p]]) + 1
    /\ \A p \in Procs : InCall(p) => inside[p] = Held(call[p], pc[p])
    /\ \A p \in Procs : ~InCall(p) => inside[p] = {}
    /\ \A p \in Procs \ alive : call[p] = "none"

(* Who is inside a guard or the table is there alone, and it shows. *)
Alone ==
    /\ \A p \in Procs : \A g \in inside[p] :
          (g \in Onces => once[g] = 1) /\ (g \in Locks \ {"VA_LOCK"} => lock[g])
    /\ \A p, q \in Procs : p # q => inside[p] \cap inside[q] \subseteq {"VA_LOCK"}

(* What shows as running or taken is so. *)
Owners ==
    /\ \A g \in Onces : once[g] = 1 => \E p \in alive : g \in inside[p]
    /\ \A l \in Locks : lock[l] => \E p \in alive : l \in inside[p]

(* What is done is there. *)
Works ==
    /\ \A p \in Procs : InCall(p) => Made(call[p], pc[p]) \subseteq built
    /\ DoneMeansBuilt

(* Blocks exist, and the fast path is taken, behind boot_strap only. *)
Boots ==
    /\ \A p \in Procs : InCall(p) /\ After(call[p], pc[p]) => once["BOOT"] = 2
    /\ \A p \in Procs : InCall(p) /\ Registered(call[p], pc[p]) => handlers > 0
    /\ once["BOOT"] = 2 => handlers > 0
    /\ hot \/ used # {} => once["BOOT"] = 2
    /\ MagicStable

(* One thread at a time starts the trim thread, and only when there is none. *)
Spawns ==
    /\ \A p \in Procs : InCall(p) /\ Before(call[p], pc[p], "spawn") => spawned /\ trimmers = 0
    /\ \A p, q \in Procs :
          /\ InCall(p) /\ Before(call[p], pc[p], "spawn")
          /\ InCall(q) /\ Before(call[q], pc[q], "spawn")
          => p = q
    /\ \A p \in Procs : InCall(p) /\ Before(call[p], pc[p], "hot") => Trimmer \in alive
    /\ trimmers > 0 => spawned /\ Trimmer \in alive
    /\ TrimmerMatches

(* The mutex is taken by a fork that will release it. *)
Mutex ==
    /\ \A p \in Procs : left[p] <= ran[p] /\ ran[p] <= handlers
    /\ mutex => \E p \in alive : call[p] = "fork" /\ ran[p] > 0

(* The handlers are registered once: not before boot_strap is entered, nor *)
(* before the thread inside it comes to it.                                *)
Registers ==
    /\ handlers <= 1
    /\ once["BOOT"] = 0 => handlers = 0
    /\ \A p \in Procs : InCall(p) /\ Before(call[p], pc[p], "register") => handlers = 0

(* What every fork keeps, and what the forks of TimelySpec keep. *)
SInv == TypeOK /\ Places /\ Alone /\ Works /\ Boots

IInv == SInv /\ Owners /\ Spawns /\ Mutex /\ Registers

-----------------------------------------------------------------------------
(* Steps through a call. *)

(* An instruction and what it leads to. *)
LEMMA Instruction ==
    ASSUME NEW c \in DOMAIN Code, NEW k \in 1 .. Len(Code[c])
    PROVE  WellNested(c, k)
BY CodeAssumption, Zenon

(* Instructions that enter or leave nothing go on to one of their places. *)
LEMMA Quiet ==
    ASSUME NEW c \in DOMAIN Code, NEW k \in 1 .. Len(Code[c])
    PROVE  /\ Code[c][k].op = "once" => SkipTo(c, k) \in Leads(c, k)
           /\ Code[c][k].op = "count" => k + 1 \in Leads(c, k) /\ k + 2 \in Leads(c, k)
           /\ Code[c][k].op = "add" => k + 4 \in Leads(c, k)
           /\ Code[c][k].op = "claim" => k + 1 \in Leads(c, k) /\ k + 3 \in Leads(c, k)
           /\ Code[c][k].op = "cached" => k + 1 \in Leads(c, k) /\ Len(Code[c]) \in Leads(c, k)
           /\ Code[c][k].op = "kept" => k + 1 \in Leads(c, k) /\ Len(Code[c]) + 1 \in Leads(c, k)
           /\ Code[c][k].op = "room" => k + 1 \in Leads(c, k) /\ k + 1 + Len(grow) \in Leads(c, k)
           /\ Code[c][k].op \in {"drop", "init", "register", "magic", "spawn", "hot", "freed",
                                   "block"} => k + 1 \in Leads(c, k)
BY Zenon DEF Leads

(* The steps that enter and leave nothing. *)
Passes(p) ==
    \/ Drop(p) \/ OnceSkip(p) \/ OnceInit(p) \/ register_fork_handlers(p) \/ init_magic(p)
    \/ Count(p) \/ Add(p) \/ Claim(p) \/ spawn_gtrim_thread(p) \/ HotReady(p) \/ FreeCount(p)
    \/ Cached(p) \/ Kept(p) \/ Room(p) \/ Block(p)

Moves(p, j) ==
    /\ p \in alive /\ InCall(p) /\ pc[p] \in 1 .. Len(Code[call[p]])
    /\ j \in Leads(call[p], pc[p])
    /\ pc' = [pc EXCEPT ![p] = j]
    /\ UNCHANGED <<call, once, inside>>
    /\ lock' = lock \/ lock' = [lock EXCEPT !["VA_LOCK"] = FALSE]

(* A thread before an instruction is in its call. *)
LEMMA AtPlace ==
    ASSUME SInv, NEW p \in Procs, NEW op, At(p, op)
    PROVE  /\ p \in alive /\ InCall(p) /\ call[p] \in DOMAIN Code
           /\ pc[p] \in 1 .. Len(Code[call[p]]) /\ pc[p] \in Nat
           /\ Code[call[p]][pc[p]].op = op
           /\ Len(Code[call[p]]) \in Nat
           /\ WellNested(call[p], pc[p])
<1>1. p \in alive /\ call[p] \in DOMAIN Code /\ Code[call[p]][pc[p]].op = op
  BY Zenon DEF At
<1>2. Len(Code[call[p]]) \in Nat
  BY <1>1, CodeAssumption, Zenon
<1>3. pc[p] \in 1 .. Len(Code[call[p]]) /\ pc[p] \in Nat
  BY <1>1, <1>2 DEF At, SInv, Places, InCall, TypeOK
<1> QED BY <1>1, <1>2, <1>3, Instruction, Zenon DEF InCall

(* The instructions that enter or leave a guard or a lock. *)
LEMMA GuardPlace ==
    ASSUME SInv, NEW p \in Procs, NEW op \in {"once", "done", "lock", "unlock"}, At(p, op)
    PROVE  /\ p \in alive /\ InCall(p) /\ call[p] \in DOMAIN Code
           /\ pc[p] \in Nat /\ pc[p] + 1 \in 1 .. Len(Code[call[p]]) + 1
           /\ op \in {"once", "done"} => Of(p) \in Onces
           /\ op \in {"lock", "unlock"} => Of(p) \in Locks
           /\ op \in {"once", "lock"} =>
                 Held(call[p], pc[p] + 1) = Held(call[p], pc[p]) \cup {Of(p)}
           /\ op \in {"done", "unlock"} =>
                 /\ Of(p) \in Held(call[p], pc[p])
                 /\ Held(call[p], pc[p] + 1) = Held(call[p], pc[p]) \ {Of(p)}
           /\ Made(call[p], pc[p] + 1) \subseteq Made(call[p], pc[p])
           /\ op = "done" /\ Of(p) # "BOOT" => Of(p) \in Made(call[p], pc[p])
           /\ op = "done" /\ Of(p) = "BOOT" => Registered(call[p], pc[p])
           /\ After(call[p], pc[p] + 1) =>
                 After(call[p], pc[p]) \/ (op = "done" /\ Of(p) = "BOOT")
           /\ Registered(call[p], pc[p] + 1) => Registered(call[p], pc[p])
           /\ ~Before(call[p], pc[p] + 1, "spawn") /\ ~Before(call[p], pc[p] + 1, "hot")
<1>1. /\ p \in alive /\ InCall(p) /\ call[p] \in DOMAIN Code
      /\ pc[p] \in 1 .. Len(Code[call[p]]) /\ pc[p] \in Nat
      /\ Code[call[p]][pc[p]].op = op /\ Len(Code[call[p]]) \in Nat
      /\ WellNested(call[p], pc[p])
  BY AtPlace, Zenon
<1>2. pc[p] + 1 \in 1 .. Len(Code[call[p]]) + 1
  BY <1>1
<1> QED BY <1>1, <1>2, Zenon DEF WellNested, Of

(* They move the thread to one of the places its instruction leads to. *)
LEMMA PassesMove ==
    ASSUME SInv, NEW p \in Procs, Passes(p)
    PROVE  \E j : Moves(p, j)
<1>1. CASE OnceSkip(p)
  BY <1>1, AtPlace, Quiet, Zenon DEF OnceSkip, Moves, Goto, guards
<1>2. CASE OnceInit(p)
  BY <1>2, AtPlace, Quiet, Zenon DEF OnceInit, Moves, Goto, Step
<1>3. CASE register_fork_handlers(p)
  BY <1>3, AtPlace, Quiet, Zenon DEF register_fork_handlers, Moves, Goto, Step, guards
<1>4. CASE init_magic(p)
  BY <1>4, AtPlace, Quiet, Zenon DEF init_magic, Moves, Goto, Step, guards
<1>5. CASE Count(p)
  BY <1>5, AtPlace, Quiet, Zenon DEF Count, Moves, Goto, Step, guards
<1>6. CASE spawn_gtrim_thread(p)
  BY <1>6, AtPlace, Quiet, Zenon DEF spawn_gtrim_thread, Moves, Goto, Step, guards
<1>7. CASE HotReady(p)
  BY <1>7, AtPlace, Quiet, Zenon DEF HotReady, Moves, Goto, Step, guards
<1>8. CASE FreeCount(p)
  BY <1>8, AtPlace, Quiet, Zenon DEF FreeCount, Moves, Goto, Step, guards
<1>9. CASE Cached(p)
  BY <1>9, AtPlace, Quiet, Zenon DEF Cached, Moves, Goto, Step, guards
<1>10. CASE Kept(p)
  BY <1>10, AtPlace, Quiet, Zenon DEF Kept, Moves, Goto, Step, guards
<1>11. CASE Room(p)
  BY <1>11, AtPlace, Quiet, Zenon DEF Room, Moves, Goto, Step, guards
<1>12. CASE Block(p)
  BY <1>12, AtPlace, Quiet, Zenon DEF Block, Moves, Goto, Step, guards
<1>13. CASE Drop(p)
  <2>1. Of(p) = "VA_LOCK"
    BY <1>13, AtPlace, Zenon DEF Drop, WellNested, Of
  <2> QED BY <1>13, <2>1, AtPlace, Quiet, Zenon DEF Drop, Moves, Goto, Step
<1>14. CASE Add(p)
  BY <1>14, AtPlace, Quiet, Zenon DEF Add, Moves, Goto, Step, guards
<1>15. CASE Claim(p)
  BY <1>15, AtPlace, Quiet, Zenon DEF Claim, Moves, Goto, Step, guards
<1> QED BY <1>1, <1>2, <1>3, <1>4, <1>5, <1>6, <1>7, <1>8, <1>9, <1>10, <1>11, <1>12, <1>13,
           <1>14, <1>15, Zenon DEF Passes

(* The places an instruction leads to. *)
LEMMA MovesPlace ==
    ASSUME SInv, NEW p \in Procs, NEW j, Moves(p, j)
    PROVE  /\ p \in alive /\ call[p] \in DOMAIN Code
           /\ j \in 1 .. Len(Code[call[p]]) + 1 /\ j \in Nat
           /\ Held(call[p], j) = Held(call[p], pc[p])
<1>1. call[p] \in DOMAIN Code /\ pc[p] \in 1 .. Len(Code[call[p]]) /\ j \in Leads(call[p], pc[p])
  BY Zenon DEF Moves, InCall
<1>2. WellNested(call[p], pc[p]) /\ Len(Code[call[p]]) \in Nat
  BY <1>1, Instruction, CodeAssumption, Zenon
<1>3. j \in 1 .. Len(Code[call[p]]) + 1 /\ Held(call[p], j) = Held(call[p], pc[p])
  BY <1>1, <1>2, Zenon DEF WellNested
<1> QED BY <1>1, <1>2, <1>3 DEF Moves

(* The kinds of steps. *)
LEMMA Kinds ==
    ASSUME Next
    PROVE  \E p \in Procs :
              \/ Passes(p) \/ OnceEnter(p) \/ OnceDone(p) \/ Lock(p) \/ Unlock(p)
              \/ (\E c \in DOMAIN Code : Call(p, c)) \/ Return(p) \/ Start(p) \/ ForkStart(p)
              \/ fork_prepare(p) \/ fork_parent(p) \/ fork_child(p)
<1>1. Calls \subseteq DOMAIN Code /\ "trim_thread" \in DOMAIN Code
  BY CodeAssumption, Zenon
<1> QED BY <1>1, Zenon DEF Next, Request, Run, Passes

(* TimelySpec has fewer of them. *)
LEMMA TimelyKinds ==
    ASSUME TimelyNext
    PROVE  /\ Next
           /\ \E p \in Procs :
              \/ Passes(p) \/ OnceEnter(p) \/ OnceDone(p) \/ Lock(p) \/ Unlock(p)
              \/ (\E c \in DOMAIN Code : Call(p, c)) \/ Return(p) \/ Start(p) \/ ForkStart(p)
              \/ fork_prepare(p) \/ fork_parent(p) \/ (Timely(p) /\ fork_child(p))
<1>1. Calls \subseteq DOMAIN Code /\ "trim_thread" \in DOMAIN Code
  BY CodeAssumption, Zenon
<1>2. Next
  BY Zenon DEF TimelyNext, Next
<1> QED BY <1>1, <1>2, Zenon DEF TimelyNext, Request, Run, Passes

-----------------------------------------------------------------------------
(* Types. *)

(* Every step keeps the types. *)
LEMMA TypesKept ==
    ASSUME SInv, [Next]_vars
    PROVE  TypeOK'
<1> USE DEF TypeOK
<1>0. TypeOK
  BY Zenon DEF SInv
<1>1. CASE UNCHANGED vars
  BY <1>0, <1>1, Zenon DEF vars, guards, boot, trim, fork
<1>2. ASSUME NEW p \in Procs, Passes(p)
      PROVE  TypeOK'
  <2>1. PICK j : Moves(p, j)
    BY <1>2, PassesMove, Zenon
  <2>2. /\ once' \in [Onces -> 0 .. 2] /\ lock' \in [Locks -> BOOLEAN]
        /\ inside' \in [Procs -> SUBSET (Onces \cup Locks)]
        /\ call' \in [Procs -> DOMAIN Code \cup {"none", "fork"}]
        /\ pc' \in [Procs -> Nat]
    BY <1>0, <2>1, MovesPlace, Zenon DEF Moves
  <2>3. left' = left /\ ran' = ran /\ forks' = forks /\ mutex' = mutex
    BY <1>2, Zenon DEF Passes, fork, OnceSkip, OnceInit, register_fork_handlers, init_magic, Count,
            Add, Claim, Drop, spawn_gtrim_thread, HotReady, FreeCount, Cached, Kept, Room, Block
  <2>4. built' \subseteq Onces
    <3>1. CASE OnceInit(p)
      BY <1>0, <3>1, AtPlace, ZenonT(30) DEF OnceInit, WellNested, Of
    <3>2. CASE ~OnceInit(p)
      BY <1>0, <1>2, <3>2, Zenon DEF Passes, guards, OnceSkip, register_fork_handlers, init_magic,
            Count, Add, Claim, Drop, spawn_gtrim_thread, HotReady, FreeCount, Cached, Kept, Room,
            Block
    <3> QED BY <3>1, <3>2, SMTT(20)
  <2>5. alive' \subseteq Procs
    BY <1>0, <1>2, Zenon DEF Passes, OnceSkip, OnceInit, register_fork_handlers, init_magic, Count,
            Add, Claim, Drop, Procs, spawn_gtrim_thread, HotReady, FreeCount, Cached, Kept, Room,
            Block
  <2>6. handlers' \in Nat /\ magic' \in Nat /\ used' \subseteq Nat
    <3>1. handlers \in Nat /\ magic \in Nat /\ used \subseteq Nat
      BY <1>0, Zenon
    <3>2. CASE register_fork_handlers(p)
      BY <3>1, <3>2 DEF register_fork_handlers
    <3>3. CASE init_magic(p)
      BY <3>1, <3>3 DEF init_magic
    <3>4. CASE Block(p)
      BY <3>1, <3>4, Zenon DEF Block
    <3>5. CASE ~(register_fork_handlers(p) \/ init_magic(p) \/ Block(p))
      BY <1>2, <3>1, <3>5, Zenon DEF Passes, boot, OnceSkip, OnceInit, Count, Add, Claim, Drop,
              spawn_gtrim_thread, HotReady, FreeCount, Cached, Kept, Room
    <3> QED BY <3>2, <3>3, <3>4, <3>5, Zenon
  <2>7. spawned' \in BOOLEAN /\ hot' \in BOOLEAN /\ trimmers' \in Nat
    <3>1. spawned \in BOOLEAN /\ hot \in BOOLEAN /\ trimmers \in Nat
      BY <1>0, Zenon
    <3>2. CASE Claim(p)
      BY <3>1, <3>2, Zenon DEF Claim
    <3>3. CASE spawn_gtrim_thread(p)
      BY <3>1, <3>3 DEF spawn_gtrim_thread
    <3>4. CASE HotReady(p)
      BY <3>1, <3>4, Zenon DEF HotReady
    <3>5. CASE ~(Claim(p) \/ spawn_gtrim_thread(p) \/ HotReady(p))
      BY <1>2, <3>1, <3>5, Zenon DEF Passes, trim, OnceSkip, OnceInit, register_fork_handlers,
            init_magic, Drop, Count, Add, FreeCount, Cached, Kept, Room, Block
    <3> QED BY <3>2, <3>3, <3>4, <3>5, Zenon
  <2> QED BY <1>0, <2>2, <2>3, <2>4, <2>5, <2>6, <2>7, Zenon
<1>3. ASSUME NEW p \in Procs, OnceEnter(p) \/ OnceDone(p) \/ Lock(p) \/ Unlock(p)
      PROVE  TypeOK'
  <2>1. Of(p) \in Onces \cup Locks /\ pc[p] + 1 \in Nat
    BY <1>3, GuardPlace DEF OnceEnter, OnceDone, Lock, Unlock
  <2>2. pc' \in [Procs -> Nat] /\ call' = call
    BY <1>0, <1>3, <2>1, ZenonT(30) DEF OnceEnter, OnceDone, Lock, Unlock, Step, Goto
  <2>3. once' \in [Onces -> 0 .. 2]
    BY <1>0, <1>3, <2>1 DEF OnceEnter, OnceDone, Lock, Unlock
  <2>4. lock' \in [Locks -> BOOLEAN]
    BY <1>0, <1>3, <2>1, Zenon DEF OnceEnter, OnceDone, Lock, Unlock
  <2>5. inside' \in [Procs -> SUBSET (Onces \cup Locks)]
    BY <1>0, <1>3, <2>1 DEF OnceEnter, OnceDone, Lock, Unlock
  <2>6. UNCHANGED <<built, boot, trim, fork, alive>>
    BY <1>3, Zenon DEF OnceEnter, OnceDone, Lock, Unlock
  <2> QED BY <1>0, <2>2, <2>3, <2>4, <2>5, <2>6, Zenon DEF boot, trim, fork
<1>4. ASSUME NEW p \in Procs, NEW c \in DOMAIN Code, Call(p, c)
      PROVE  TypeOK'
  <2>1. HotStart(c) \in Nat
    BY CodeAssumption, SMTT(30)
  <2>2. pc' \in [Procs -> Nat] /\ call' \in [Procs -> DOMAIN Code \cup {"none", "fork"}]
    BY <1>0, <1>4, <2>1, Zenon DEF Call
  <2>3. UNCHANGED <<guards, boot, trim, fork, alive>>
    BY <1>4, Zenon DEF Call
  <2> QED BY <1>0, <2>2, <2>3, Zenon DEF guards, boot, trim, fork
<1>5. ASSUME NEW p \in Procs, Return(p)
      PROVE  TypeOK'
  <2>1. pc' \in [Procs -> Nat] /\ call' \in [Procs -> DOMAIN Code \cup {"none", "fork"}]
    BY <1>0, <1>5, Zenon DEF Return
  <2>2. UNCHANGED <<guards, boot, trim, fork, alive>>
    BY <1>5, Zenon DEF Return
  <2> QED BY <1>0, <2>1, <2>2, Zenon DEF guards, boot, trim, fork
<1>6. ASSUME NEW p \in Procs, Start(p)
      PROVE  TypeOK'
  BY <1>0, <1>6, Zenon DEF Start, guards, boot, trim, fork
<1>7. ASSUME NEW p \in Procs, ForkStart(p) \/ fork_prepare(p) \/ fork_parent(p)
      PROVE  TypeOK'
  <2>1. call' \in [Procs -> DOMAIN Code \cup {"none", "fork"}]
    BY <1>0, <1>7, Zenon DEF ForkStart, fork_prepare, fork_parent
  <2>2. left' \in [Procs -> Nat] /\ ran' \in [Procs -> Nat] /\ forks' \in Nat
    <3>1. CASE ForkStart(p)
      BY <1>0, <3>1 DEF ForkStart
    <3>2. CASE fork_prepare(p)
      BY <1>0, <3>2 DEF fork_prepare
    <3>3. CASE fork_parent(p)
      BY <1>0, <3>3, Zenon DEF fork_parent
    <3> QED BY <1>7, <3>1, <3>2, <3>3, Zenon
  <2>3. mutex' = TRUE \/ mutex' = FALSE \/ mutex' = mutex
    BY <1>7, Zenon DEF ForkStart, fork_prepare, fork_parent
  <2>4. UNCHANGED <<guards, boot, trim, pc, alive>>
    BY <1>7, Zenon DEF ForkStart, fork_prepare, fork_parent
  <2> QED BY <1>0, <2>1, <2>2, <2>3, <2>4, Zenon DEF guards, boot, trim
<1>8. ASSUME NEW p \in Procs, fork_child(p)
      PROVE  TypeOK'
  <2>1. /\ alive' \subseteq Procs /\ trimmers' \in Nat /\ pc' \in [Procs -> Nat]
        /\ call' \in [Procs -> DOMAIN Code \cup {"none", "fork"}]
        /\ inside' \in [Procs -> SUBSET (Onces \cup Locks)]
        /\ left' \in [Procs -> Nat] /\ ran' \in [Procs -> Nat]
    BY <1>8, Zenon DEF fork_child
  <2>2. once' \in [Onces -> 0 .. 2]
    BY <1>0, <1>8 DEF fork_child, reset_at_fork
  <2>3. lock' \in [Locks -> BOOLEAN]
    BY <1>0, <1>8, Zenon DEF fork_child, reset_on_fork
  <2>4. /\ mutex' = FALSE \/ mutex' = mutex
        /\ spawned' = FALSE \/ spawned' = spawned
        /\ hot' = FALSE \/ hot' = hot
    BY <1>8, Zenon DEF fork_child, reset_fork_thread_state
  <2>6. mutex' \in BOOLEAN /\ spawned' \in BOOLEAN /\ hot' \in BOOLEAN
    BY <1>0, <2>4, Zenon
  <2>5. UNCHANGED <<built, boot, forks>>
    BY <1>8, Zenon DEF fork_child
  <2> QED BY <1>0, <2>1, <2>2, <2>3, <2>5, <2>6, Zenon DEF boot
<1> QED BY <1>1, <1>2, <1>3, <1>4, <1>5, <1>6, <1>7, <1>8, Kinds, Zenon

-----------------------------------------------------------------------------
(* Places. *)

(* No call is called none or fork. *)
LEMMA NotCalls == "none" \notin DOMAIN Code /\ "fork" \notin DOMAIN Code
BY CodeAssumption, Zenon

(* Every step leaves each thread inside what its place says. *)
LEMMA PlacesKept ==
    ASSUME SInv, [Next]_vars
    PROVE  Places'
<1>0. TypeOK /\ Places
  BY Zenon DEF SInv
<1> USE DEF Places, InCall
<1>1. CASE UNCHANGED vars
  BY <1>0, <1>1, Zenon DEF vars, guards
<1>2. ASSUME NEW p \in Procs, Passes(p)
      PROVE  Places'
  <2>1. PICK j : Moves(p, j)
    BY <1>2, PassesMove, Zenon
  <2>2. /\ p \in alive /\ call[p] \in DOMAIN Code
        /\ j \in 1 .. Len(Code[call[p]]) + 1 /\ Held(call[p], j) = Held(call[p], pc[p])
    BY <2>1, MovesPlace, Zenon
  <2>3. alive \subseteq alive'
    BY <1>2, Zenon DEF Passes, OnceSkip, OnceInit, register_fork_handlers, init_magic, Count, Add,
            Claim, Drop, spawn_gtrim_thread, HotReady, FreeCount, Cached, Kept, Room, Block
  <2>4. pc' = [pc EXCEPT ![p] = j] /\ call' = call /\ inside' = inside
    BY <2>1, Zenon DEF Moves
  <2> QED BY <1>0, <2>2, <2>3, <2>4, Zenon DEF TypeOK
<1>3. ASSUME NEW p \in Procs, OnceEnter(p) \/ Lock(p)
      PROVE  Places'
  <2>1. /\ p \in alive /\ call[p] \in DOMAIN Code
        /\ pc[p] + 1 \in 1 .. Len(Code[call[p]]) + 1
        /\ Held(call[p], pc[p] + 1) = Held(call[p], pc[p]) \cup {Of(p)}
    BY <1>3, GuardPlace, Zenon DEF OnceEnter, Lock
  <2>2. /\ pc' = [pc EXCEPT ![p] = pc[p] + 1] /\ call' = call /\ alive' = alive
        /\ inside' = [inside EXCEPT ![p] = @ \cup {Of(p)}]
    BY <1>3, Zenon DEF OnceEnter, Lock, Step, Goto
  <2> QED BY <1>0, <2>1, <2>2, Zenon DEF TypeOK
<1>4. ASSUME NEW p \in Procs, OnceDone(p) \/ Unlock(p)
      PROVE  Places'
  <2>1. /\ p \in alive /\ call[p] \in DOMAIN Code
        /\ pc[p] + 1 \in 1 .. Len(Code[call[p]]) + 1
        /\ Held(call[p], pc[p] + 1) = Held(call[p], pc[p]) \ {Of(p)}
    BY <1>4, GuardPlace, Zenon DEF OnceDone, Unlock
  <2>2. /\ pc' = [pc EXCEPT ![p] = pc[p] + 1] /\ call' = call /\ alive' = alive
        /\ inside' = [inside EXCEPT ![p] = @ \ {Of(p)}]
    BY <1>4, Zenon DEF OnceDone, Unlock, Step, Goto
  <2> QED BY <1>0, <2>1, <2>2, Zenon DEF TypeOK
<1>5. ASSUME NEW p \in Procs, NEW c \in DOMAIN Code, Call(p, c)
      PROVE  Places'
  <2>1. /\ Held(c, 1) = {} /\ 1 \in 1 .. Len(Code[c]) + 1
        /\ Held(c, HotStart(c)) = {} /\ HotStart(c) \in 1 .. Len(Code[c]) + 1
    <3>1. /\ Len(Code[c]) \in Nat /\ HotStart(c) \in 1 .. Len(Code[c])
          /\ Held(c, 1) = {} /\ Held(c, HotStart(c)) = {}
      BY CodeAssumption, Zenon
    <3> QED BY <3>1
  <2>2. /\ p \in alive /\ call[p] = "none" /\ alive' = alive /\ inside' = inside
        /\ call' = [call EXCEPT ![p] = c]
        /\ pc' = [pc EXCEPT ![p] = IF hot THEN HotStart(c) ELSE 1]
    BY <1>5, Zenon DEF Call, Idle, guards
  <2> QED BY <1>0, <2>1, <2>2, NotCalls, ZenonT(30) DEF TypeOK
<1>6. ASSUME NEW p \in Procs, Return(p)
      PROVE  Places'
  <2>1. /\ p \in alive /\ call[p] \in DOMAIN Code /\ pc[p] = Len(Code[call[p]]) + 1
        /\ alive' = alive /\ inside' = inside
        /\ call' = [call EXCEPT ![p] = "none"] /\ pc' = [pc EXCEPT ![p] = 1]
    BY <1>6, Zenon DEF Return, guards
  <2>2. Held(call[p], pc[p]) = {}
    BY <2>1, CodeAssumption, Zenon
  <2> QED BY <1>0, <2>1, <2>2, NotCalls, Zenon DEF TypeOK
<1>7. ASSUME NEW p \in Procs, Start(p)
      PROVE  Places'
  BY <1>0, <1>7, Zenon DEF Start, guards
<1>8. ASSUME NEW p \in Procs, ForkStart(p) \/ fork_prepare(p) \/ fork_parent(p)
      PROVE  Places'
  <2>1. /\ p \in alive /\ call[p] \in {"none", "fork"}
        /\ alive' = alive /\ inside' = inside /\ pc' = pc
        /\ \/ call' = call
           \/ call' = [call EXCEPT ![p] = "none"]
           \/ call' = [call EXCEPT ![p] = "fork"]
    BY <1>8, Zenon DEF ForkStart, fork_prepare, fork_parent, Idle, Forking, guards
  <2>2. call'[p] \notin DOMAIN Code /\ call[p] \notin DOMAIN Code
    BY <1>0, <2>1, NotCalls, Zenon DEF TypeOK
  <2>3. \A q \in Procs \ {p} : call'[q] = call[q]
    BY <1>0, <2>1, Zenon DEF TypeOK
  <2> QED BY <1>0, <2>1, <2>2, <2>3, Zenon
<1>9. ASSUME NEW p \in Procs, fork_child(p)
      PROVE  Places'
  BY <1>9, NotCalls, Zenon DEF fork_child
<1> QED BY <1>1, <1>2, <1>3, <1>4, <1>5, <1>6, <1>7, <1>8, <1>9, Kinds, Zenon

-----------------------------------------------------------------------------
(* Guards and locks. *)

(* Every step, and fork_child too, leaves each guard and lock to one thread. *)
LEMMA AloneKept ==
    ASSUME SInv, [Next]_vars
    PROVE  Alone'
<1>0. TypeOK /\ Places /\ Alone
  BY Zenon DEF SInv
<1> USE DEF Alone
<1>1. ASSUME UNCHANGED <<once, inside>>, alive \subseteq alive',
             lock' = lock \/ lock' = [lock EXCEPT !["VA_LOCK"] = FALSE]
      PROVE  Alone'
  <2>1. \A l \in Locks \ {"VA_LOCK"} : lock'[l] = lock[l]
    BY <1>0, <1>1 DEF TypeOK
  <2> QED BY <1>0, <1>1, <2>1, Zenon
<1>2. ASSUME NEW p \in Procs, Passes(p)
      PROVE  Alone'
  <2>1. PICK j : Moves(p, j)
    BY <1>2, PassesMove, Zenon
  <2>2. alive \subseteq alive'
    BY <1>2, Zenon DEF Passes, OnceSkip, OnceInit, register_fork_handlers, init_magic, Count, Add,
            Claim, Drop, spawn_gtrim_thread, HotReady, FreeCount, Cached, Kept, Room, Block
  <2> QED BY <1>1, <2>1, <2>2, Zenon DEF Moves
<1>3. ASSUME NEW p \in Procs, OnceEnter(p)
      PROVE  Alone'
  <2>1. p \in alive /\ Of(p) \in Onces /\ once[Of(p)] = 0
    BY <1>3, GuardPlace, Zenon DEF OnceEnter
  <2>2. /\ once' = [once EXCEPT ![Of(p)] = 1] /\ lock' = lock /\ alive' = alive
        /\ inside' = [inside EXCEPT ![p] = @ \cup {Of(p)}]
    BY <1>3, Zenon DEF OnceEnter
  <2>3. \A q \in Procs : Of(p) \notin inside[q]
    BY <1>0, <2>1
  <2>4. Of(p) \notin Locks
    BY <2>1, Zenon DEF Onces, Locks
  <2> QED BY <1>0, <2>1, <2>2, <2>3, <2>4 DEF TypeOK
<1>4. ASSUME NEW p \in Procs, OnceDone(p)
      PROVE  Alone'
  <2>1. /\ p \in alive /\ Of(p) \in Onces /\ Of(p) \in inside[p]
    <3>1. At(p, "done")
      BY <1>4, Zenon DEF OnceDone
    <3>2. p \in alive /\ InCall(p) /\ Of(p) \in Onces /\ Of(p) \in Held(call[p], pc[p])
      BY <3>1, GuardPlace, Zenon
    <3>3. inside[p] = Held(call[p], pc[p])
      BY <1>0, <3>2, Zenon DEF Places
    <3> QED BY <3>2, <3>3, Zenon
  <2>2. /\ once' = [once EXCEPT ![Of(p)] = 2] /\ lock' = lock /\ alive' = alive
        /\ inside' = [inside EXCEPT ![p] = @ \ {Of(p)}]
    BY <1>4, Zenon DEF OnceDone
  <2>3. \A q \in Procs \ {p} : Of(p) \notin inside[q]
    BY <1>0, <2>1 DEF Onces
  <2>4. Of(p) \notin Locks
    BY <2>1, Zenon DEF Onces, Locks
  <2> QED BY <1>0, <2>1, <2>2, <2>3, <2>4 DEF TypeOK
<1>5. ASSUME NEW p \in Procs, Lock(p)
      PROVE  Alone'
  <2>1. p \in alive /\ Of(p) \in Locks /\ ~lock[Of(p)]
    BY <1>5, GuardPlace, Zenon DEF Lock
  <2>2. /\ lock' = [lock EXCEPT ![Of(p)] = TRUE] /\ once' = once /\ alive' = alive
        /\ inside' = [inside EXCEPT ![p] = @ \cup {Of(p)}]
    BY <1>5, Zenon DEF Lock
  <2>3. Of(p) # "VA_LOCK" => \A q \in Procs : Of(p) \notin inside[q]
    BY <1>0, <2>1, Zenon
  <2>4. Of(p) \notin Onces
    BY <2>1, Zenon DEF Onces, Locks
  <2> QED BY <1>0, <2>1, <2>2, <2>3, <2>4 DEF TypeOK
<1>6. ASSUME NEW p \in Procs, Unlock(p)
      PROVE  Alone'
  <2>1. /\ p \in alive /\ Of(p) \in Locks /\ Of(p) \in inside[p]
    <3>1. At(p, "unlock")
      BY <1>6, Zenon DEF Unlock
    <3>2. p \in alive /\ InCall(p) /\ Of(p) \in Locks /\ Of(p) \in Held(call[p], pc[p])
      BY <3>1, GuardPlace, Zenon
    <3>3. inside[p] = Held(call[p], pc[p])
      BY <1>0, <3>2, Zenon DEF Places
    <3> QED BY <3>2, <3>3, Zenon
  <2>2. /\ lock' = [lock EXCEPT ![Of(p)] = FALSE] /\ once' = once /\ alive' = alive
        /\ inside' = [inside EXCEPT ![p] = @ \ {Of(p)}]
    BY <1>6, Zenon DEF Unlock
  <2>3. Of(p) # "VA_LOCK" => \A q \in Procs \ {p} : Of(p) \notin inside[q]
    BY <1>0, <2>1
  <2>4. Of(p) \notin Onces
    BY <2>1, Zenon DEF Onces, Locks
  <2> QED BY <1>0, <2>1, <2>2, <2>3, <2>4 DEF TypeOK
<1>7. ASSUME NEW p \in Procs, \/ \E c \in DOMAIN Code : Call(p, c)
                              \/ Return(p) \/ Start(p) \/ ForkStart(p)
                              \/ fork_prepare(p) \/ fork_parent(p)
      PROVE  Alone'
  BY <1>1, <1>7, Zenon DEF Call, Return, Start, ForkStart, fork_prepare, fork_parent, guards
<1>8. ASSUME NEW p \in Procs, fork_child(p)
      PROVE  Alone'
  BY <1>8, Zenon DEF fork_child
<1> QED BY <1>1, <1>2, <1>3, <1>4, <1>5, <1>6, <1>7, <1>8, Kinds, Zenon DEF vars, guards

(* A timely fork leaves no guard or lock with a thread that is gone. *)
LEMMA OwnersKept ==
    ASSUME IInv, [TimelyNext]_vars
    PROVE  Owners'
<1>0. TypeOK /\ Places /\ Alone /\ Owners /\ SInv
  BY Zenon DEF IInv, SInv
<1> USE DEF Alone, Owners
<1>1. ASSUME UNCHANGED <<once, inside>>, alive \subseteq alive',
             lock' = lock \/ lock' = [lock EXCEPT !["VA_LOCK"] = FALSE]
      PROVE  Owners'
  <2>1. \A l \in Locks : lock'[l] => lock[l]
    BY <1>0, <1>1, Zenon DEF TypeOK
  <2> QED BY <1>0, <1>1, <2>1, Zenon
<1>2. ASSUME NEW p \in Procs, Passes(p)
      PROVE  Owners'
  <2>1. PICK j : Moves(p, j)
    BY <1>0, <1>2, PassesMove, Zenon
  <2>2. alive \subseteq alive'
    BY <1>2, Zenon DEF Passes, OnceSkip, OnceInit, register_fork_handlers, init_magic, Count, Add,
            Claim, Drop, spawn_gtrim_thread, HotReady, FreeCount, Cached, Kept, Room, Block
  <2> QED BY <1>1, <2>1, <2>2, Zenon DEF Moves
<1>3. ASSUME NEW p \in Procs, OnceEnter(p)
      PROVE  Owners'
  <2>1. p \in alive /\ Of(p) \in Onces /\ once[Of(p)] = 0
    BY <1>0, <1>3, GuardPlace, Zenon DEF OnceEnter
  <2>2. /\ once' = [once EXCEPT ![Of(p)] = 1] /\ lock' = lock /\ alive' = alive
        /\ inside' = [inside EXCEPT ![p] = @ \cup {Of(p)}]
    BY <1>3, Zenon DEF OnceEnter
  <2>3. \A q \in Procs : Of(p) \notin inside[q]
    BY <1>0, <2>1
  <2>4. Of(p) \notin Locks
    BY <2>1, Zenon DEF Onces, Locks
  <2> QED BY <1>0, <2>1, <2>2, <2>3, <2>4 DEF TypeOK
<1>4. ASSUME NEW p \in Procs, OnceDone(p)
      PROVE  Owners'
  <2>1. /\ p \in alive /\ Of(p) \in Onces /\ Of(p) \in inside[p]
    <3>1. At(p, "done")
      BY <1>4, Zenon DEF OnceDone
    <3>2. p \in alive /\ InCall(p) /\ Of(p) \in Onces /\ Of(p) \in Held(call[p], pc[p])
      BY <1>0, <3>1, GuardPlace, Zenon
    <3>3. inside[p] = Held(call[p], pc[p])
      BY <1>0, <3>2, Zenon DEF Places
    <3> QED BY <3>2, <3>3, Zenon
  <2>2. /\ once' = [once EXCEPT ![Of(p)] = 2] /\ lock' = lock /\ alive' = alive
        /\ inside' = [inside EXCEPT ![p] = @ \ {Of(p)}]
    BY <1>4, Zenon DEF OnceDone
  <2>3. \A q \in Procs \ {p} : Of(p) \notin inside[q]
    BY <1>0, <2>1 DEF Onces
  <2>4. Of(p) \notin Locks
    BY <2>1, Zenon DEF Onces, Locks
  <2> QED BY <1>0, <2>1, <2>2, <2>3, <2>4 DEF TypeOK
<1>5. ASSUME NEW p \in Procs, Lock(p)
      PROVE  Owners'
  <2>1. p \in alive /\ Of(p) \in Locks /\ ~lock[Of(p)]
    BY <1>0, <1>5, GuardPlace, Zenon DEF Lock
  <2>2. /\ lock' = [lock EXCEPT ![Of(p)] = TRUE] /\ once' = once /\ alive' = alive
        /\ inside' = [inside EXCEPT ![p] = @ \cup {Of(p)}]
    BY <1>5, Zenon DEF Lock
  <2>4. Of(p) \notin Onces
    BY <2>1, Zenon DEF Onces, Locks
  <2> QED BY <1>0, <2>1, <2>2, <2>4 DEF TypeOK
<1>6. ASSUME NEW p \in Procs, Unlock(p)
      PROVE  Owners'
  <2>1. /\ p \in alive /\ Of(p) \in Locks /\ Of(p) \in inside[p]
    <3>1. At(p, "unlock")
      BY <1>6, Zenon DEF Unlock
    <3>2. p \in alive /\ InCall(p) /\ Of(p) \in Locks /\ Of(p) \in Held(call[p], pc[p])
      BY <1>0, <3>1, GuardPlace, Zenon
    <3>3. inside[p] = Held(call[p], pc[p])
      BY <1>0, <3>2, Zenon DEF Places
    <3> QED BY <3>2, <3>3, Zenon
  <2>2. /\ lock' = [lock EXCEPT ![Of(p)] = FALSE] /\ once' = once /\ alive' = alive
        /\ inside' = [inside EXCEPT ![p] = @ \ {Of(p)}]
    BY <1>6, Zenon DEF Unlock
  <2>4. Of(p) \notin Onces
    BY <2>1, Zenon DEF Onces, Locks
  <2> QED BY <1>0, <2>1, <2>2, <2>4 DEF TypeOK
<1>7. ASSUME NEW p \in Procs, \/ \E c \in DOMAIN Code : Call(p, c)
                              \/ Return(p) \/ Start(p) \/ ForkStart(p)
                              \/ fork_prepare(p) \/ fork_parent(p)
      PROVE  Owners'
  BY <1>1, <1>7, Zenon DEF Call, Return, Start, ForkStart, fork_prepare, fork_parent, guards
<1>8. ASSUME NEW p \in Procs, Timely(p), fork_child(p)
      PROVE  Owners'
  <2>1. /\ \A q \in Procs : inside'[q] = {}
        /\ \A g \in Onces : once'[g] = 1 => once[g] = 1 /\ (g \in ResetOnces => ran[p] = 0)
        /\ \A l \in Locks : lock'[l] => lock[l] /\ (l \in ResetLocks => ran[p] = 0)
    <3>1. \A q \in Procs : inside'[q] = {}
      BY <1>8, Zenon DEF fork_child
    <3>2. CASE ran[p] > 0 /\ once' = [g \in Onces |->
                          IF g \in ResetOnces THEN reset_at_fork(once[g]) ELSE once[g]]
                          /\ lock' = [l \in Locks |-> reset_on_fork(l)]
      BY <3>1, <3>2 DEF reset_at_fork, reset_on_fork
    <3>3. CASE ran[p] = 0 /\ once' = once /\ lock' = lock
      BY <3>1, <3>3, Zenon
    <3> QED BY <1>8, <3>2, <3>3, Zenon DEF fork_child
  <2>2. inside[p] = {}
    <3>1. call[p] = "fork"
      BY <1>8, Zenon DEF fork_child, Forking
    <3>2. ~InCall(p)
      BY <3>1, NotCalls, Zenon DEF InCall
    <3>3. Places
      BY <1>0, Zenon
    <3> QED BY <3>2, <3>3, Zenon DEF Places
  <2>3. \A q \in alive : inside[q] \subseteq Covered /\ (ran[p] = 0 => inside[q] = {})
    BY <1>8, <2>2, Zenon DEF Timely
  <2>4. \A g \in Onces : once'[g] # 1
    BY <1>0, <2>1, <2>3 DEF Covered, ResetOnces, ResetLocks, Onces
  <2>5. \A l \in Locks : ~lock'[l]
    BY <1>0, <2>1, <2>3, SMTT(20) DEF Covered, ResetOnces, ResetLocks, Onces, Locks
  <2> QED BY <2>1, <2>4, <2>5, Zenon
<1> QED BY <1>1, <1>2, <1>3, <1>4, <1>5, <1>6, <1>7, <1>8, TimelyKinds, Zenon DEF vars, guards

-----------------------------------------------------------------------------
(* What is guarded. *)

(* Work is done before its guard says so, and no fork undoes it. *)
LEMMA WorksKept ==
    ASSUME SInv, [Next]_vars
    PROVE  Works'
<1>0. TypeOK /\ Places /\ Works
  BY Zenon DEF SInv
<1> USE DEF Works, DoneMeansBuilt, InCall
<1>1. CASE UNCHANGED vars
  BY <1>0, <1>1, Zenon DEF vars, guards
<1>2. ASSUME NEW p \in Procs, Passes(p)
      PROVE  Works'
  <2>1. PICK j : Moves(p, j)
    BY <1>2, PassesMove, Zenon
  <2>2. /\ call[p] \in DOMAIN Code /\ pc[p] \in 1 .. Len(Code[call[p]])
        /\ j \in Leads(call[p], pc[p]) /\ pc' = [pc EXCEPT ![p] = j] /\ call' = call /\ once' = once
    BY <2>1, Zenon DEF Moves
  <2>3. built \subseteq built'
    BY <1>2, Zenon DEF Passes, guards, OnceSkip, OnceInit, register_fork_handlers, init_magic,
            Count, Add, Claim, Drop, spawn_gtrim_thread, HotReady, FreeCount, Cached, Kept, Room,
            Block
  <2>4. Made(call[p], j) \subseteq built'
    <3>1. CASE OnceInit(p)
      <4>1. WellNested(call[p], pc[p])
        BY <2>2, Instruction, Zenon
      <4>2. Made(call[p], j) \subseteq Made(call[p], pc[p]) \cup {Of(p)}
        BY <2>2, <4>1, Zenon DEF WellNested, Of
      <4>3. Made(call[p], pc[p]) \subseteq built
        BY <1>0, <2>2, Zenon
      <4>4. built' = built \cup {Of(p)}
        BY <3>1, Zenon DEF OnceInit
      <4> QED BY <4>2, <4>3, <4>4, Zenon
    <3>2. CASE Code[call[p]][pc[p]].op # "init"
      BY <1>0, <2>2, <2>3, <3>2, Instruction, Zenon DEF WellNested
    <3>3. Code[call[p]][pc[p]].op = "init" => OnceInit(p)
      BY <1>2, Zenon DEF Passes, At, OnceSkip, register_fork_handlers, init_magic, Count, Add,
              Claim, Drop, spawn_gtrim_thread, HotReady, FreeCount, Cached, Kept, Room, Block
    <3> QED BY <3>1, <3>2, <3>3, Zenon
  <2> QED BY <1>0, <2>2, <2>3, <2>4, Zenon DEF TypeOK
<1>3. ASSUME NEW p \in Procs, OnceEnter(p) \/ OnceDone(p) \/ Lock(p) \/ Unlock(p)
      PROVE  Works'
  <2>1. /\ call[p] \in DOMAIN Code
        /\ Made(call[p], pc[p] + 1) \subseteq Made(call[p], pc[p])
    BY <1>3, GuardPlace, Zenon DEF OnceEnter, OnceDone, Lock, Unlock
  <2>2. pc' = [pc EXCEPT ![p] = pc[p] + 1] /\ call' = call /\ built' = built
    BY <1>3, Zenon DEF OnceEnter, OnceDone, Lock, Unlock, Step, Goto
  <2>3. \A q \in Procs : call'[q] \in DOMAIN Code => Made(call'[q], pc'[q]) \subseteq built'
    BY <1>0, <2>1, <2>2, Zenon DEF TypeOK
  <2>4. \A g \in Onces \ {"BOOT"} : once'[g] = 2 => g \in built'
    <3>1. CASE OnceDone(p)
      <4>1. Of(p) # "BOOT" => Of(p) \in built
        BY <1>0, <2>1, <3>1, GuardPlace, Zenon DEF OnceDone
      <4>2. once' = [once EXCEPT ![Of(p)] = 2]
        BY <3>1, Zenon DEF OnceDone
      <4> QED BY <1>0, <2>2, <4>1, <4>2, Zenon DEF TypeOK
    <3>2. CASE OnceEnter(p) \/ Lock(p) \/ Unlock(p)
      <4>1. once' = [once EXCEPT ![Of(p)] = 1] \/ once' = once
        BY <3>2, Zenon DEF OnceEnter, Lock, Unlock
      <4> QED BY <1>0, <2>2, <4>1 DEF TypeOK
    <3> QED BY <1>3, <3>1, <3>2, Zenon
  <2> QED BY <2>3, <2>4, Zenon
<1>4. ASSUME NEW p \in Procs, NEW c \in DOMAIN Code, Call(p, c)
      PROVE  Works'
  <2>1. Made(c, 1) = {} /\ Made(c, HotStart(c)) = {}
    BY CodeAssumption, Zenon DEF Made
  <2>2. /\ once' = once /\ built' = built /\ call' = [call EXCEPT ![p] = c]
        /\ pc' = [pc EXCEPT ![p] = IF hot THEN HotStart(c) ELSE 1]
    BY <1>4, Zenon DEF Call, guards
  <2> QED BY <1>0, <2>1, <2>2, Zenon DEF TypeOK
<1>5. ASSUME NEW p \in Procs,
             Return(p) \/ Start(p) \/ ForkStart(p) \/ fork_prepare(p) \/ fork_parent(p)
      PROVE  Works'
  <2>1. /\ once' = once /\ built' = built
        /\ \/ call' = call /\ pc' = pc
           \/ call' = [call EXCEPT ![p] = "none"] /\ (\A q \in Procs \ {p} : pc'[q] = pc[q])
           \/ call' = [call EXCEPT ![p] = "fork"] /\ pc' = pc
    BY <1>0, <1>5, Zenon DEF Return, Start, ForkStart, fork_prepare, fork_parent, guards, TypeOK
  <2> QED BY <1>0, <2>1, NotCalls, Zenon DEF TypeOK
<1>6. ASSUME NEW p \in Procs, fork_child(p)
      PROVE  Works'
  <2>1. built' = built /\ (\A q \in Procs : call'[q] = "none")
    BY <1>6, Zenon DEF fork_child
  <2>2. \A g \in Onces : once'[g] = 2 => once[g] = 2
    BY <1>0, <1>6, SMTT(20) DEF fork_child, reset_at_fork, TypeOK
  <2> QED BY <1>0, <2>1, <2>2, NotCalls, Zenon
<1> QED BY <1>1, <1>2, <1>3, <1>4, <1>5, <1>6, Kinds, Zenon

-----------------------------------------------------------------------------
(* boot_strap. *)

(* The handlers are registered before boot_strap is over. *)
LEMMA BootsKept ==
    ASSUME SInv, [Next]_vars
    PROVE  Boots'
<1>0. TypeOK /\ Places /\ Alone /\ Boots
  BY Zenon DEF SInv
<1> USE DEF Boots, MagicStable, InCall
<1>1. CASE UNCHANGED vars
  BY <1>0, <1>1, Zenon DEF vars, guards, boot, trim
<1>2. ASSUME NEW p \in Procs, Passes(p)
      PROVE  Boots'
  <2>1. PICK j : Moves(p, j)
    BY <1>2, PassesMove, Zenon
  <2>2. /\ p \in alive /\ call[p] \in DOMAIN Code /\ pc[p] \in 1 .. Len(Code[call[p]])
        /\ j \in Leads(call[p], pc[p]) /\ pc' = [pc EXCEPT ![p] = j]
        /\ call' = call /\ once' = once
    BY <2>1, Zenon DEF Moves
  <2> DEFINE op == Code[call[p]][pc[p]].op
             g  == Code[call[p]][pc[p]].g
  <2>3. /\ After(call[p], j) => After(call[p], pc[p]) \/ (op = "once" /\ g = "BOOT")
        /\ Registered(call[p], j) =>
              Registered(call[p], pc[p]) \/ op = "register" \/ (op = "once" /\ g = "BOOT")
        /\ op \in {"hot", "block"} => After(call[p], pc[p])
        /\ op = "magic" => "BOOT" \in Held(call[p], pc[p])
    BY <2>2, Instruction, ZenonT(30) DEF WellNested
  <2>4. /\ op = "once" => OnceSkip(p)
        /\ op = "register" => register_fork_handlers(p)
    BY <1>2, Zenon DEF Passes, At, OnceSkip, OnceInit, register_fork_handlers,
                init_magic, Count, Add, Claim, Drop, spawn_gtrim_thread, HotReady, FreeCount,
                Cached, Kept, Room, Block
  <2>5. op = "once" /\ g = "BOOT" => once["BOOT"] = 2
    BY <2>4, Zenon DEF OnceSkip, Skips, Of
  <2>6. handlers' \in Nat /\ handlers' >= handlers /\ (op = "register" => handlers' > 0)
    <3>1. handlers \in Nat
      BY <1>0, Zenon DEF TypeOK
    <3>2. CASE register_fork_handlers(p)
      BY <3>1, <3>2, SMTT(20) DEF register_fork_handlers
    <3>3. CASE ~register_fork_handlers(p)
      <4>1. handlers' = handlers
        BY <1>2, <3>3, Zenon DEF Passes, boot, OnceSkip, OnceInit, init_magic, Count, Add, Claim,
                Drop, Block, spawn_gtrim_thread, HotReady, FreeCount, Cached, Kept, Room
      <4> QED BY <2>4, <3>1, <3>3, <4>1
    <3> QED BY <3>2, <3>3, Zenon
  <2>7. /\ \A q \in Procs : call'[q] \in DOMAIN Code /\ After(call'[q], pc'[q]) => once'["BOOT"] = 2
        /\ once'["BOOT"] = 2 => handlers' > 0
    BY <1>0, <2>2, <2>3, <2>5, <2>6 DEF TypeOK
  <2>8. \A q \in Procs : call'[q] \in DOMAIN Code /\ Registered(call'[q], pc'[q]) => handlers' > 0
    BY <1>0, <2>2, <2>3, <2>5, <2>6 DEF TypeOK
  <2>9. hot' => once'["BOOT"] = 2
    <3>1. CASE HotReady(p)
      BY <1>0, <2>2, <2>3, <3>1, Zenon DEF HotReady, At
    <3>2. CASE ~HotReady(p)
      <4>1. hot' = hot
        BY <1>2, <3>2, Zenon DEF Passes, trim, OnceSkip, OnceInit,
                    register_fork_handlers, init_magic, Count, Add, Claim, Drop,
                    spawn_gtrim_thread, FreeCount, Cached, Kept, Room, Block
      <4> QED BY <1>0, <2>2, <4>1, Zenon
    <3> QED BY <3>1, <3>2, Zenon
  <2>10. (used' # {} => once'["BOOT"] = 2) /\ used' \subseteq {magic'}
    <3>1. CASE Block(p)
      <4>1. used' = used \cup {magic} /\ magic' = magic
        BY <3>1, Zenon DEF Block
      <4>2. once["BOOT"] = 2
        BY <1>0, <2>2, <2>3, <3>1, Zenon DEF Block, At
      <4> QED BY <1>0, <2>2, <4>1, <4>2, Zenon
    <3>2. CASE init_magic(p)
      <4>1. used' = used
        BY <3>2, Zenon DEF init_magic
      <4>2. once["BOOT"] = 1
        <5>1. "BOOT" \in Held(call[p], pc[p])
          BY <2>3, <3>2, Zenon DEF init_magic, At
        <5>2. "BOOT" \in inside[p]
          BY <1>0, <2>2, <5>1, Zenon DEF Places
        <5> QED BY <1>0, <5>2, Zenon DEF Alone, Onces
      <4> QED BY <1>0, <2>2, <4>1, <4>2
    <3>3. CASE ~Block(p) /\ ~init_magic(p)
      <4>1. used' = used /\ magic' = magic
        BY <1>2, <3>3, Zenon DEF Passes, boot, OnceSkip, OnceInit, register_fork_handlers,
              Count, Add, Claim, Drop, spawn_gtrim_thread, HotReady, FreeCount, Cached, Kept, Room
      <4> QED BY <1>0, <2>2, <4>1, Zenon
    <3> QED BY <3>1, <3>2, <3>3, Zenon
  <2> QED BY <2>7, <2>8, <2>9, <2>10, Zenon
<1>3. ASSUME NEW p \in Procs, OnceEnter(p) \/ OnceDone(p) \/ Lock(p) \/ Unlock(p)
      PROVE  Boots'
  <2>1. /\ call[p] \in DOMAIN Code
        /\ Registered(call[p], pc[p] + 1) => Registered(call[p], pc[p])
        /\ After(call[p], pc[p] + 1) =>
              After(call[p], pc[p]) \/ (OnceDone(p) /\ Of(p) = "BOOT")
        /\ OnceDone(p) /\ Of(p) = "BOOT" => Registered(call[p], pc[p])
    BY <1>3, GuardPlace, Zenon DEF OnceEnter, OnceDone, Lock, Unlock
  <2>2. /\ pc' = [pc EXCEPT ![p] = pc[p] + 1] /\ call' = call
        /\ handlers' = handlers /\ used' = used /\ magic' = magic /\ hot' = hot
    BY <1>3, Zenon DEF OnceEnter, OnceDone, Lock, Unlock, Step, Goto, boot, trim
  <2>3. once["BOOT"] = 2 => once'["BOOT"] = 2
    BY <1>0, <1>3 DEF OnceEnter, OnceDone, Lock, Unlock, TypeOK, Onces
  <2>4. once'["BOOT"] = 2 => once["BOOT"] = 2 \/ (OnceDone(p) /\ Of(p) = "BOOT")
    BY <1>0, <1>3 DEF OnceEnter, OnceDone, Lock, Unlock, TypeOK, Onces
  <2>5. OnceDone(p) /\ Of(p) = "BOOT" => once'["BOOT"] = 2
    BY <1>0, Zenon DEF OnceDone, TypeOK, Onces
  <2> QED BY <1>0, <2>1, <2>2, <2>3, <2>4, <2>5, SMTT(20) DEF TypeOK
<1>4. ASSUME NEW p \in Procs, NEW c \in DOMAIN Code, Call(p, c)
      PROVE  Boots'
  <2>1. ~After(c, 1) /\ ~Registered(c, 1)
    BY CodeAssumption, Zenon
  <2>2. /\ UNCHANGED <<once, handlers, used, magic, hot>> /\ call' = [call EXCEPT ![p] = c]
        /\ pc' = [pc EXCEPT ![p] = IF hot THEN HotStart(c) ELSE 1]
    BY <1>4, Zenon DEF Call, guards, boot, trim
  <2> QED BY <1>0, <2>1, <2>2, Zenon DEF TypeOK
<1>5. ASSUME NEW p \in Procs,
             Return(p) \/ Start(p) \/ ForkStart(p) \/ fork_prepare(p) \/ fork_parent(p)
      PROVE  Boots'
  <2>1. /\ UNCHANGED <<once, handlers, used, magic, hot>>
        /\ \/ call' = call /\ pc' = pc
           \/ call' = [call EXCEPT ![p] = "none"] /\ (\A q \in Procs \ {p} : pc'[q] = pc[q])
           \/ call' = [call EXCEPT ![p] = "fork"] /\ pc' = pc
    BY <1>0, <1>5, Zenon DEF Return, Start, ForkStart, fork_prepare, fork_parent, guards,
                boot, trim, TypeOK
  <2> QED BY <1>0, <2>1, NotCalls DEF TypeOK
<1>6. ASSUME NEW p \in Procs, fork_child(p)
      PROVE  Boots'
  <2>1. /\ UNCHANGED <<handlers, used, magic>> /\ (\A q \in Procs : call'[q] = "none")
    BY <1>6, Zenon DEF fork_child, boot
  <2>2. once'["BOOT"] = 2 <=> once["BOOT"] = 2
    BY <1>0, <1>6 DEF fork_child, reset_at_fork, TypeOK, Onces
  <2>3. hot' => hot
    BY <1>6, Zenon DEF fork_child, reset_fork_thread_state
  <2> QED BY <1>0, <2>1, <2>2, <2>3, NotCalls, Zenon
<1> QED BY <1>1, <1>2, <1>3, <1>4, <1>5, <1>6, Kinds, Zenon

-----------------------------------------------------------------------------
(* The trim thread. *)

(* The thread that wins the exchange starts the trim thread, no other. *)
LEMMA SpawnsKept ==
    ASSUME IInv, [TimelyNext]_vars
    PROVE  Spawns'
<1>0. TypeOK /\ Places /\ Boots /\ Spawns
  BY Zenon DEF IInv, SInv
<1> USE DEF Spawns, TrimmerMatches, InCall
<1>1. CASE UNCHANGED vars
  BY <1>0, <1>1, Zenon DEF vars, guards, trim
<1>2. ASSUME NEW p \in Procs, Passes(p)
      PROVE  Spawns'
  <2>1. PICK j : Moves(p, j)
    BY <1>2, PassesMove, Zenon DEF IInv
  <2>2. /\ p \in alive /\ call[p] \in DOMAIN Code /\ pc[p] \in 1 .. Len(Code[call[p]])
        /\ pc[p] \in Nat /\ Len(Code[call[p]]) \in Nat
        /\ j \in Leads(call[p], pc[p]) /\ pc' = [pc EXCEPT ![p] = j] /\ call' = call
    BY <1>0, <2>1, CodeAssumption, Zenon DEF Moves, TypeOK
  <2>3. /\ Before(call[p], j, "spawn") => Code[call[p]][pc[p]].op = "claim" /\ j = pc[p] + 1
        /\ Before(call[p], j, "hot") => Code[call[p]][pc[p]].op = "spawn"
    BY <2>2, Instruction, Zenon DEF WellNested
  <2>4. CASE Claim(p)
    <3>1. UNCHANGED <<hot, trimmers, alive>>
      BY <2>4, Zenon DEF Claim
    <3>2. Code[call[p]][pc[p]].op = "claim"
      BY <2>4, Zenon DEF Claim, Add, Claim, Drop, At
    <3>3. \/ spawned' = spawned /\ pc' = [pc EXCEPT ![p] = pc[p] + 3]
          \/ ~spawned /\ spawned'
      BY <2>4, Zenon DEF Claim, Add, Claim, Drop, Goto
    <3>4. \/ spawned' = spawned /\ ~Before(call[p], j, "spawn")
          \/ ~spawned /\ spawned'
      BY <1>0, <2>2, <2>3, <3>3, SMTT(20) DEF TypeOK
    <3> QED BY <1>0, <2>2, <2>3, <3>1, <3>2, <3>4, SMTT(20) DEF TypeOK
  <2>5. CASE spawn_gtrim_thread(p)
    <3>1. /\ trimmers' = trimmers + 1 /\ alive' = alive \cup {Trimmer}
          /\ UNCHANGED <<spawned, hot>>
      BY <2>5, Zenon DEF spawn_gtrim_thread
    <3>2. Before(call[p], pc[p], "spawn") /\ Code[call[p]][pc[p]].op = "spawn"
      BY <2>5, Zenon DEF spawn_gtrim_thread, At, Before
    <3>3. \A q \in Procs : ~(call'[q] \in DOMAIN Code /\ Before(call'[q], pc'[q], "spawn"))
      BY <1>0, <2>2, <2>3, <3>2, Zenon DEF TypeOK
    <3>4. trimmers = 0 /\ spawned
      BY <1>0, <2>2, <3>2, Zenon
    <3>5. trimmers' = 1 /\ spawned' /\ Trimmer \in alive'
      BY <3>1, <3>4
    <3>6. trimmers' > 0 => spawned' /\ Trimmer \in alive'
      BY <3>5, Zenon
    <3>7. TrimmerMatches'
      BY <1>0, <3>1, <3>4, <3>5
    <3> QED BY <3>3, <3>5, <3>6, <3>7, Zenon
  <2>6. CASE HotReady(p)
    <3>1. hot' = TRUE /\ UNCHANGED <<spawned, trimmers, alive>>
      BY <2>6, Zenon DEF HotReady
    <3>2. Before(call[p], pc[p], "hot") /\ Code[call[p]][pc[p]].op = "hot"
      BY <2>6, Zenon DEF HotReady, At, Before
    <3> QED BY <1>0, <2>2, <2>3, <3>1, <3>2, SMTT(30) DEF TypeOK
  <2>7. CASE ~Claim(p) /\ ~spawn_gtrim_thread(p) /\ ~HotReady(p)
    <3>1. UNCHANGED <<spawned, hot, trimmers, alive>>
      BY <1>2, <2>7, Zenon DEF Passes, trim, OnceSkip, OnceInit, register_fork_handlers,
                  init_magic, Drop, Count, Add, FreeCount, Cached, Kept, Room, Block
    <3>2. Code[call[p]][pc[p]].op \notin {"claim", "spawn"}
      BY <1>2, <2>7, Zenon DEF Passes, At, OnceSkip, OnceInit, register_fork_handlers,
                  init_magic, Drop, Count, Add, FreeCount, Cached, Kept, Room, Block
    <3> QED BY <1>0, <2>2, <2>3, <3>1, <3>2, Zenon DEF TypeOK
  <2> QED BY <2>4, <2>5, <2>6, <2>7, Zenon
<1>3. ASSUME NEW p \in Procs, OnceEnter(p) \/ OnceDone(p) \/ Lock(p) \/ Unlock(p)
      PROVE  Spawns'
  <2>1. ~Before(call[p], pc[p] + 1, "spawn") /\ ~Before(call[p], pc[p] + 1, "hot")
    BY <1>3, GuardPlace, Zenon DEF IInv, OnceEnter, OnceDone, Lock, Unlock
  <2>2. /\ pc' = [pc EXCEPT ![p] = pc[p] + 1] /\ call' = call
        /\ UNCHANGED <<spawned, hot, trimmers, alive>>
    BY <1>3, Zenon DEF OnceEnter, OnceDone, Lock, Unlock, Step, Goto, trim
  <2> QED BY <1>0, <2>1, <2>2, SMTT(20) DEF TypeOK
<1>4. ASSUME NEW p \in Procs, NEW c \in DOMAIN Code, Call(p, c)
      PROVE  Spawns'
  <2>1. /\ ~Before(c, 1, "spawn") /\ ~Before(c, 1, "hot")
        /\ ~Before(c, HotStart(c), "spawn") /\ ~Before(c, HotStart(c), "hot")
    BY CodeAssumption, Zenon
  <2>2. /\ UNCHANGED <<spawned, hot, trimmers, alive>> /\ call' = [call EXCEPT ![p] = c]
        /\ pc' = [pc EXCEPT ![p] = IF hot THEN HotStart(c) ELSE 1]
    BY <1>4, Zenon DEF Call, trim
  <2> QED BY <1>0, <2>1, <2>2, ZenonT(30) DEF TypeOK
<1>5. ASSUME NEW p \in Procs,
             Return(p) \/ Start(p) \/ ForkStart(p) \/ fork_prepare(p) \/ fork_parent(p)
      PROVE  Spawns'
  <2>1. /\ UNCHANGED <<spawned, hot, trimmers>> /\ alive \subseteq alive'
        /\ \/ call' = call /\ pc' = pc
           \/ call' = [call EXCEPT ![p] = "none"] /\ (\A q \in Procs \ {p} : pc'[q] = pc[q])
           \/ call' = [call EXCEPT ![p] = "fork"] /\ pc' = pc
    BY <1>0, <1>5, Zenon DEF Return, Start, ForkStart, fork_prepare, fork_parent, trim, TypeOK
  <2>2. \A q \in Procs : call'[q] \in DOMAIN Code => call'[q] = call[q] /\ pc'[q] = pc[q]
    BY <1>0, <2>1, NotCalls, Zenon DEF TypeOK
  <2> QED BY <1>0, <2>1, <2>2, Zenon
<1>6. ASSUME NEW p \in Procs, Timely(p), fork_child(p)
      PROVE  Spawns'
  <2>1. trimmers' = 0 /\ (\A q \in Procs : call'[q] = "none")
    BY <1>6, Zenon DEF fork_child
  <2>2. hot' => hot /\ ran[p] = 0
    BY <1>6, Zenon DEF fork_child, reset_fork_thread_state
  <2>3. hot => handlers > 0 /\ ran[p] = handlers
    BY <1>0, <1>6, Zenon DEF Boots, Timely
  <2>4. ~hot'
    BY <2>2, <2>3
  <2> QED BY <2>1, <2>4, NotCalls
<1> QED BY <1>1, <1>2, <1>3, <1>4, <1>5, <1>6, TimelyKinds, Zenon

-----------------------------------------------------------------------------
(* The mutex. *)

(* fork_parent and fork_child release the mutex that fork_prepare took. *)
LEMMA MutexKept ==
    ASSUME IInv, [TimelyNext]_vars
    PROVE  Mutex'
<1>0. TypeOK /\ Places /\ Mutex
  BY Zenon DEF IInv, SInv
<1> USE DEF Mutex
<1>1. CASE UNCHANGED vars
  BY <1>0, <1>1, Zenon DEF vars, boot, fork
<1>2. ASSUME NEW p \in Procs, Passes(p) \/ OnceEnter(p) \/ OnceDone(p) \/ Lock(p) \/ Unlock(p)
      PROVE  Mutex'
  <2>1. call' = call
    BY <1>2, PassesMove, Zenon DEF IInv, Moves, OnceEnter, OnceDone, Lock, Unlock, Step, Goto
  <2>2. mutex' = mutex /\ left' = left /\ ran' = ran /\ alive \subseteq alive'
    BY <1>2, Zenon DEF Passes, fork, OnceSkip, OnceInit, register_fork_handlers,
                init_magic, Count, Add, Claim, Drop, spawn_gtrim_thread, HotReady, FreeCount,
                Cached, Kept, Room, Block, OnceEnter, OnceDone, Lock, Unlock
  <2>3. handlers' = handlers \/ handlers' = handlers + 1
    BY <1>2, Zenon DEF Passes, boot, OnceSkip, OnceInit, register_fork_handlers, init_magic,
                Count, Add, Claim, Drop, spawn_gtrim_thread, HotReady, FreeCount, Cached, Kept,
                Room, Block, OnceEnter, OnceDone, Lock, Unlock
  <2> QED BY <1>0, <2>1, <2>2, <2>3, SMTT(20) DEF TypeOK
<1>3. ASSUME NEW p \in Procs, (\E c \in DOMAIN Code : Call(p, c)) \/ Return(p) \/ Start(p)
      PROVE  Mutex'
  <2>1. UNCHANGED <<mutex, left, ran, handlers>> /\ alive \subseteq alive'
    BY <1>3, Zenon DEF Call, Return, Start, fork, boot
  <2>2. \A q \in Procs : call[q] = "fork" => call'[q] = "fork"
    BY <1>0, <1>3, NotCalls, Zenon DEF Call, Idle, Return, Start, TypeOK
  <2> QED BY <1>0, <2>1, <2>2, Zenon DEF TypeOK
<1>4. ASSUME NEW p \in Procs, ForkStart(p)
      PROVE  Mutex'
  <2>1. /\ call[p] = "none" /\ call' = [call EXCEPT ![p] = "fork"]
        /\ left' = [left EXCEPT ![p] = handlers] /\ ran' = [ran EXCEPT ![p] = handlers]
        /\ UNCHANGED <<mutex, alive, handlers>>
    BY <1>4, Zenon DEF ForkStart, Idle, boot
  <2> QED BY <1>0, <2>1 DEF TypeOK
<1>5. ASSUME NEW p \in Procs, fork_prepare(p)
      PROVE  Mutex'
  <2>1. /\ p \in alive /\ call[p] = "fork" /\ left[p] > 0
        /\ left' = [left EXCEPT ![p] = @ - 1] /\ UNCHANGED <<ran, call, alive, handlers>>
    BY <1>5, Zenon DEF fork_prepare, Forking, boot
  <2> QED BY <1>0, <2>1 DEF TypeOK
<1>6. ASSUME NEW p \in Procs, fork_parent(p)
      PROVE  Mutex'
  <2>1. /\ left[p] = 0 /\ call' = [call EXCEPT ![p] = "none"]
        /\ ran' = [ran EXCEPT ![p] = 0] /\ UNCHANGED <<left, alive, handlers>>
        /\ mutex' => mutex /\ ~(ran[p] > 0)
    BY <1>6, Zenon DEF fork_parent, boot
  <2> QED BY <1>0, <2>1 DEF TypeOK
<1>7. ASSUME NEW p \in Procs, Timely(p), fork_child(p)
      PROVE  Mutex'
  <2>1. /\ \A q \in Procs : left'[q] = 0 /\ ran'[q] = 0
        /\ handlers' = handlers
        /\ mutex' => mutex /\ ran[p] = 0
    BY <1>7 DEF fork_child, boot
  <2>2. \A q \in Procs : ran[p] = 0 => ~(ran[q] > 0)
    BY <1>0, <1>7 DEF Timely, TypeOK
  <2>3. ~mutex'
    BY <1>0, <2>1, <2>2, Zenon DEF TypeOK
  <2> QED BY <1>0, <2>1, <2>3 DEF TypeOK
<1> QED BY <1>1, <1>2, <1>3, <1>4, <1>5, <1>6, <1>7, TimelyKinds, Zenon

-----------------------------------------------------------------------------
(* The handlers. *)

(* boot_strap is entered once in a family of timely forks. *)
LEMMA RegistersKept ==
    ASSUME IInv, [TimelyNext]_vars
    PROVE  Registers'
<1>0. TypeOK /\ Places /\ Alone /\ Owners /\ Registers /\ SInv
  BY Zenon DEF IInv, SInv
<1> USE DEF Registers, InCall
<1>1. CASE UNCHANGED vars
  BY <1>0, <1>1, Zenon DEF vars, guards, boot
<1>2. ASSUME NEW p \in Procs, Passes(p)
      PROVE  Registers'
  <2>1. PICK j : Moves(p, j)
    BY <1>0, <1>2, PassesMove, Zenon
  <2>2. /\ call[p] \in DOMAIN Code /\ pc[p] \in 1 .. Len(Code[call[p]])
        /\ j \in Leads(call[p], pc[p]) /\ pc' = [pc EXCEPT ![p] = j]
        /\ call' = call /\ once' = once
    BY <2>1, Zenon DEF Moves
  <2>3. WellNested(call[p], pc[p])
    BY <2>2, Instruction, Zenon
  <2>4. ~Before(call[p], j, "register")
    BY <2>2, <2>3, Zenon DEF WellNested
  <2>5. CASE register_fork_handlers(p)
    <3>1. /\ handlers' = handlers + 1 /\ Code[call[p]][pc[p]].op = "register"
          /\ Before(call[p], pc[p], "register")
      BY <2>5, Zenon DEF register_fork_handlers, At, Before
    <3>2. handlers = 0 /\ handlers' = 1
      BY <1>0, <2>2, <3>1
    <3>3. "BOOT" \in inside[p]
      BY <1>0, <2>2, <2>3, <3>1, Zenon DEF WellNested, Places
    <3>4. once["BOOT"] = 1
      BY <1>0, <3>3, Zenon DEF Alone, Onces
    <3>5. ASSUME NEW q \in Procs, call'[q] \in DOMAIN Code, Before(call'[q], pc'[q], "register")
          PROVE  FALSE
      <4>1. q # p
        BY <1>0, <2>2, <2>4, <3>5, Zenon DEF TypeOK
      <4>2. /\ call[q] \in DOMAIN Code /\ Before(call[q], pc[q], "register")
            /\ pc[q] \in 1 .. Len(Code[call[q]]) + 1
        BY <1>0, <2>2, <3>5, <4>1, Zenon DEF TypeOK, Places
      <4>3. pc[q] \in 1 .. Len(Code[call[q]]) /\ Code[call[q]][pc[q]].op = "register"
        <5>1. Len(Code[call[q]]) \in Nat
          BY <4>2, CodeAssumption, Zenon
        <5> QED BY <4>2, <5>1 DEF Before
      <4>4. "BOOT" \in inside[q]
        <5>1. "BOOT" \in Held(call[q], pc[q])
          BY <4>2, <4>3, Instruction, Zenon DEF WellNested
        <5> QED BY <1>0, <4>2, <5>1, Zenon DEF Places
      <4> QED BY <1>0, <3>3, <4>1, <4>4 DEF Alone
    <3>6. handlers' <= 1 /\ (once'["BOOT"] = 0 => handlers' = 0)
      BY <2>2, <3>2, <3>4
    <3> QED BY <3>5, <3>6, Zenon
  <2>6. CASE ~register_fork_handlers(p)
    <3>1. handlers' = handlers
      BY <1>2, <2>6, Zenon DEF Passes, boot, OnceSkip, OnceInit, init_magic, Count, Add, Claim,
              Drop, Block, spawn_gtrim_thread, HotReady, FreeCount, Cached, Kept, Room
    <3> QED BY <1>0, <2>2, <2>4, <3>1, Zenon DEF TypeOK
  <2> QED BY <2>5, <2>6, Zenon
<1>3. ASSUME NEW p \in Procs, OnceEnter(p) \/ OnceDone(p) \/ Lock(p) \/ Unlock(p)
      PROVE  Registers'
  <2>1. /\ call[p] \in DOMAIN Code
        /\ Before(call[p], pc[p] + 1, "register") => OnceEnter(p) /\ Of(p) = "BOOT"
    <3>1. PICK op \in {"once", "done", "lock", "unlock"} :
             At(p, op) /\ (op = "once" => OnceEnter(p))
      BY <1>3, Zenon DEF OnceEnter, OnceDone, Lock, Unlock
    <3>2. call[p] \in DOMAIN Code /\ WellNested(call[p], pc[p]) /\ Code[call[p]][pc[p]].op = op
      BY <1>0, <3>1, AtPlace, Zenon
    <3> QED BY <3>1, <3>2, Zenon DEF WellNested, Of
  <2>2. pc' = [pc EXCEPT ![p] = pc[p] + 1] /\ call' = call /\ handlers' = handlers
    BY <1>3, Zenon DEF OnceEnter, OnceDone, Lock, Unlock, Step, Goto, boot
  <2>3. OnceEnter(p) /\ Of(p) = "BOOT" => once["BOOT"] = 0
    BY Zenon DEF OnceEnter
  <2>4. once'["BOOT"] = 0 => once["BOOT"] = 0
    BY <1>0, <1>3 DEF OnceEnter, OnceDone, Lock, Unlock, TypeOK, Onces
  <2> QED BY <1>0, <2>1, <2>2, <2>3, <2>4, Zenon DEF TypeOK
<1>4. ASSUME NEW p \in Procs, NEW c \in DOMAIN Code, Call(p, c)
      PROVE  Registers'
  <2>1. ~Before(c, 1, "register") /\ ~Before(c, HotStart(c), "register")
    BY CodeAssumption, Zenon
  <2>2. /\ UNCHANGED <<once, handlers>> /\ call' = [call EXCEPT ![p] = c]
        /\ pc' = [pc EXCEPT ![p] = IF hot THEN HotStart(c) ELSE 1]
    BY <1>4, Zenon DEF Call, guards, boot
  <2> QED BY <1>0, <2>1, <2>2, ZenonT(30) DEF TypeOK
<1>5. ASSUME NEW p \in Procs,
             Return(p) \/ Start(p) \/ ForkStart(p) \/ fork_prepare(p) \/ fork_parent(p)
      PROVE  Registers'
  <2>1. /\ UNCHANGED <<once, handlers>>
        /\ \/ call' = call /\ pc' = pc
           \/ call' = [call EXCEPT ![p] = "none"] /\ (\A q \in Procs \ {p} : pc'[q] = pc[q])
           \/ call' = [call EXCEPT ![p] = "fork"] /\ pc' = pc
    BY <1>0, <1>5, Zenon DEF Return, Start, ForkStart, fork_prepare, fork_parent, guards,
                boot, TypeOK
  <2> QED BY <1>0, <2>1, NotCalls, Zenon DEF TypeOK
<1>6. ASSUME NEW p \in Procs, Timely(p), fork_child(p)
      PROVE  Registers'
  <2>1. handlers' = handlers /\ (\A q \in Procs : call'[q] = "none")
    BY <1>6, Zenon DEF fork_child, boot
  <2>2. once'["BOOT"] = 0 => once["BOOT"] \in {0, 1}
    BY <1>0, <1>6, SMTT(30) DEF fork_child, reset_at_fork, TypeOK, Onces
  <2>3. once["BOOT"] = 1 => handlers = 0
    <3>1. SUFFICES ASSUME once["BOOT"] = 1 PROVE handlers = 0
      BY Zenon
    <3>2. PICK q \in alive : "BOOT" \in inside[q]
      BY <1>0, <3>1, Zenon DEF Owners, Onces
    <3>3. inside[p] = {}
      BY <1>0, <1>6, NotCalls, ZenonT(30) DEF fork_child, Forking, Places
    <3>4. inside[q] \subseteq (IF handlers = 0 THEN {} ELSE Covered)
      BY <1>6, <3>2, <3>3, Zenon DEF Timely
    <3> QED BY <3>2, <3>4, Zenon DEF Covered
  <2> QED BY <1>0, <2>1, <2>2, <2>3, NotCalls, Zenon
<1> QED BY <1>1, <1>2, <1>3, <1>4, <1>5, <1>6, TimelyKinds, Zenon

-----------------------------------------------------------------------------
(* The theorems. *)

(* The program starts with every guard new and every lock free. *)
LEMMA InitInvariant == Init => IInv
<1> SUFFICES ASSUME Init PROVE IInv
  BY Zenon
<1> USE DEF Init
<1>1. TypeOK
  <2>2. /\ once \in [Onces -> 0 .. 2] /\ lock \in [Locks -> BOOLEAN]
        /\ call \in [Procs -> DOMAIN Code \cup {"none", "fork"}] /\ pc \in [Procs -> Nat]
        /\ inside \in [Procs -> SUBSET (Onces \cup Locks)]
        /\ left \in [Procs -> Nat] /\ ran \in [Procs -> Nat]
    OBVIOUS
  <2>3. alive \subseteq Procs
    BY Zenon DEF Procs
  <2> QED BY <2>2, <2>3, Zenon DEF TypeOK
<1>2. Places
  BY NotCalls, Zenon DEF Places, InCall
<1>3. Alone
  BY Zenon DEF Alone
<1>4. Owners
  BY DEF Owners
<1>5. Works
  BY NotCalls DEF Works, InCall, DoneMeansBuilt
<1>6. Boots
  BY NotCalls DEF Boots, InCall, MagicStable, Onces
<1>7. Spawns
  BY NotCalls DEF Spawns, InCall, TrimmerMatches
<1>8. Mutex
  BY DEF Mutex
<1>9. Registers
  BY NotCalls DEF Registers, InCall
<1> QED BY <1>1, <1>2, <1>3, <1>4, <1>5, <1>6, <1>7, <1>8, <1>9, Zenon DEF IInv, SInv

(* Whenever threads fork, what is guarded stays consistent. *)
LEMMA Invariant == Spec => []SInv
<1>1. Init => SInv
  BY InitInvariant, Zenon DEF IInv
<1>2. SInv /\ [Next]_vars => SInv'
  <2> SUFFICES ASSUME SInv, [Next]_vars PROVE SInv'
    BY Zenon
  <2> QED BY TypesKept, PlacesKept, AloneKept, WorksKept, BootsKept, Zenon DEF SInv
<1> QED BY <1>1, <1>2, PTL DEF Spec

(* As long as a child is forked at a moment that fork_child provides for,  *)
(* guards, locks and the mutex have their owners.                          *)
LEMMA TimelyInvariant == TimelySpec => []IInv
<1>1. IInv /\ [TimelyNext]_vars => IInv'
  <2> SUFFICES ASSUME IInv, [TimelyNext]_vars PROVE IInv'
    BY Zenon
  <2>1. SInv /\ [Next]_vars
    BY TimelyKinds, Zenon DEF IInv
  <2>2. SInv'
    BY <2>1, TypesKept, PlacesKept, AloneKept, WorksKept, BootsKept, Zenon DEF SInv
  <2> QED BY <2>2, OwnersKept, SpawnsKept, MutexKept, RegistersKept, Zenon DEF IInv
<1> QED BY <1>1, InitInvariant, PTL DEF TimelySpec

(* Whatever thread forks and whenever, no two threads of a process are     *)
(* inside one once guard, nor inside the table of big blocks.  VA_LOCK,    *)
(* which grow releases twice, is left out.                                 *)
THEOREM GuardsExclude == Spec => []OneInside
<1>1. SInv => OneInside
  BY Zenon DEF SInv, Alone, OneInside, TypeOK
<1> QED BY <1>1, Invariant, PTL

(* Whatever thread forks and whenever, call_once and get_or_init return    *)
(* only when what they guard is there.                                     *)
THEOREM GuardsAreHonest == Spec => []DoneMeansBuilt
<1>1. SInv => DoneMeansBuilt
  BY Zenon DEF SInv, Works
<1> QED BY <1>1, Invariant, PTL

(* Whatever thread forks and whenever, a child never draws MAGIC again     *)
(* while blocks carry it: a guard that fork_child resets was running, and  *)
(* no block is made before boot_strap is done.                             *)
THEOREM MagicStays == Spec => []MagicStable
<1>1. SInv => MagicStable
  BY Zenon DEF SInv, Boots
<1> QED BY <1>1, Invariant, PTL

(* Under TimelySpec a guard that is running, a lock that is taken and the  *)
(* mutex always have a living owner, in every process of the family.       *)
THEOREM NobodyWaitsForTheDead == TimelySpec => []NoOrphan
<1>1. IInv => NoOrphan
  BY Zenon DEF IInv, Owners, Mutex, NoOrphan
<1> QED BY <1>1, TimelyInvariant, PTL

(* Under TimelySpec the handlers are registered once, and no fork waits    *)
(* for the mutex that it has taken itself.                                 *)
THEOREM ForksGoThrough == TimelySpec => []NoSelfWait
<1>1. IInv => NoSelfWait
  BY SMTT(30) DEF IInv, SInv, TypeOK, Mutex, Registers, NoSelfWait
<1> QED BY <1>1, TimelyInvariant, PTL

(* Under TimelySpec there is one trim thread at most, and malloc's fast    *)
(* path is on only beside it.                                              *)
THEOREM OneTrimThread == TimelySpec => []TrimmerMatches
<1>1. IInv => TrimmerMatches
  BY Zenon DEF IInv, Spawns
<1> QED BY <1>1, TimelyInvariant, PTL
=============================================================================
