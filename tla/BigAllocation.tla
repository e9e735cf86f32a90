---------------------------- MODULE BigAllocation ----------------------------
(***************************************************************************)
(* Allocations above the largest size class (big_allocation.rs, and the    *)
(* paths of malloc, free, realloc and malloc_usable_size that they take).  *)
(* A block is a header and a payload on pages of its own; its pages are    *)
(* marked in the VA bitmap, made accessible by mprotect or mmap, and its   *)
(* payload size is recorded in the table of big allocations.  The three    *)
(* are updated one after the other and nothing but the order of the        *)
(* updates keeps threads apart that use the same addresses.                *)
(*                                                                         *)
(* The VA bitmap and the table are used through what they promise (modules *)
(* PageAllocator and MetaMap): their calls are single steps.  System calls *)
(* may fail wherever the code handles failure.                             *)
(***************************************************************************)
EXTENDS Integers, FiniteSets

CONSTANTS Threads,       \* the threads of the program
          NPages,        \* pages of address space
          Sizes,         \* the payload sizes asked for
          HEADER_SIZE,   \* bytes of an OxHeader
          PAGE,          \* bytes of a page
          HUGE,          \* bytes of a huge page
          OX_FORCE_THP   \* round big allocations to huge pages?

ASSUME BigAllocationAssumption ==
    /\ NPages \in Nat /\ PAGE \in Nat \ {0} /\ HEADER_SIZE \in Nat
    /\ HUGE \in Nat /\ HUGE % PAGE = 0 /\ HUGE > 0
    /\ Sizes \subseteq Nat \ {0}
    /\ OX_FORCE_THP \in BOOLEAN

VARIABLES va,    \* the pages the VA bitmap has handed out
          prot,  \* prot[p]: the protection of page p
          hdr,   \* hdr[p]: the magic of a header at the start of page p
          meta,  \* BIG_ALLOC_MAP: recorded payload sizes
          live,  \* the blocks of the program that no call is busy with
          pc,    \* where thread t is
          loc    \* the locals of thread t

vars == <<va, prot, hdr, meta, live, pc, loc>>

Pages == 0 .. NPages - 1

(* A block of the program: where its header is, and the size asked for. *)
NoBlock == [addr |-> -1, size |-> 0]

(* The locals: the payload size and the pages at hand, and the block of    *)
(* the program that a free, a query or a realloc is about.                 *)
NoLoc == [size |-> 0, addr |-> 0, total |-> 0, old |-> NoBlock]

align_to(n, a) == ((n + a - 1) \div a) * a

total_size(size) ==
    align_to(size + HEADER_SIZE, IF OX_FORCE_THP THEN HUGE ELSE PAGE)

(* realloc rounds to pages whatever OX_FORCE_THP says. *)
realloc_total(size) == align_to(size + HEADER_SIZE, PAGE)

PagesOf(addr, total) == addr .. (addr + total \div PAGE - 1)

Init ==
    /\ va = {}
    /\ prot = [p \in Pages |-> "none"]
    /\ hdr = [p \in Pages |-> "zero"]
    /\ meta = [p \in {} |-> 0]
    /\ live = {}
    /\ pc = [t \in Threads |-> "idle"]
    /\ loc = [t \in Threads |-> NoLoc]

(* prot and hdr with the pages of S set to a value. *)
Set(f, S, v) == [p \in Pages |-> IF p \in S THEN v ELSE f[p]]

Put(f, k, v) == [j \in DOMAIN f \cup {k} |-> IF j = k THEN v ELSE f[j]]

Without(f, k) == [j \in DOMAIN f \ {k} |-> f[j]]

Goto(t, l) == pc' = [pc EXCEPT ![t] = l]

(* The call of t ends, and the program has the block b again. *)
Return(t, b) ==
    /\ Goto(t, "idle")
    /\ loc' = [loc EXCEPT ![t] = NoLoc]
    /\ live' = live \cup ({b} \ {NoBlock})

(* An access to an inaccessible page kills the process, as does abort. *)
Die(t) == Goto(t, "dead") /\ UNCHANGED <<va, prot, hdr, meta, live, loc>>

-----------------------------------------------------------------------------
(* big_malloc. *)

BigMalloc(t) ==
    /\ pc[t] = "idle"
    /\ \E size \in Sizes :
          loc' = [loc EXCEPT ![t] = [NoLoc EXCEPT !.size = size,
                                                  !.total = total_size(size)]]
    /\ Goto(t, "reserve")
    /\ UNCHANGED <<va, prot, hdr, meta, live>>

(* VA_MAP.alloc: a run of pages nobody has. *)
Reserve(t) ==
    /\ pc[t] = "reserve"
    /\ \E a \in Pages :
          /\ PagesOf(a, loc[t].total) \subseteq Pages \ va
          /\ va' = va \cup PagesOf(a, loc[t].total)
          /\ loc' = [loc EXCEPT ![t].addr = a]
    /\ Goto(t, "commit")
    /\ UNCHANGED <<prot, hdr, meta, live>>

(* VA_MAP.alloc returns None, so big_malloc returns null; a realloc that   *)
(* called it returns null and leaves the old block alone.                  *)
ReserveFail(t) ==
    /\ pc[t] = "reserve"
    /\ Return(t, loc[t].old)
    /\ UNCHANGED <<va, prot, hdr, meta>>

Commit(t) ==
    /\ pc[t] = "commit"
    /\ prot' = Set(prot, PagesOf(loc[t].addr, loc[t].total), "rw")
    /\ Goto(t, "header")
    /\ UNCHANGED <<va, hdr, meta, live, loc>>

(* mprotect fails, and mmap over the same pages is tried. *)
CommitMap(t) ==
    /\ pc[t] = "commit"
    /\ prot' = Set(prot, PagesOf(loc[t].addr, loc[t].total), "rw")
    /\ hdr' = Set(hdr, PagesOf(loc[t].addr, loc[t].total), "zero")
    /\ Goto(t, "header")
    /\ UNCHANGED <<va, meta, live, loc>>

(* Mutant: the error path forgets the pages. *)
CommitFail_Leak(t) ==
    /\ pc[t] = "commit"
    /\ Return(t, loc[t].old)
    /\ UNCHANGED <<va, prot, hdr, meta>>

(* Both fail: the pages go back to the VA bitmap. *)
CommitFail(t) ==
    /\ pc[t] = "commit"
    /\ va' = va \ PagesOf(loc[t].addr, loc[t].total)
    /\ Return(t, loc[t].old)
    /\ UNCHANGED <<prot, hdr, meta>>

WriteHeader(t) ==
    /\ pc[t] = "header"
    /\ IF prot[loc[t].addr] = "rw"
         THEN /\ hdr' = [hdr EXCEPT ![loc[t].addr] = "MAGIC"]
              /\ Goto(t, "register")
              /\ UNCHANGED <<va, prot, meta, live, loc>>
         ELSE Die(t)

(* BIG_ALLOC_MAP.insert, and the block is the caller's. *)
Register(t) ==
    /\ pc[t] = "register"
    /\ meta' = Put(meta, loc[t].addr, loc[t].size)
    /\ IF loc[t].old = NoBlock
         THEN Return(t, [addr |-> loc[t].addr, size |-> loc[t].size])
         ELSE Goto(t, "copy") /\ UNCHANGED <<live, loc>>
    /\ UNCHANGED <<va, prot, hdr>>

-----------------------------------------------------------------------------
(* free and big_free. *)

BigFree(t) ==
    /\ pc[t] = "idle"
    /\ \E b \in live :
          /\ live' = live \ {b}
          /\ loc' = [loc EXCEPT ![t] = [NoLoc EXCEPT !.addr = b.addr]]
    /\ Goto(t, "check")
    /\ UNCHANGED <<va, prot, hdr, meta>>

(* validate_ptr_for_abi. *)
Check(t) ==
    /\ pc[t] = "check"
    /\ IF prot[loc[t].addr] = "rw" /\ hdr[loc[t].addr] = "MAGIC"
         THEN Goto(t, "remove") /\ UNCHANGED <<va, prot, hdr, meta, live, loc>>
         ELSE Die(t)

(* BIG_ALLOC_MAP.remove, and the size of the block from what it returns. *)
Unregister(t) ==
    /\ pc[t] = "remove"
    /\ IF loc[t].addr \in DOMAIN meta
         THEN /\ loc' = [loc EXCEPT ![t].total = total_size(meta[loc[t].addr])]
              /\ meta' = Without(meta, loc[t].addr)
              /\ Goto(t, "wipe")
              /\ UNCHANGED <<va, prot, hdr, live>>
         ELSE Die(t)

(* What big_free writes to: the header, which it marks FREED_MAGIC, and    *)
(* all pages when madvise fails to drop them.                              *)
Wiped(t) == {{loc[t].addr}, PagesOf(loc[t].addr, loc[t].total)}

(* Mutant: the pages go back before they are protected. *)
Wipe_Early(t) ==
    /\ pc[t] = "wipe"
    /\ \E S \in Wiped(t) :
       IF \A p \in S : p \in Pages /\ prot[p] = "rw"
         THEN /\ hdr' = Set(hdr, PagesOf(loc[t].addr, loc[t].total), "zero")
              /\ va' = va \ PagesOf(loc[t].addr, loc[t].total)
              /\ Goto(t, "protect")
              /\ UNCHANGED <<prot, meta, live, loc>>
         ELSE Die(t)

(* The pages are dropped, or zeroed by hand. *)
Wipe(t) ==
    /\ pc[t] = "wipe"
    /\ \E S \in Wiped(t) :
       IF \A p \in S : p \in Pages /\ prot[p] = "rw"
         THEN /\ hdr' = Set(hdr, PagesOf(loc[t].addr, loc[t].total), "zero")
              /\ Goto(t, "protect")
              /\ UNCHANGED <<va, prot, meta, live, loc>>
         ELSE Die(t)

(* mprotect to PROT_NONE; its failure is ignored. *)
Protect(t) ==
    /\ pc[t] = "protect"
    /\ prot' \in {prot, Set(prot, PagesOf(loc[t].addr, loc[t].total), "none")}
    /\ Goto(t, "release")
    /\ UNCHANGED <<va, hdr, meta, live, loc>>

(* VA_MAP.free, and back to the caller: of free, or of a realloc that has  *)
(* moved its block.                                                        *)
Release(t) ==
    /\ pc[t] = "release"
    /\ va' = va \ PagesOf(loc[t].addr, loc[t].total)
    /\ Return(t, loc[t].old)
    /\ UNCHANGED <<prot, hdr, meta>>

-----------------------------------------------------------------------------
(* malloc_usable_size, and calloc's lookup of the size it clears. *)

UsableSize(t) ==
    /\ pc[t] = "idle"
    /\ \E b \in live :
          /\ live' = live \ {b}
          /\ loc' = [loc EXCEPT ![t] = [NoLoc EXCEPT !.old = b]]
    /\ Goto(t, "usable")
    /\ UNCHANGED <<va, prot, hdr, meta>>

Usable(t) ==
    /\ pc[t] = "usable"
    /\ LET b == loc[t].old
       IN  IF prot[b.addr] = "rw" /\ b.addr \in DOMAIN meta
             THEN Return(t, b) /\ UNCHANGED <<va, prot, hdr, meta>>
             ELSE Die(t)

-----------------------------------------------------------------------------
(* realloc from one big size to another. *)

Realloc(t) ==
    /\ pc[t] = "idle"
    /\ \E b \in live, size \in Sizes :
          /\ live' = live \ {b}
          /\ loc' = [loc EXCEPT ![t] = [NoLoc EXCEPT !.old = b, !.size = size]]
    /\ Goto(t, "validate")
    /\ UNCHANGED <<va, prot, hdr, meta>>

OldTotal(t) == realloc_total(meta[loc[t].old.addr])

NewTotal(t) == realloc_total(loc[t].size)

(* validate_ptr_for_abi, and BIG_ALLOC_MAP.get of the old size. *)
Validate(t) ==
    /\ pc[t] = "validate"
    /\ LET a == loc[t].old.addr
       IN  IF prot[a] = "rw" /\ hdr[a] = "MAGIC" /\ a \in DOMAIN meta
             THEN Goto(t, "resize") /\ UNCHANGED <<va, prot, hdr, meta, live, loc>>
             ELSE Die(t)

(* The same number of pages: only the recorded size changes. *)
ResizeSame(t) ==
    /\ pc[t] = "resize" /\ NewTotal(t) = OldTotal(t)
    /\ Goto(t, "record")
    /\ UNCHANGED <<va, prot, hdr, meta, live, loc>>

(* Mutant: the new size is not recorded. *)
Record_Skip(t) ==
    /\ pc[t] = "record"
    /\ Return(t, [loc[t].old EXCEPT !.size = loc[t].size])
    /\ UNCHANGED <<va, prot, hdr, meta>>

(* BIG_ALLOC_MAP.insert of the new size. *)
Record(t) ==
    /\ pc[t] = "record"
    /\ meta' = Put(meta, loc[t].old.addr, loc[t].size)
    /\ Return(t, [loc[t].old EXCEPT !.size = loc[t].size])
    /\ UNCHANGED <<va, prot, hdr>>

(* Fewer pages: the tail is dropped, protected and returned to the VA      *)
(* bitmap; if it cannot be dropped, nothing changes.                       *)
Shrink(t) ==
    /\ pc[t] = "resize" /\ NewTotal(t) < OldTotal(t)
    /\ LET tail == loc[t].old.addr + NewTotal(t) \div PAGE
           len  == OldTotal(t) - NewTotal(t)
       IN  /\ hdr' = Set(hdr, PagesOf(tail, len), "zero")
           /\ loc' = [loc EXCEPT ![t].addr = tail, ![t].total = len]
    /\ Goto(t, "shrunk")
    /\ UNCHANGED <<va, prot, meta, live>>

ShrinkFail(t) ==
    /\ pc[t] = "resize" /\ NewTotal(t) < OldTotal(t)
    /\ Return(t, [loc[t].old EXCEPT !.size = loc[t].size])
    /\ UNCHANGED <<va, prot, hdr, meta>>

ShrinkProtect(t) ==
    /\ pc[t] = "shrunk"
    /\ prot' \in {prot, Set(prot, PagesOf(loc[t].addr, loc[t].total), "none")}
    /\ Goto(t, "cut")
    /\ UNCHANGED <<va, hdr, meta, live, loc>>

ShrinkRelease(t) ==
    /\ pc[t] = "cut"
    /\ va' = va \ PagesOf(loc[t].addr, loc[t].total)
    /\ Goto(t, "record")
    /\ UNCHANGED <<prot, hdr, meta, live, loc>>

(* Mutant: the end of the address space is not looked at. *)
Extend_Unbounded(t) ==
    /\ pc[t] = "resize" /\ NewTotal(t) > OldTotal(t)
    /\ LET a   == loc[t].old.addr + OldTotal(t) \div PAGE
           len == NewTotal(t) - OldTotal(t)
       IN  /\ PagesOf(a, len) \cap va = {}
           /\ va' = va \cup PagesOf(a, len)
           /\ loc' = [loc EXCEPT ![t].addr = a, ![t].total = len]
    /\ Goto(t, "grown")
    /\ UNCHANGED <<prot, hdr, meta, live>>

(* More pages: VA_MAP.realloc_inplace takes the pages that follow. *)
Extend(t) ==
    /\ pc[t] = "resize" /\ NewTotal(t) > OldTotal(t)
    /\ LET a   == loc[t].old.addr + OldTotal(t) \div PAGE
           len == NewTotal(t) - OldTotal(t)
       IN  /\ PagesOf(a, len) \subseteq Pages \ va
           /\ va' = va \cup PagesOf(a, len)
           /\ loc' = [loc EXCEPT ![t].addr = a, ![t].total = len]
    /\ Goto(t, "grown")
    /\ UNCHANGED <<prot, hdr, meta, live>>

(* malloc, copy, free: when realloc_inplace says None, which it may do     *)
(* even though the pages are free.                                         *)
Move(t) ==
    /\ loc' = [loc EXCEPT ![t].addr = 0, ![t].total = total_size(loc[t].size)]
    /\ Goto(t, "reserve")

ExtendFail(t) ==
    /\ pc[t] = "resize" /\ NewTotal(t) > OldTotal(t)
    /\ Move(t)
    /\ UNCHANGED <<va, prot, hdr, meta, live>>

ExtendProtect(t) ==
    /\ pc[t] = "grown"
    /\ prot' = Set(prot, PagesOf(loc[t].addr, loc[t].total), "rw")
    /\ Goto(t, "record")
    /\ UNCHANGED <<va, hdr, meta, live, loc>>

(* mprotect fails: the pages just taken go back to the VA bitmap. *)
ExtendUndo(t) ==
    /\ pc[t] = "grown"
    /\ va' = va \ PagesOf(loc[t].addr, loc[t].total)
    /\ Move(t)
    /\ UNCHANGED <<prot, hdr, meta, live>>

(* The copy reads the old payload, as long as recorded, and writes the new *)
(* one; then the old block is freed and the new one is the program's.      *)
Copy(t) ==
    /\ pc[t] = "copy"
    /\ LET old == loc[t].old
           new == [addr |-> loc[t].addr, size |-> loc[t].size]
           len == meta[old.addr]
           n   == IF len < new.size THEN len ELSE new.size
       IN  IF \A p \in PagesOf(old.addr, realloc_total(n))
                       \cup PagesOf(new.addr, realloc_total(n)) : prot[p] = "rw"
             THEN /\ loc' = [loc EXCEPT ![t] = [NoLoc EXCEPT !.addr = old.addr,
                                                             !.old = new]]
                  /\ Goto(t, "check")
                  /\ UNCHANGED <<va, prot, hdr, meta, live>>
             ELSE Die(t)

-----------------------------------------------------------------------------
Enter(t) == BigMalloc(t) \/ BigFree(t) \/ UsableSize(t) \/ Realloc(t)

Alloc(t) ==
    \/ Reserve(t) \/ ReserveFail(t) \/ Commit(t) \/ CommitMap(t) \/ CommitFail(t)
    \/ WriteHeader(t) \/ Register(t)

Free(t) == Check(t) \/ Unregister(t) \/ Wipe(t) \/ Protect(t) \/ Release(t)

Resize(t) ==
    \/ Validate(t) \/ ResizeSame(t) \/ Record(t)
    \/ Shrink(t) \/ ShrinkFail(t) \/ ShrinkProtect(t) \/ ShrinkRelease(t)
    \/ Extend(t) \/ ExtendFail(t) \/ ExtendProtect(t) \/ ExtendUndo(t) \/ Copy(t)

Next == \E t \in Threads : Enter(t) \/ Alloc(t) \/ Free(t) \/ Usable(t) \/ Resize(t)

Spec == Init /\ [][Next]_vars

-----------------------------------------------------------------------------
(* Properties. *)

Blocks == [addr : Pages, size : Sizes]

PCs == {"idle", "dead", "reserve", "commit", "header", "register", "check",
        "remove", "wipe", "protect", "release", "usable", "validate", "resize", "record",
        "shrunk", "cut", "grown", "copy"}

(* The type invariant: addresses stay inside the address space and the     *)
(* recorded sizes are sizes somebody asked for.                            *)
TypeOK ==
    /\ va \subseteq Pages
    /\ prot \in [Pages -> {"none", "rw"}]
    /\ hdr \in [Pages -> {"zero", "MAGIC"}]
    /\ DOMAIN meta \subseteq Pages /\ \A p \in DOMAIN meta : meta[p] \in Sizes
    /\ live \subseteq Blocks
    /\ pc \in [Threads -> PCs]
    /\ \A t \in Threads :
          /\ loc[t].addr \in 0 .. NPages
          /\ loc[t].old \in Blocks \cup {NoBlock}

(* A block the program has, and no call is busy with, can be used: its     *)
(* header is valid, its size is recorded, and all its pages are its own    *)
(* and accessible, whatever the other threads are allocating, freeing or   *)
(* resizing at the same addresses before and after it.                     *)
LiveUsable ==
    \A b \in live :
        /\ b.addr \in DOMAIN meta /\ meta[b.addr] >= b.size
        /\ hdr[b.addr] = "MAGIC"
        /\ \A p \in PagesOf(b.addr, realloc_total(b.size)) :
              p \in va /\ prot[p] = "rw"

(* No correct program is killed: neither by an access to pages another     *)
(* thread has protected, nor by the "Missing big allocation metadata" and  *)
(* header checks.                                                          *)
NobodyDies == \A t \in Threads : pc[t] # "dead"

(* No page is lost: when no call is under way the pages marked in the VA   *)
(* bitmap are those of the blocks in the table, and the table has an entry *)
(* for every block of the program and for nothing else, even after system  *)
(* calls have failed.                                                      *)
NothingLeaks ==
    (\A t \in Threads : pc[t] = "idle") =>
        /\ DOMAIN meta = {b.addr : b \in live}
        /\ va = UNION {PagesOf(a, total_size(meta[a])) : a \in DOMAIN meta}
=============================================================================
