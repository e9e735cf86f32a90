----------------------------- MODULE BigAllocMap -----------------------------
(***************************************************************************)
(* The table of big allocations (BigAllocMap, internals/hashmap.rs): an    *)
(* open-addressing hash table with linear probing and tombstones, guarded  *)
(* by a SerialLock.  An operation takes the lock, does its work on the     *)
(* table, and drops the lock guard; nothing else touches the table, so a   *)
(* probe is one step, and so is each entry that grow moves.  The program   *)
(* may fork while a thread holds the lock: only the forking thread goes on *)
(* in the child, and the fork handlers of va/bootstrap.rs do not reset     *)
(* this lock.                                                              *)
(***************************************************************************)
EXTENDS Integers, FiniteSets

CONSTANTS Threads,      \* the threads of the program
          Keys,         \* header addresses
          Metas,        \* metadata records
          NoMeta,       \* Option::None
          Hashes,       \* the functions hash_key may be
          INITIAL_CAP,  \* slots of the first table
          MaxCap,       \* bound: no table larger than this is asked for
          MayFork       \* does the program fork?

LOAD_NUM == 7

LOAD_DEN == 10

ASSUME BigAllocMapAssumption ==
    /\ NoMeta \notin Metas
    /\ Hashes \subseteq [Keys -> Nat]
    /\ INITIAL_CAP \in Nat \ {0, 1}
    /\ MaxCap \in Nat
    /\ MayFork \in BOOLEAN

VARIABLES table,   \* the slots, 0 .. cap - 1
          cap,     \* their number
          len,     \* the counter of occupied slots
          tombs,   \* the counter of tombstones
          larger,  \* the table that grow fills
          moved,   \* the slots grow has gone through
          lock,    \* is the SerialLock taken?
          hash,    \* hash_key, fixed
          alive,   \* the threads of this process
          pc,      \* where thread t is
          call,    \* the operation thread t is in
          ret      \* what thread t's last operation returned

growth == <<larger, moved>>

counters == <<cap, len, tombs>>

vars == <<table, counters, growth, lock, hash, alive, pc, call, ret>>

Empty == [state |-> "empty", key |-> NoMeta, meta |-> NoMeta]

Entry(k, v) == [state |-> "occupied", key |-> k, meta |-> v]

NoCall == [op |-> "none", key |-> NoMeta, meta |-> NoMeta]

Calls == [op : {"insert"}, key : Keys, meta : Metas]
         \cup [op : {"get", "remove"}, key : Keys, meta : {NoMeta}]

(* alloc_raw: fresh pages are zero, and zero is STATE_EMPTY. *)
alloc_raw(c) == [i \in 0 .. c - 1 |-> Empty]

Init ==
    /\ table = alloc_raw(0) /\ cap = 0
    /\ len = 0 /\ tombs = 0
    /\ larger = alloc_raw(0) /\ moved = 0
    /\ lock = FALSE
    /\ hash \in Hashes
    /\ alive = Threads
    /\ pc = [t \in Threads |-> "idle"]
    /\ call = [t \in Threads |-> NoCall]
    /\ ret = [t \in Threads |-> NoMeta]

-----------------------------------------------------------------------------
(* Probing. *)

(* The slot that a probe for k visits after j others, among c slots.       *)
(* (Capacities are powers of two, so the mask cap - 1 is a remainder.)     *)
Slot(k, j, c) == (hash[k] + j) % c

Holds(e, k) == e.state = "occupied" /\ e.key = k

(* A probe for k goes past its first j slots. *)
Passes(k, j) ==
    \A i \in 0 .. j - 1 : /\ table[Slot(k, i, cap)].state # "empty"
                          /\ ~Holds(table[Slot(k, i, cap)], k)

(* The probe loop finds k in slot s. *)
Hit(k, s) ==
    \E j \in 0 .. cap - 1 : s = Slot(k, j, cap) /\ Passes(k, j) /\ Holds(table[s], k)

(* The probe loop ends without k, after j slots. *)
Miss(k, j) == Passes(k, j) /\ (j < cap => table[Slot(k, j, cap)].state = "empty")

-----------------------------------------------------------------------------
(* Capacity. *)

Goto(t, p) == pc' = [pc EXCEPT ![t] = p]

Roomy == (len + 1) * LOAD_DEN <= cap * LOAD_NUM /\ tombs * 2 <= cap

NewCap == IF 2 * cap < INITIAL_CAP THEN INITIAL_CAP ELSE 2 * cap

(* Mutant: only tombstones make the table grow. *)
ensure_capacity_NoLoad(t) ==
    /\ pc[t] = "work" /\ call[t].op = "insert"
    /\ \/ /\ cap = 0
          /\ table' = alloc_raw(INITIAL_CAP)
          /\ cap' = INITIAL_CAP /\ len' = 0 /\ tombs' = 0
          /\ Goto(t, "insert")
          /\ UNCHANGED growth
       \/ /\ cap # 0 /\ tombs * 2 <= cap
          /\ Goto(t, "insert")
          /\ UNCHANGED <<table, counters, growth>>
       \/ /\ cap # 0 /\ ~(tombs * 2 <= cap)
          /\ larger' = alloc_raw(NewCap) /\ moved' = 0
          /\ Goto(t, "grow")
          /\ UNCHANGED <<table, counters>>
    /\ UNCHANGED <<lock, hash, alive, call, ret>>

(* ensure_capacity: alloc_table, or nothing, or the beginning of grow. *)
ensure_capacity(t) ==
    /\ pc[t] = "work" /\ call[t].op = "insert"
    /\ \/ /\ cap = 0
          /\ table' = alloc_raw(INITIAL_CAP)
          /\ cap' = INITIAL_CAP /\ len' = 0 /\ tombs' = 0
          /\ Goto(t, "insert")
          /\ UNCHANGED growth
       \/ /\ cap # 0 /\ Roomy
          /\ Goto(t, "insert")
          /\ UNCHANGED <<table, counters, growth>>
       \/ /\ cap # 0 /\ ~Roomy
          /\ larger' = alloc_raw(NewCap) /\ moved' = 0
          /\ Goto(t, "grow")
          /\ UNCHANGED <<table, counters>>
    /\ UNCHANGED <<lock, hash, alive, call, ret>>

(* reinsert: into the first slot of the probe that is not occupied; the    *)
(* process aborts if there is none.                                        *)
reinsert(t, e) ==
    LET Taken(j) == larger[Slot(e.key, j, NewCap)].state = "occupied"
    IN  \E j \in 0 .. NewCap :
          /\ \A i \in 0 .. j - 1 : Taken(i)
          /\ IF j < NewCap
             THEN /\ ~Taken(j)
                  /\ larger' = [larger EXCEPT ![Slot(e.key, j, NewCap)] = Entry(e.key, e.meta)]
                  /\ pc' = pc
             ELSE larger' = larger /\ Goto(t, "abort")

(* One pass of the loop of grow: the slots of the old table, in order. *)
Move(t) ==
    /\ pc[t] = "grow" /\ moved < cap
    /\ \/ table[moved].state = "occupied" /\ reinsert(t, table[moved])
       \/ table[moved].state # "occupied" /\ UNCHANGED <<larger, pc>>
    /\ moved' = moved + 1
    /\ UNCHANGED <<table, counters, lock, hash, alive, call, ret>>

(* The end of grow. *)
Swap(t) ==
    /\ pc[t] = "grow" /\ moved = cap
    /\ table' = larger /\ cap' = NewCap /\ tombs' = 0 /\ len' = len
    /\ larger' = alloc_raw(0) /\ moved' = 0
    /\ Goto(t, "insert")
    /\ UNCHANGED <<lock, hash, alive, call, ret>>

-----------------------------------------------------------------------------
(* The operations, with the lock held. *)

Return(t, v) ==
    /\ Goto(t, "unlock")
    /\ call' = [call EXCEPT ![t] = NoCall]
    /\ ret' = [ret EXCEPT ![t] = v]

Abort(t) == Goto(t, "abort") /\ UNCHANGED <<table, len, tombs, call, ret>>

(* The key goes into slot s, which was empty or a tombstone. *)
Fill(t, s) ==
    /\ table' = [table EXCEPT ![s] = Entry(call[t].key, call[t].meta)]
    /\ len' = len + 1
    /\ Return(t, NoMeta)

(* insert: over the entry of the key, else into the first tombstone of the *)
(* probe, else into the empty slot that ends it; else the process aborts.  *)
insert(t) ==
    /\ pc[t] = "insert"
    /\ LET k       == call[t].key
           Tomb(j) == table[Slot(k, j, cap)].state = "tombstone"
       IN  \/ \E s \in 0 .. cap - 1 :
                 /\ Hit(k, s)
                 /\ table' = [table EXCEPT ![s].meta = call[t].meta]
                 /\ Return(t, NoMeta)
                 /\ UNCHANGED <<len, tombs>>
           \/ \E j \in 0 .. cap :
                 /\ Miss(k, j)
                 /\ \/ \E f \in 0 .. j - 1 :
                         /\ Tomb(f) /\ \A i \in 0 .. f - 1 : ~Tomb(i)
                         /\ Fill(t, Slot(k, f, cap)) /\ tombs' = tombs - 1
                    \/ /\ \A i \in 0 .. j - 1 : ~Tomb(i)
                       /\ IF j < cap THEN Fill(t, Slot(k, j, cap)) /\ tombs' = tombs
                          ELSE Abort(t)
    /\ UNCHANGED <<cap, growth, lock, hash, alive>>

get(t) ==
    /\ pc[t] = "work" /\ call[t].op = "get"
    /\ LET k == call[t].key
       IN  \/ \E s \in 0 .. cap - 1 : Hit(k, s) /\ Return(t, table[s].meta)
           \/ \E j \in 0 .. cap : Miss(k, j) /\ Return(t, NoMeta)
    /\ UNCHANGED <<table, counters, growth, lock, hash, alive>>

(* Mutant: the slot is emptied. *)
remove_Emptied(t) ==
    /\ pc[t] = "work" /\ call[t].op = "remove"
    /\ LET k == call[t].key
       IN  \/ \E s \in 0 .. cap - 1 :
                 /\ Hit(k, s)
                 /\ table' = [table EXCEPT ![s].state = "empty"]
                 /\ len' = len - 1 /\ tombs' = tombs
                 /\ Return(t, table[s].meta)
           \/ \E j \in 0 .. cap :
                 /\ Miss(k, j)
                 /\ Return(t, NoMeta)
                 /\ UNCHANGED <<table, len, tombs>>
    /\ UNCHANGED <<cap, growth, lock, hash, alive>>

(* Mutant: a tombstone of the key is removed once more. *)
remove_AnyState(t) ==
    /\ pc[t] = "work" /\ call[t].op = "remove"
    /\ LET k == call[t].key
       IN  \/ \E s \in 0 .. cap - 1 :
                 /\ table[s].key = k
                 /\ table' = [table EXCEPT ![s].state = "tombstone"]
                 /\ len' = len - 1 /\ tombs' = tombs + 1
                 /\ Return(t, table[s].meta)
           \/ \E j \in 0 .. cap :
                 /\ Miss(k, j)
                 /\ Return(t, NoMeta)
                 /\ UNCHANGED <<table, len, tombs>>
    /\ UNCHANGED <<cap, growth, lock, hash, alive>>

(* remove: the slot of the key becomes a tombstone. *)
remove(t) ==
    /\ pc[t] = "work" /\ call[t].op = "remove"
    /\ LET k == call[t].key
       IN  \/ \E s \in 0 .. cap - 1 :
                 /\ Hit(k, s)
                 /\ table' = [table EXCEPT ![s].state = "tombstone"]
                 /\ len' = len - 1 /\ tombs' = tombs + 1
                 /\ Return(t, table[s].meta)
           \/ \E j \in 0 .. cap :
                 /\ Miss(k, j)
                 /\ Return(t, NoMeta)
                 /\ UNCHANGED <<table, len, tombs>>
    /\ UNCHANGED <<cap, growth, lock, hash, alive>>

-----------------------------------------------------------------------------
(* The lock, the callers, and fork. *)

(* The bound MaxCap leaves out the calls that could make a table of MaxCap *)
(* slots grow, whatever the calls under way do first.                      *)
Bounded ==
    LET n == Cardinality(Threads)
    IN  \/ cap < MaxCap
        \/ /\ (len + n + 1) * LOAD_DEN <= cap * LOAD_NUM
           /\ (tombs + n) * 2 <= cap

Call(t) ==
    /\ pc[t] = "idle" /\ t \in alive
    /\ \E c \in Calls :
          /\ c.op = "insert" => Bounded
          /\ call' = [call EXCEPT ![t] = c]
    /\ Goto(t, "lock")
    /\ UNCHANGED <<table, counters, growth, lock, hash, alive, ret>>

(* SerialLock::lock: the successful exchange of its spin loop. *)
Acquire(t) ==
    /\ pc[t] = "lock" /\ t \in alive
    /\ ~lock
    /\ lock' = TRUE
    /\ Goto(t, "work")
    /\ UNCHANGED <<table, counters, growth, hash, alive, call, ret>>

(* A failed exchange: the thread spins. *)
Spin(t) == pc[t] = "lock" /\ t \in alive /\ lock /\ UNCHANGED vars

Work(t) ==
    /\ t \in alive
    /\ ensure_capacity(t) \/ Move(t) \/ Swap(t) \/ insert(t) \/ get(t) \/ remove(t)

(* Drop for _LockGuard. *)
Unlock(t) ==
    /\ pc[t] = "unlock" /\ t \in alive
    /\ lock' = FALSE
    /\ Goto(t, "idle")
    /\ UNCHANGED <<table, counters, growth, hash, alive, call, ret>>

(* fork, seen from the child: the other threads are gone, the memory is as *)
(* it was.  fork_child resets the lock of VA_MAP and the once guards; it   *)
(* does not touch this lock.                                               *)
Fork(t) ==
    /\ MayFork
    /\ pc[t] = "idle" /\ t \in alive
    /\ alive' = {t}
    /\ UNCHANGED <<table, counters, growth, lock, hash, pc, call, ret>>

Step(t) == Acquire(t) \/ Work(t) \/ Unlock(t)

Next == \E t \in Threads : Call(t) \/ Spin(t) \/ Step(t) \/ Fork(t)

Spec == Init /\ [][Next]_vars

(* Fairness: a thread inside an operation keeps running. *)
FairSpec == Spec /\ \A t \in Threads : WF_vars(Step(t))

-----------------------------------------------------------------------------
(* Properties. *)

Entries == [state : {"empty", "occupied", "tombstone"},
            key : Keys \cup {NoMeta}, meta : Metas \cup {NoMeta}]

(* The type invariant: tables are arrays of entries, no counter runs below *)
(* zero, and grow stays within the old table.                              *)
TypeOK ==
    /\ cap \in Nat /\ table \in [0 .. cap - 1 -> Entries]
    /\ len \in Nat /\ tombs \in Nat
    /\ \E c \in {0, NewCap} : larger \in [0 .. c - 1 -> Entries]
    /\ moved \in 0 .. cap
    /\ lock \in BOOLEAN
    /\ hash \in Hashes
    /\ alive \subseteq Threads
    /\ pc \in [Threads -> {"idle", "lock", "work", "grow", "insert", "unlock", "abort"}]
    /\ call \in [Threads -> Calls \cup {NoCall}]
    /\ ret \in [Threads -> Metas \cup {NoMeta}]

With(s) == {i \in 0 .. cap - 1 : table[i].state = s}

(* `len' and `tombstones', from which ensure_capacity decides, are the     *)
(* numbers of occupied slots and of tombstones, across every sequence of   *)
(* insertions into tombstones, removals and moves to a larger table.       *)
CountersExact ==
    len = Cardinality(With("occupied")) /\ tombs = Cardinality(With("tombstone"))

(* ensure_capacity keeps the table at most LOAD_NUM / LOAD_DEN full across  *)
(* insertions, removals and moves, with one doubling at a time and counts  *)
(* that are exact, so that the "table full" aborts of insert and reinsert  *)
(* are never reached.                                                      *)
NeverFull ==
    /\ CountersExact
    /\ len * LOAD_DEN <= cap * LOAD_NUM
    /\ \A t \in Threads : pc[t] # "abort"

(* The table implements the abstract map: every operation, at the step     *)
(* that does its work, stores, finds and removes what the map would.       *)
Stored ==
    [k \in {table[i].key : i \in With("occupied")} |->
        table[CHOOSE i \in With("occupied") : table[i].key = k].meta]

Abstract == INSTANCE MetaMap WITH meta <- Stored

ImplementsMetaMap == Abstract!Spec

(* The lock is never lost: threads of the process that are inside insert,  *)
(* get or remove do not all stay there for ever.                           *)
Active == {t \in alive : pc[t] # "idle"}

OperationsReturn == \A S \in SUBSET Threads : S # {} => (Active = S ~> Active # S)
=============================================================================
