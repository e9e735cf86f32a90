-------------------------- MODULE BigAllocMapProofs --------------------------
(***************************************************************************)
(* Proofs about the table of big allocations, for any keys, any hash       *)
(* function, any number of threads and any first capacity: the table is a  *)
(* map, its counters are exact, and it never fills up.                     *)
(***************************************************************************)
EXTENDS BigAllocMap, FiniteSetTheorems, TLAPS

-----------------------------------------------------------------------------
(* The invariant. *)

(* The slots of a table of c slots that are in state s. *)
In(tab, c, s) == {i \in 0 .. c - 1 : tab[i].state = s}

(* Each key is in one slot at most. *)
Single(tab, c) ==
    \A i, j \in In(tab, c, "occupied") : tab[i].key = tab[j].key => i = j

(* A probe for a key in the table meets no empty slot before it. *)
Reached(tab, c) ==
    \A i \in In(tab, c, "occupied") :
        /\ tab[i].key \in Keys /\ tab[i].meta \in Metas
        /\ \E j \in 0 .. c - 1 : /\ i = Slot(tab[i].key, j, c)
                                 /\ \A m \in 0 .. j - 1 :
                                        tab[Slot(tab[i].key, m, c)].state # "empty"

TableOK(tab, c) == tab \in [0 .. c - 1 -> Entries] /\ Single(tab, c) /\ Reached(tab, c)

(* The slots that grow has moved. *)
Behind == {i \in In(table, cap, "occupied") : i < moved}

(* What grow has built so far is a table of the entries it has moved. *)
Building ==
    /\ cap >= 2
    /\ TableOK(larger, NewCap)
    /\ In(larger, NewCap, "tombstone") = {}
    /\ \A i \in Behind : \E j \in In(larger, NewCap, "occupied") : larger[j] = table[i]
    /\ \A j \in In(larger, NewCap, "occupied") : \E i \in Behind : larger[j] = table[i]
    /\ Cardinality(In(larger, NewCap, "occupied")) = Cardinality(Behind)

Inside == {"work", "grow", "insert", "unlock"}

(* The thread inside, if there is one, has the lock and is on its way. *)
Owner ==
    /\ \A t \in Threads : pc[t] # "abort"
    /\ \A t \in Threads : pc[t] \in Inside => lock
    /\ \A t, u \in Threads : pc[t] \in Inside /\ pc[u] \in Inside => t = u
    /\ \A t \in Threads : pc[t] \in {"lock", "work"} => call[t] \in Calls
    /\ \A t \in Threads : pc[t] \in {"grow", "insert"} => call[t] \in Calls /\ call[t].op = "insert"

(* There is room for one more entry once ensure_capacity has returned. *)
Load ==
    /\ len * LOAD_DEN <= cap * LOAD_NUM
    /\ \A t \in Threads : pc[t] = "insert" => (len + 1) * LOAD_DEN <= cap * LOAD_NUM
    /\ cap = 0 \/ cap >= 2

Growth ==
    /\ (\A t \in Threads : pc[t] # "grow") => larger = alloc_raw(0) /\ moved = 0
    /\ \A t \in Threads : pc[t] = "grow" => Building

IInv == TypeOK /\ TableOK(table, cap) /\ CountersExact /\ Owner /\ Load /\ Growth

-----------------------------------------------------------------------------
(* Probing. *)

(* Division with remainder. *)
LEMMA Mod ==
    ASSUME NEW x \in Int, NEW m \in Nat \ {0}
    PROVE  x % m \in 0 .. m - 1 /\ \E q \in Int : x % m = x - m * q
<1>1. x % m \in 0 .. m - 1
  OBVIOUS
<1>2. x = m * (x \div m) + (x % m)
  OBVIOUS
<1>3. PICK q \in Int : q = x \div m
  OBVIOUS
<1>4. PICK r \in Int : r = x % m
  OBVIOUS
<1>5. PICK z \in Int : z = m * q
  OBVIOUS
<1>6. x = z + r
  BY <1>2, <1>3, <1>4, <1>5, Zenon
<1>7. r = x - z
  BY <1>6
<1> QED BY <1>1, <1>3, <1>4, <1>5, <1>7, Zenon

(* A probe visits slots of the table. *)
LEMMA SlotRange ==
    ASSUME TypeOK, NEW k \in Keys, NEW j \in Nat, NEW c \in Nat \ {0}
    PROVE  Slot(k, j, c) \in 0 .. c - 1
<1>1. hash[k] \in Nat
  BY BigAllocMapAssumption, ZenonT(30) DEF TypeOK
<1>2. hash[k] + j \in Int
  BY <1>1
<1> QED BY <1>2, Mod, Zenon DEF Slot

(* Within c steps, a probe visits every slot. *)
LEMMA SlotOnto ==
    ASSUME TypeOK, NEW k \in Keys, NEW c \in Nat \ {0}, NEW i \in 0 .. c - 1
    PROVE  \E j \in 0 .. c - 1 : Slot(k, j, c) = i
<1>1. PICK h \in Int : h = hash[k] /\ h >= 0
  BY BigAllocMapAssumption DEF TypeOK
<1>2. PICK r \in 0 .. c - 1 : r = h % c
  BY Mod, Zenon
<1>3. PICK q \in Int : h % c = h - c * q
  BY Mod, Zenon
<1>4. PICK z \in Int : z = c * q
  OBVIOUS
<1>5. h = z + r
  BY <1>2, <1>3, <1>4
<1>6. (q * c + i) % c = i /\ ((q + 1) * c + i) % c = i
  OBVIOUS
<1>7. q * c = z /\ (q + 1) * c = z + c
  BY <1>4
<1>8. CASE i >= r
  <2>1. i - r \in 0 .. c - 1 /\ h + (i - r) = z + i
    BY <1>5, <1>8
  <2> QED BY <1>1, <1>6, <1>7, <2>1, Zenon DEF Slot
<1>9. CASE i < r
  <2>1. i - r + c \in 0 .. c - 1 /\ h + (i - r + c) = z + c + i
    BY <1>5, <1>9
  <2> QED BY <1>1, <1>6, <1>7, <2>1, Zenon DEF Slot
<1> QED BY <1>8, <1>9

(* A probe that ends without k has not overlooked it. *)
LEMMA MissMeansAbsent ==
    ASSUME TypeOK, TableOK(table, cap), NEW k \in Keys, NEW j \in 0 .. cap, Miss(k, j)
    PROVE  \A i \in In(table, cap, "occupied") : table[i].key # k
<1> SUFFICES ASSUME NEW i \in In(table, cap, "occupied"), table[i].key = k
             PROVE  FALSE
  BY Zenon
<1>1. PICK n \in 0 .. cap - 1 :
         i = Slot(k, n, cap) /\ \A m \in 0 .. n - 1 : table[Slot(k, m, cap)].state # "empty"
  BY Zenon DEF TableOK, Reached
<1>2. table[i].state = "occupied"
  BY Zenon DEF In
<1>3. CASE n < j
  BY <1>1, <1>2, <1>3 DEF Miss, Passes, Holds, TypeOK
<1>4. CASE n >= j
  <2>1. j < cap /\ j \in 0 .. n
    BY <1>1, <1>4 DEF TypeOK
  <2>2. table[Slot(k, j, cap)].state = "empty"
    BY <2>1, Zenon DEF Miss
  <2> QED BY <1>1, <1>2, <2>1, <2>2
<1> QED BY <1>1, <1>3, <1>4 DEF TypeOK

(* The entry that a probe finds is the one of its key. *)
LEMMA HitMeansHere ==
    ASSUME NEW k, NEW s \in 0 .. cap - 1, Hit(k, s)
    PROVE  s \in In(table, cap, "occupied") /\ table[s].key = k
BY Zenon DEF Hit, Holds, In

-----------------------------------------------------------------------------
(* Changes to a table. *)

(* A probe reaches what it reached, as long as no slot becomes empty. *)
LEMMA StillReached ==
    ASSUME TypeOK, NEW c \in Nat, NEW tab, NEW new,
           \A i \in 0 .. c - 1 : tab[i].state # "empty" => new[i].state # "empty",
           NEW k \in Keys, NEW n \in 0 .. c - 1,
           \A m \in 0 .. n - 1 : tab[Slot(k, m, c)].state # "empty"
    PROVE  \A m \in 0 .. n - 1 : new[Slot(k, m, c)].state # "empty"
<1> TAKE m \in 0 .. n - 1
<1>1. m \in Nat /\ c \in Nat \ {0}
  OBVIOUS
<1>2. PICK s \in 0 .. c - 1 : s = Slot(k, m, c)
  BY <1>1, SlotRange, Zenon
<1> QED BY <1>2, Zenon

(* Key k is in no slot, and its probe reaches a slot for it after j others. *)
Free(tab, c, k, j) ==
    /\ \A i \in In(tab, c, "occupied") : tab[i].key # k
    /\ \A m \in 0 .. j - 1 : tab[Slot(k, m, c)].state # "empty"
    /\ tab[Slot(k, j, c)].state # "occupied"

(* The table with the key in that slot. *)
Put(tab, c, k, j, v) == [tab EXCEPT ![Slot(k, j, c)] = Entry(k, v)]

(* A new key goes into such a slot. *)
LEMMA Filled ==
    ASSUME TypeOK, NEW c \in Nat, NEW tab, TableOK(tab, c), NEW k \in Keys, NEW v \in Metas,
           NEW j \in 0 .. c - 1, Free(tab, c, k, j),
           NEW new, new = Put(tab, c, k, j, v)
    PROVE  /\ TableOK(new, c) /\ Slot(k, j, c) \in 0 .. c - 1
           /\ new[Slot(k, j, c)] = Entry(k, v)
           /\ In(new, c, "occupied") = In(tab, c, "occupied") \cup {Slot(k, j, c)}
           /\ In(new, c, "tombstone") = In(tab, c, "tombstone") \ {Slot(k, j, c)}
<1>1. PICK s \in 0 .. c - 1 : s = Slot(k, j, c)
  BY SlotRange
<1>2. new \in [0 .. c - 1 -> Entries] /\ new[s] = Entry(k, v)
      /\ \A i \in 0 .. c - 1 \ {s} : new[i] = tab[i]
  <2>1. Entry(k, v) \in Entries
    BY Zenon DEF Entry, Entries
  <2> QED BY <1>1, <2>1, Zenon DEF TableOK, Put
<1>3. new[s].state = "occupied" /\ new[s].key = k /\ new[s].meta = v
  BY <1>2 DEF Entry
<1>4. In(new, c, "occupied") = In(tab, c, "occupied") \cup {s}
  BY <1>2, <1>3, Zenon DEF In
<1>5. In(new, c, "tombstone") = In(tab, c, "tombstone") \ {s}
  BY <1>2, <1>3, Zenon DEF In
<1>6. s \notin In(tab, c, "occupied")
  BY <1>1, Zenon DEF In, Free
<1>7. Single(new, c)
  BY <1>2, <1>3, <1>4, <1>6 DEF Single, TableOK, In, Free
<1>8. \A i \in 0 .. c - 1 : tab[i].state # "empty" => new[i].state # "empty"
  BY <1>2, <1>3, Zenon
<1>9. Reached(new, c)
  <2> SUFFICES ASSUME NEW i \in In(new, c, "occupied")
               PROVE  /\ new[i].key \in Keys /\ new[i].meta \in Metas
                      /\ \E n \in 0 .. c - 1 :
                            /\ i = Slot(new[i].key, n, c)
                            /\ \A m \in 0 .. n - 1 : new[Slot(new[i].key, m, c)].state # "empty"
    BY Zenon DEF Reached
  <2>1. CASE i = s
    <3>1. \A m \in 0 .. j - 1 : new[Slot(k, m, c)].state # "empty"
      BY <1>8, StillReached, ZenonT(30) DEF Free
    <3> QED BY <1>1, <1>3, <2>1, <3>1, Zenon
  <2>2. CASE i # s
    <3>1. i \in In(tab, c, "occupied") /\ new[i] = tab[i]
      BY <1>2, <1>4, <2>2, Zenon DEF In
    <3>2. PICK n \in 0 .. c - 1 :
             /\ i = Slot(tab[i].key, n, c)
             /\ \A m \in 0 .. n - 1 : tab[Slot(tab[i].key, m, c)].state # "empty"
      BY <3>1, Zenon DEF TableOK, Reached
    <3>3. tab[i].key \in Keys /\ tab[i].meta \in Metas
      BY <3>1, Zenon DEF TableOK, Reached
    <3>4. \A m \in 0 .. n - 1 : new[Slot(tab[i].key, m, c)].state # "empty"
      <4>1. PICK h \in Keys : h = tab[i].key
        BY <3>3, Zenon
      <4>2. \A m \in 0 .. n - 1 : tab[Slot(h, m, c)].state # "empty"
        BY <3>2, <4>1, Zenon
      <4>3. \A m \in 0 .. n - 1 : new[Slot(h, m, c)].state # "empty"
        BY <1>8, <4>2, StillReached, ZenonT(30)
      <4> QED BY <4>1, <4>3, Zenon
    <3> QED BY <3>1, <3>2, <3>3, <3>4, Zenon
  <2> QED BY <2>1, <2>2, Zenon
<1> QED BY <1>1, <1>2, <1>4, <1>5, <1>7, <1>9, Zenon DEF TableOK

(* The table without the key in slot s. *)
Bury(tab, s) == [tab EXCEPT ![s].state = "tombstone"]

(* The table with new metadata in slot s. *)
Rewrite(tab, s, v) == [tab EXCEPT ![s].meta = v]

(* A removed key leaves a tombstone, which ends no probe. *)
LEMMA Buried ==
    ASSUME TypeOK, NEW c \in Nat, NEW tab, TableOK(tab, c),
           NEW s \in In(tab, c, "occupied"),
           NEW new, new = Bury(tab, s)
    PROVE  /\ TableOK(new, c)
           /\ In(new, c, "occupied") = In(tab, c, "occupied") \ {s}
           /\ In(new, c, "tombstone") = In(tab, c, "tombstone") \cup {s}
           /\ \A i \in In(new, c, "occupied") : new[i] = tab[i]
<1>1. s \in 0 .. c - 1 /\ tab[s].state = "occupied" /\ tab[s] \in Entries
  BY Zenon DEF In, TableOK
<1>2. new \in [0 .. c - 1 -> Entries] /\ new[s].state = "tombstone"
      /\ \A i \in 0 .. c - 1 \ {s} : new[i] = tab[i]
  BY <1>1, Zenon DEF TableOK, Entries, Bury
<1>3. In(new, c, "occupied") = In(tab, c, "occupied") \ {s}
  BY <1>1, <1>2, Zenon DEF In
<1>4. In(new, c, "tombstone") = In(tab, c, "tombstone") \cup {s}
  BY <1>1, <1>2, Zenon DEF In
<1>5. \A i \in In(new, c, "occupied") : new[i] = tab[i]
  BY <1>2, <1>3, Zenon DEF In
<1>6. Single(new, c)
  BY <1>3, <1>5, ZenonT(30) DEF Single, TableOK
<1>7. \A i \in 0 .. c - 1 : tab[i].state # "empty" => new[i].state # "empty"
  BY <1>2, Zenon
<1>8. Reached(new, c)
  <2> SUFFICES ASSUME NEW i \in In(tab, c, "occupied"), new[i] = tab[i]
               PROVE  /\ tab[i].key \in Keys /\ tab[i].meta \in Metas
                      /\ \E n \in 0 .. c - 1 :
                            /\ i = Slot(tab[i].key, n, c)
                            /\ \A m \in 0 .. n - 1 : new[Slot(tab[i].key, m, c)].state # "empty"
    BY <1>3, <1>5 DEF Reached
  <2>1. PICK n \in 0 .. c - 1 :
           /\ i = Slot(tab[i].key, n, c)
           /\ \A m \in 0 .. n - 1 : tab[Slot(tab[i].key, m, c)].state # "empty"
    BY Zenon DEF TableOK, Reached
  <2>2. tab[i].key \in Keys /\ tab[i].meta \in Metas
    BY Zenon DEF TableOK, Reached
  <2>3. \A m \in 0 .. n - 1 : new[Slot(tab[i].key, m, c)].state # "empty"
    BY <1>7, <2>1, <2>2, StillReached, ZenonT(30)
  <2> QED BY <2>1, <2>2, <2>3, Zenon
<1> QED BY <1>2, <1>3, <1>4, <1>5, <1>6, <1>8, Zenon DEF TableOK

(* New metadata for a key that is there. *)
LEMMA Overwritten ==
    ASSUME TypeOK, NEW c \in Nat, NEW tab, TableOK(tab, c),
           NEW s \in In(tab, c, "occupied"), NEW v \in Metas,
           NEW new, new = Rewrite(tab, s, v)
    PROVE  /\ TableOK(new, c)
           /\ In(new, c, "occupied") = In(tab, c, "occupied")
           /\ In(new, c, "tombstone") = In(tab, c, "tombstone")
           /\ new[s].meta = v
           /\ \A i \in 0 .. c - 1 : new[i].key = tab[i].key
           /\ \A i \in 0 .. c - 1 \ {s} : new[i] = tab[i]
<1>1. s \in 0 .. c - 1 /\ tab[s].state = "occupied" /\ tab[s] \in Entries
  BY Zenon DEF In, TableOK
<1>2. new \in [0 .. c - 1 -> Entries] /\ new[s].meta = v
      /\ \A i \in 0 .. c - 1 \ {s} : new[i] = tab[i]
  BY <1>1, Zenon DEF TableOK, Entries, Rewrite
<1>3. \A i \in 0 .. c - 1 : new[i].key = tab[i].key /\ new[i].state = tab[i].state
  BY <1>1, <1>2, Zenon DEF Entries, TableOK, Rewrite
<1>4. In(new, c, "occupied") = In(tab, c, "occupied")
      /\ In(new, c, "tombstone") = In(tab, c, "tombstone")
  BY <1>3, Zenon DEF In
<1>5. Single(new, c)
  BY <1>3, <1>4, ZenonT(30) DEF Single, TableOK, In
<1>6. Reached(new, c)
  <2> SUFFICES ASSUME NEW i \in In(tab, c, "occupied")
               PROVE  /\ new[i].key \in Keys /\ new[i].meta \in Metas
                      /\ \E n \in 0 .. c - 1 :
                            /\ i = Slot(new[i].key, n, c)
                            /\ \A m \in 0 .. n - 1 : new[Slot(new[i].key, m, c)].state # "empty"
    BY <1>4, Zenon DEF Reached
  <2>1. PICK n \in 0 .. c - 1 :
           /\ i = Slot(tab[i].key, n, c)
           /\ \A m \in 0 .. n - 1 : tab[Slot(tab[i].key, m, c)].state # "empty"
    BY Zenon DEF TableOK, Reached
  <2>2. tab[i].key \in Keys /\ tab[i].meta \in Metas /\ i \in 0 .. c - 1
    BY Zenon DEF TableOK, Reached, In
  <2>3. \A m \in 0 .. n - 1 : new[Slot(tab[i].key, m, c)].state # "empty"
    <3>1. \A q \in 0 .. c - 1 : tab[q].state # "empty" => new[q].state # "empty"
      BY <1>3, Zenon
    <3> QED BY <2>1, <2>2, <3>1, StillReached, ZenonT(30)
  <2>4. new[i].key = tab[i].key /\ new[i].meta \in Metas
    BY <1>2, <1>3, <2>2, Zenon
  <2> QED BY <2>1, <2>2, <2>3, <2>4, Zenon
<1> QED BY <1>2, <1>3, <1>4, <1>5, <1>6, Zenon DEF TableOK

(* The slots in one state can be counted. *)
LEMMA Countable ==
    ASSUME NEW tab, NEW c \in Nat, NEW s
    PROVE  IsFiniteSet(In(tab, c, s)) /\ Cardinality(In(tab, c, s)) \in Nat
<1>1. IsFiniteSet(0 .. c - 1)
  BY FS_Interval
<1>2. IsFiniteSet(In(tab, c, s))
  BY <1>1, FS_Subset, Zenon DEF In
<1> QED BY <1>2, FS_CardinalityType, Zenon

(* A probe that meets occupied slots only has seen a full table. *)
LEMMA FullCount ==
    ASSUME TypeOK, NEW k \in Keys, NEW tab, NEW c \in Nat \ {0},
           \A j \in 0 .. c - 1 : tab[Slot(k, j, c)].state = "occupied"
    PROVE  Cardinality(In(tab, c, "occupied")) = c
<1>1. In(tab, c, "occupied") = 0 .. c - 1
  BY SlotOnto DEF In
<1>2. Cardinality(0 .. c - 1) = c
  BY FS_Interval
<1> QED BY <1>1, <1>2, Zenon

(* An empty table. *)
LEMMA Fresh ==
    ASSUME NEW c \in Nat
    PROVE  /\ TableOK(alloc_raw(c), c)
           /\ In(alloc_raw(c), c, "occupied") = {} /\ In(alloc_raw(c), c, "tombstone") = {}
<1>1. Empty \in Entries
  BY Zenon DEF Empty, Entries
<1>2. alloc_raw(c) \in [0 .. c - 1 -> Entries] /\ \A i \in 0 .. c - 1 : alloc_raw(c)[i] = Empty
  BY <1>1, Zenon DEF alloc_raw
<1>3. In(alloc_raw(c), c, "occupied") = {} /\ In(alloc_raw(c), c, "tombstone") = {}
  BY <1>2 DEF In, Empty
<1> QED BY <1>2, <1>3, Zenon DEF TableOK, Single, Reached

-----------------------------------------------------------------------------
(* The steps. *)

(* What a call asks for. *)
LEMMA CallFacts ==
    ASSUME NEW c \in Calls
    PROVE  c.key \in Keys /\ (c.op = "insert" => c.meta \in Metas)
BY ZenonT(30) DEF Calls

(* The parts of the invariant that speak of the table, for its new value. *)
LEMMA TableNext ==
    ASSUME NEW tab, NEW c, TableOK(tab, c), table' = tab, cap' = c, hash' = hash
    PROVE  /\ TableOK(table, cap)' /\ table' \in [0 .. cap' - 1 -> Entries]
           /\ With("occupied")' = In(tab, c, "occupied")
           /\ With("tombstone")' = In(tab, c, "tombstone")
BY DEF TableOK, Single, Reached, In, With, Slot

(* The same for the table that grow fills. *)
LEMMA LargerNext ==
    ASSUME NEW tab, NEW c, TableOK(tab, c), larger' = tab, NewCap' = c, hash' = hash
    PROVE  TableOK(larger, NewCap)'
BY DEF TableOK, Single, Reached, In, Slot

(* The thread inside is alone there, and goes on or comes to its end. *)
LEMMA OwnerKept ==
    ASSUME IInv, NEW t \in Threads, pc[t] \in Inside, lock' = lock,
           NEW p \in {"grow", "insert", "unlock"}, pc' = [pc EXCEPT ![t] = p],
           \/ call' = call /\ call[t].op = "insert"
           \/ call' = [call EXCEPT ![t] = NoCall] /\ p = "unlock"
    PROVE  Owner' /\ \A u \in Threads \ {t} : pc'[u] \notin Inside
<1>1. pc \in [Threads -> {"idle", "lock", "work", "grow", "insert", "unlock", "abort"}]
      /\ call \in [Threads -> Calls \cup {NoCall}]
  BY Zenon DEF IInv, TypeOK
<1>2. /\ \A u \in Threads : pc[u] # "abort" /\ (pc[u] \in Inside => lock)
      /\ \A u \in Threads \ {t} : pc[u] \notin Inside
      /\ \A u \in Threads : pc[u] = "lock" => call[u] \in Calls
  BY Zenon DEF IInv, Owner
<1>3. p \in {"grow", "insert"} => call'[t] \in Calls /\ call'[t].op = "insert"
  <2>1. call[t].op = "insert" => call[t] \in Calls
    BY <1>1 DEF NoCall
  <2> QED BY <2>1, Zenon
<1>4. \A u \in Threads \ {t} : pc'[u] = pc[u] /\ call'[u] = call[u]
  BY <1>1, Zenon
<1>5. pc'[t] = p
  BY <1>1, Zenon
<1> QED BY <1>2, <1>3, <1>4, <1>5, ZenonT(30) DEF Owner, Inside

(* ensure_capacity leaves room, or starts to make some. *)
LEMMA EnsureKept ==
    ASSUME IInv, NEW t \in Threads, ensure_capacity(t)
    PROVE  IInv'
<1>1. /\ pc[t] = "work" /\ call[t].op = "insert" /\ call' = call /\ lock' = lock
      /\ hash' = hash /\ alive' = alive /\ ret' = ret
  BY Zenon DEF ensure_capacity
<1>2. pc[t] \in Inside
  BY <1>1, Zenon DEF Inside
<1>3. larger = alloc_raw(0) /\ moved = 0
  BY <1>1, Zenon DEF IInv, Owner, Growth, Inside
<1>4. CASE cap = 0
  <2>1. /\ table' = alloc_raw(INITIAL_CAP) /\ cap' = INITIAL_CAP /\ len' = 0 /\ tombs' = 0
        /\ pc' = [pc EXCEPT ![t] = "insert"] /\ growth' = growth
    BY <1>4, Zenon DEF ensure_capacity, Goto
  <2>2. Owner' /\ \A u \in Threads \ {t} : pc'[u] \notin Inside
    BY <1>1, <1>2, <2>1, OwnerKept, Zenon
  <2>3. INITIAL_CAP \in Nat /\ INITIAL_CAP >= 2
    BY BigAllocMapAssumption
  <2>4. TableOK(table, cap)' /\ With("occupied")' = {} /\ With("tombstone")' = {}
        /\ table' \in [0 .. cap' - 1 -> Entries]
    BY <1>1, <2>1, <2>3, Fresh, TableNext, Zenon
  <2>5. CountersExact'
    BY <2>1, <2>4, FS_EmptySet, Zenon DEF CountersExact
  <2>6. Load'
    BY <2>1, <2>3 DEF Load, LOAD_NUM, LOAD_DEN
  <2>7. Growth'
    BY <1>3, <2>1, <2>2, Zenon DEF Growth, growth, Inside, IInv, TypeOK
  <2>8. TypeOK'
    <3>1. larger' \in [0 .. 0 - 1 -> Entries]
      BY <1>3, <2>1, Fresh, Zenon DEF growth, TableOK
    <3>2. moved' \in 0 .. cap'
      BY <1>3, <2>1, <2>3 DEF growth
    <3> QED BY <1>1, <2>1, <2>3, <2>4, <3>1, <3>2, Zenon DEF TypeOK, IInv
  <2> QED BY <2>2, <2>4, <2>5, <2>6, <2>7, <2>8, Zenon DEF IInv
<1>5. CASE cap # 0 /\ Roomy
  <2>1. UNCHANGED <<table, counters, growth>> /\ pc' = [pc EXCEPT ![t] = "insert"]
    BY <1>5, Zenon DEF ensure_capacity, Goto
  <2>2. Owner' /\ \A u \in Threads \ {t} : pc'[u] \notin Inside
    BY <1>1, <1>2, <2>1, OwnerKept, Zenon
  <2>3. TableOK(table, cap)' /\ CountersExact'
    BY <1>1, <2>1, TableNext, Zenon DEF IInv, CountersExact, counters, With
  <2>4. Load'
    BY <1>5, <2>1, Zenon DEF Load, Roomy, IInv, counters
  <2>5. Growth'
    BY <1>3, <2>1, <2>2, Zenon DEF Growth, growth, Inside, IInv, TypeOK
  <2>6. TypeOK'
    BY <1>1, <2>1, Zenon DEF TypeOK, IInv, counters, growth, NewCap
  <2> QED BY <2>2, <2>3, <2>4, <2>5, <2>6, Zenon DEF IInv
<1>6. CASE cap # 0 /\ ~Roomy
  <2>1. /\ UNCHANGED <<table, counters>> /\ pc' = [pc EXCEPT ![t] = "grow"]
        /\ larger' = alloc_raw(NewCap) /\ moved' = 0
    BY <1>6, Zenon DEF ensure_capacity, Goto
  <2>2. Owner' /\ \A u \in Threads \ {t} : pc'[u] \notin Inside
    BY <1>1, <1>2, <2>1, OwnerKept, Zenon
  <2>3. TableOK(table, cap)' /\ CountersExact'
    BY <1>1, <2>1, TableNext, Zenon DEF IInv, CountersExact, counters, With
  <2>4. Load'
    BY <2>1, <2>2, Zenon DEF Load, Inside, IInv, counters, TypeOK
  <2>5. cap \in Nat /\ cap >= 2 /\ NewCap \in Nat /\ NewCap' = NewCap
    BY <1>6, <2>1, BigAllocMapAssumption DEF IInv, Load, TypeOK, NewCap, counters
  <2>6. Growth'
    <3>1. TableOK(larger, NewCap)'
      BY <1>1, <2>1, <2>5, Fresh, ZenonT(30) DEF TableOK, Single, Reached, In, Slot
    <3>2. In(larger, NewCap, "occupied")' = {} /\ In(larger, NewCap, "tombstone")' = {}
      BY <2>1, <2>5, Fresh, Zenon DEF In
    <3>3. Behind' = {}
      BY <2>1 DEF Behind, In
    <3>4. cap' >= 2
      BY <2>1, <2>5, Zenon DEF counters
    <3>5. Building'
      BY <3>1, <3>2, <3>3, <3>4, Zenon DEF Building
    <3>6. pc'[t] = "grow"
      BY <2>1, Zenon DEF IInv, TypeOK
    <3> QED BY <3>5, <3>6, Zenon DEF Growth
  <2>7. TypeOK'
    <3>1. larger' \in [0 .. NewCap' - 1 -> Entries]
      BY <2>1, <2>5, Fresh, Zenon DEF TableOK
    <3>2. moved' \in 0 .. cap'
      BY <2>1, <2>5 DEF counters
    <3> QED BY <1>1, <2>1, <3>1, <3>2, Zenon DEF TypeOK, IInv, counters
  <2> QED BY <2>2, <2>3, <2>4, <2>6, <2>7, Zenon DEF IInv
<1> QED BY <1>4, <1>5, <1>6, Zenon

(* The slots grow has been through, and those it has not. *)
LEMMA BehindCount ==
    ASSUME IInv
    PROVE  /\ IsFiniteSet(Behind) /\ Cardinality(Behind) \in Nat
           /\ Cardinality(Behind) <= len
<1>1. IsFiniteSet(With("occupied")) /\ len = Cardinality(With("occupied"))
  <2>1. With("occupied") = In(table, cap, "occupied")
    BY Zenon DEF In, With
  <2> QED BY <2>1, Countable, Zenon DEF IInv, TypeOK, CountersExact
<1>2. Behind \subseteq With("occupied")
  BY Zenon DEF Behind, In, With
<1> QED BY <1>1, <1>2, FS_Subset, FS_CardinalityType, Zenon

(* The larger table has room for what the old one holds. *)
LEMMA RoomAhead ==
    ASSUME IInv, cap >= 2
    PROVE  /\ NewCap \in Nat \ {0} /\ NewCap >= 2 * cap
           /\ len < NewCap /\ (len + 1) * LOAD_DEN <= NewCap * LOAD_NUM
<1>1. cap \in Nat /\ len \in Nat /\ len * LOAD_DEN <= cap * LOAD_NUM
  BY Zenon DEF IInv, TypeOK, Load
<1>2. NewCap \in Nat /\ NewCap >= 2 * cap
  BY <1>1, BigAllocMapAssumption DEF NewCap
<1> QED BY <1>1, <1>2 DEF LOAD_NUM, LOAD_DEN

(* One slot of the old table: reinsert finds room in the larger one. *)
LEMMA MoveKept ==
    ASSUME IInv, NEW t \in Threads, Move(t)
    PROVE  IInv'
<1>1. /\ pc[t] = "grow" /\ moved < cap /\ moved' = moved + 1
      /\ UNCHANGED <<table, counters, lock, hash, alive, call, ret>>
  BY Zenon DEF Move
<1>2. Building /\ TypeOK /\ TableOK(table, cap)
  BY <1>1, Zenon DEF IInv, Growth
<1>3. /\ cap \in Nat /\ moved \in 0 .. cap - 1 /\ cap' = cap /\ NewCap' = NewCap /\ len' = len
      /\ tombs' = tombs
  BY <1>1, <1>2 DEF TypeOK, NewCap, counters
<1>4. NewCap \in Nat \ {0} /\ len < NewCap
  BY <1>2, RoomAhead, Zenon DEF Building
<1>5. TableOK(table, cap)' /\ CountersExact'
  BY <1>1, <1>2, TableNext, Zenon DEF IInv, CountersExact, counters, With
<1>6. SUFFICES pc' = pc /\ Building'
  <2>1. Owner' /\ Load'
    BY <1>1, <1>6, Zenon DEF IInv, Owner, Load, counters
  <2>2. Growth'
    BY <1>1, <1>6, Zenon DEF Growth
  <2>3. larger' \in [0 .. NewCap' - 1 -> Entries]
    BY <1>6, Zenon DEF Building, TableOK
  <2>4. moved' \in 0 .. cap'
    BY <1>1, <1>3
  <2>5. TypeOK'
    BY <1>1, <1>2, <1>6, <2>3, <2>4, Zenon DEF TypeOK, counters
  <2> QED BY <1>5, <2>1, <2>2, <2>5, Zenon DEF IInv
<1>7. CASE table[moved].state # "occupied"
  <2>1. larger' = larger /\ pc' = pc
    BY <1>7, Zenon DEF Move
  <2>2. Behind' = Behind
    BY <1>1, <1>3, <1>7 DEF Behind, In
  <2>3. TableOK(larger, NewCap)'
    BY <1>1, <1>2, <1>3, <2>1, LargerNext, Zenon DEF Building
  <2> QED BY <1>1, <1>2, <1>3, <2>1, <2>2, <2>3, ZenonT(30) DEF Building, In
<1>8. CASE table[moved].state = "occupied"
  <2>1. PICK e : e = table[moved]
    BY Zenon
  <2>2. moved \in In(table, cap, "occupied") /\ e.key \in Keys /\ e.meta \in Metas
        /\ e = Entry(e.key, e.meta)
    <3>1. moved \in In(table, cap, "occupied")
      BY <1>3, <1>8, Zenon DEF In
    <3>2. e.key \in Keys /\ e.meta \in Metas
      BY <1>2, <2>1, <3>1, Zenon DEF TableOK, Reached
    <3>3. e \in Entries /\ e.state = "occupied"
      BY <1>2, <1>3, <1>8, <2>1, Zenon DEF TypeOK
    <3> QED BY <3>1, <3>2, <3>3, Zenon DEF Entries, Entry
  <2>3. PICK j \in 0 .. NewCap :
          /\ \A i \in 0 .. j - 1 : larger[Slot(e.key, i, NewCap)].state = "occupied"
          /\ IF j < NewCap
             THEN /\ larger[Slot(e.key, j, NewCap)].state # "occupied"
                  /\ larger' = [larger EXCEPT ![Slot(e.key, j, NewCap)] = Entry(e.key, e.meta)]
                  /\ pc' = pc
             ELSE larger' = larger /\ Goto(t, "abort")
    BY <1>8, <2>1, Zenon DEF Move, reinsert
  <2>4. j < NewCap
    <3> SUFFICES ASSUME j = NewCap PROVE FALSE
      BY <1>4
    <3>1. Cardinality(In(larger, NewCap, "occupied")) = NewCap
      BY <1>2, <1>4, <2>2, <2>3, FullCount, Zenon
    <3> QED BY <1>2, <1>4, <3>1, BehindCount DEF Building, IInv, TypeOK
  <2>5. PICK s : s = Slot(e.key, j, NewCap)
    BY Zenon
  <2>6. /\ larger[s].state # "occupied" /\ pc' = pc
        /\ larger' = [larger EXCEPT ![s] = Entry(e.key, e.meta)]
    BY <2>3, <2>4, <2>5, Zenon
  <2>7. \A i \in In(larger, NewCap, "occupied") : larger[i].key # e.key
    <3> SUFFICES ASSUME NEW i \in In(larger, NewCap, "occupied"), larger[i].key = e.key
                 PROVE  FALSE
      BY Zenon
    <3>1. PICK n \in Behind : larger[i] = table[n]
      BY <1>2, Zenon DEF Building
    <3>2. n = moved
      BY <1>2, <2>1, <2>2, <3>1, Zenon DEF Behind, TableOK, Single
    <3> QED BY <1>3, <3>1, <3>2 DEF Behind
  <2>8. /\ TableOK(larger', NewCap) /\ s \in 0 .. NewCap - 1 /\ larger'[s] = e
        /\ In(larger', NewCap, "occupied") = In(larger, NewCap, "occupied") \cup {s}
        /\ In(larger', NewCap, "tombstone") = In(larger, NewCap, "tombstone") \ {s}
    <3>1. j \in 0 .. NewCap - 1 /\ NewCap \in Nat /\ TableOK(larger, NewCap)
      BY <1>2, <1>4, <2>4 DEF Building
    <3>2. \A m \in 0 .. j - 1 : larger[Slot(e.key, m, NewCap)].state # "empty"
      BY <2>3, Zenon
    <3>3. PICK new : new = larger'
      BY Zenon
    <3>4. TableOK(new, NewCap) /\ s \in 0 .. NewCap - 1 /\ new[s] = Entry(e.key, e.meta)
          /\ In(new, NewCap, "occupied") = In(larger, NewCap, "occupied") \cup {s}
          /\ In(new, NewCap, "tombstone") = In(larger, NewCap, "tombstone") \ {s}
      <4>1. PICK k \in Keys, v \in Metas, c \in Nat : k = e.key /\ v = e.meta /\ c = NewCap
        BY <2>2, <3>1, Zenon
      <4>2. PICK tab : tab = larger
        BY Zenon
      <4>3. /\ TableOK(tab, c) /\ j \in 0 .. c - 1 /\ Free(tab, c, k, j)
            /\ new = Put(tab, c, k, j, v)
        BY <2>5, <2>6, <2>7, <3>1, <3>2, <3>3, <4>1, <4>2, ZenonT(30) DEF Free, Put
      <4>4. /\ TableOK(new, c) /\ Slot(k, j, c) \in 0 .. c - 1
            /\ new[Slot(k, j, c)] = Entry(k, v)
            /\ In(new, c, "occupied") = In(tab, c, "occupied") \cup {Slot(k, j, c)}
            /\ In(new, c, "tombstone") = In(tab, c, "tombstone") \ {Slot(k, j, c)}
        BY <1>2, <4>3, Filled
      <4> QED BY <2>5, <4>1, <4>2, <4>4, Zenon
    <3> QED BY <2>2, <3>3, <3>4, Zenon
  <2>9. Behind' = Behind \cup {moved} /\ moved \notin Behind
    BY <1>1, <1>3, <2>2 DEF Behind, In
  <2>10. \A i \in 0 .. NewCap - 1 \ {s} : larger'[i] = larger[i]
    BY <1>2, <2>6, Zenon DEF Building, TableOK
  <2>11. s \notin In(larger, NewCap, "occupied")
    BY <2>6, Zenon DEF In
  <2>12. Cardinality(In(larger', NewCap, "occupied")) = Cardinality(Behind')
    <3>1. IsFiniteSet(In(larger, NewCap, "occupied"))
      BY <1>4, Countable, Zenon
    <3>2. Cardinality(In(larger', NewCap, "occupied"))
             = Cardinality(In(larger, NewCap, "occupied")) + 1
      BY <2>8, <2>11, <3>1, FS_AddElement, Zenon
    <3>3. Cardinality(Behind') = Cardinality(Behind) + 1
      BY <2>9, BehindCount, FS_AddElement, Zenon
    <3> QED BY <1>2, <3>2, <3>3, Zenon DEF Building
  <2>13. \A i \in Behind' : \E n \in In(larger', NewCap, "occupied") : larger'[n] = table'[i]
    <3> SUFFICES ASSUME NEW i \in Behind'
                 PROVE  \E n \in In(larger', NewCap, "occupied") : larger'[n] = table[i]
      BY <1>1, Zenon
    <3>1. CASE i = moved
      BY <2>1, <2>8, <3>1, Zenon
    <3>2. CASE i \in Behind
      <4>1. PICK n \in In(larger, NewCap, "occupied") : larger[n] = table[i]
        BY <1>2, <3>2, Zenon DEF Building
      <4> QED BY <2>8, <2>10, <2>11, <4>1, Zenon DEF In
    <3> QED BY <2>9, <3>1, <3>2, Zenon
  <2>14. \A n \in In(larger', NewCap, "occupied") : \E i \in Behind' : larger'[n] = table'[i]
    <3> SUFFICES ASSUME NEW n \in In(larger', NewCap, "occupied")
                 PROVE  \E i \in Behind' : larger'[n] = table[i]
      BY <1>1, Zenon
    <3>1. CASE n = s
      BY <2>1, <2>8, <2>9, <3>1, Zenon
    <3>2. CASE n # s
      <4>1. n \in In(larger, NewCap, "occupied") /\ larger'[n] = larger[n]
        BY <2>8, <2>10, <3>2, Zenon DEF In
      <4> QED BY <1>2, <2>9, <4>1, Zenon DEF Building
    <3> QED BY <3>1, <3>2, Zenon
  <2>15. TableOK(larger, NewCap)'
    BY <1>1, <1>3, <2>8, LargerNext, Zenon
  <2>16. \A q : In(larger, NewCap, q)' = In(larger', NewCap, q)
    BY <1>3, Zenon DEF In
  <2>17. cap' >= 2 /\ In(larger, NewCap, "tombstone")' = {}
    BY <1>2, <1>3, <2>8, <2>16, Zenon DEF Building
  <2> QED BY <2>6, <2>12, <2>13, <2>14, <2>15, <2>16, <2>17, Zenon DEF Building
<1> QED BY <1>7, <1>8, Zenon

(* The larger table takes over with every entry and no tombstone. *)
LEMMA SwapKept ==
    ASSUME IInv, NEW t \in Threads, Swap(t)
    PROVE  IInv'
<1>1. /\ pc[t] = "grow" /\ moved = cap /\ table' = larger /\ cap' = NewCap /\ tombs' = 0
      /\ len' = len /\ larger' = alloc_raw(0) /\ moved' = 0 /\ pc' = [pc EXCEPT ![t] = "insert"]
      /\ UNCHANGED <<lock, hash, alive, call, ret>>
  BY Zenon DEF Swap, Goto
<1>2. Building /\ TypeOK /\ call[t].op = "insert" /\ pc[t] \in Inside
  BY <1>1, Zenon DEF IInv, Growth, Owner, Inside
<1>3. NewCap \in Nat \ {0} /\ (len + 1) * LOAD_DEN <= NewCap * LOAD_NUM /\ NewCap >= 2
  BY <1>2, RoomAhead DEF Building, TypeOK
<1>4. Owner' /\ \A u \in Threads \ {t} : pc'[u] \notin Inside
  BY <1>1, <1>2, OwnerKept, Zenon
<1>5. TableOK(table, cap)' /\ table' \in [0 .. cap' - 1 -> Entries]
      /\ With("occupied")' = In(larger, NewCap, "occupied") /\ With("tombstone")' = {}
  <2>1. TableOK(larger, NewCap) /\ In(larger, NewCap, "tombstone") = {}
    BY <1>2, Zenon DEF Building
  <2> QED BY <1>1, <2>1, TableNext, Zenon
<1>6. CountersExact'
  <2>1. Behind = With("occupied")
    BY <1>1, <1>2 DEF Behind, In, With, TypeOK
  <2>2. len = Cardinality(With("occupied"))
    BY Zenon DEF IInv, CountersExact
  <2>3. Cardinality(In(larger, NewCap, "occupied")) = Cardinality(Behind)
    BY <1>2, Zenon DEF Building
  <2> QED BY <1>1, <1>5, <2>1, <2>2, <2>3, FS_EmptySet, Zenon DEF CountersExact
<1>7. Load'
  <2>1. len \in Nat
    BY <1>2, Zenon DEF TypeOK
  <2> QED BY <1>1, <1>3, <2>1 DEF Load, LOAD_NUM, LOAD_DEN
<1>8. Growth'
  BY <1>1, <1>2, <1>4, Zenon DEF Growth, Inside, TypeOK
<1>9. TypeOK'
  <2>1. larger' \in [0 .. 0 - 1 -> Entries]
    BY <1>1, Fresh, Zenon DEF TableOK
  <2>2. moved' \in 0 .. cap' /\ cap' \in Nat
    BY <1>1, <1>3
  <2> QED BY <1>1, <1>2, <1>5, <2>1, <2>2, Zenon DEF TypeOK
<1> QED BY <1>4, <1>5, <1>6, <1>7, <1>8, <1>9, Zenon DEF IInv

(* A thread that is about to insert has room, and nothing is growing. *)
LEMMA InsertFacts ==
    ASSUME IInv, NEW t \in Threads, pc[t] = "insert"
    PROVE  /\ call[t].op = "insert" /\ call[t].key \in Keys /\ call[t].meta \in Metas
           /\ cap \in Nat /\ len \in Nat /\ (len + 1) * LOAD_DEN <= cap * LOAD_NUM
           /\ len < cap /\ pc[t] \in Inside
<1>1. call[t] \in Calls /\ call[t].op = "insert" /\ pc[t] \in Inside
  BY Zenon DEF IInv, Owner, Inside
<1>2. cap \in Nat /\ len \in Nat /\ (len + 1) * LOAD_DEN <= cap * LOAD_NUM
  BY Zenon DEF IInv, TypeOK, Load
<1>3. len < cap
  BY <1>2 DEF LOAD_NUM, LOAD_DEN
<1> QED BY <1>1, <1>2, <1>3, CallFacts, Zenon

(* insert writes over the entry of its key, or into a slot that is free    *)
(* for it, and does not abort.                                             *)
LEMMA InsertShape ==
    ASSUME IInv, NEW t \in Threads, insert(t), NEW k \in Keys, k = call[t].key
    PROVE  /\ \/ /\ \E s \in In(table, cap, "occupied") :
                        table[s].key = k /\ table' = Rewrite(table, s, call[t].meta)
                 /\ len' = len /\ tombs' = tombs
              \/ \E j \in 0 .. cap - 1 :
                    /\ Free(table, cap, k, j)
                    /\ table' = Put(table, cap, k, j, call[t].meta) /\ len' = len + 1
                    /\ \/ table[Slot(k, j, cap)].state = "tombstone" /\ tombs' = tombs - 1
                       \/ table[Slot(k, j, cap)].state = "empty" /\ tombs' = tombs
           /\ Return(t, NoMeta) /\ UNCHANGED <<cap, growth, lock, hash, alive>>
<1>1. pc[t] = "insert" /\ UNCHANGED <<cap, growth, lock, hash, alive>>
  BY Zenon DEF insert
<1>2. TypeOK /\ TableOK(table, cap) /\ cap \in Nat /\ len < cap /\ len \in Nat
  BY <1>1, InsertFacts, Zenon DEF IInv
<1>3. ASSUME NEW s \in 0 .. cap - 1, Hit(k, s),
             table' = [table EXCEPT ![s].meta = call[t].meta],
             Return(t, NoMeta), UNCHANGED <<len, tombs>>
      PROVE  /\ \E i \in In(table, cap, "occupied") :
                   table[i].key = k /\ table' = Rewrite(table, i, call[t].meta)
             /\ len' = len /\ tombs' = tombs /\ Return(t, NoMeta)
  BY <1>3, HitMeansHere, Zenon DEF Rewrite
<1>4. ASSUME NEW j \in 0 .. cap, Miss(k, j),
             NEW f \in 0 .. j - 1, table[Slot(k, f, cap)].state = "tombstone",
             Fill(t, Slot(k, f, cap)), tombs' = tombs - 1
      PROVE  f \in 0 .. cap - 1 /\ Free(table, cap, k, f)
  <2>1. f \in 0 .. cap - 1
    BY <1>2
  <2>2. \A m \in 0 .. f - 1 : table[Slot(k, m, cap)].state # "empty"
    BY <1>2, <1>4 DEF Miss, Passes
  <2>3. \A i \in In(table, cap, "occupied") : table[i].key # k
    BY <1>2, <1>4, MissMeansAbsent, Zenon
  <2> QED BY <1>4, <2>1, <2>2, <2>3, Zenon DEF Free
<1>5. ASSUME NEW j \in 0 .. cap, Miss(k, j), j < cap
      PROVE  Free(table, cap, k, j) /\ table[Slot(k, j, cap)].state = "empty"
  <2>1. table[Slot(k, j, cap)].state = "empty"
    BY <1>5, Zenon DEF Miss
  <2>2. \A m \in 0 .. j - 1 : table[Slot(k, m, cap)].state # "empty"
    BY <1>5, Zenon DEF Miss, Passes
  <2>3. \A i \in In(table, cap, "occupied") : table[i].key # k
    BY <1>2, <1>5, MissMeansAbsent, Zenon
  <2> QED BY <2>1, <2>2, <2>3, Zenon DEF Free
<1>6. ASSUME Miss(k, cap), \A i \in 0 .. cap - 1 : table[Slot(k, i, cap)].state # "tombstone"
      PROVE  FALSE
  <2>1. ASSUME NEW j \in 0 .. cap - 1
        PROVE  table[Slot(k, j, cap)].state = "occupied"
    <3>1. PICK s \in 0 .. cap - 1 : s = Slot(k, j, cap)
      BY <1>2, SlotRange
    <3>2. table[s] \in Entries /\ table[s].state # "empty" /\ table[s].state # "tombstone"
      BY <1>2, <1>6, <3>1, Zenon DEF Miss, Passes, TypeOK
    <3> QED BY <3>1, <3>2, Zenon DEF Entries
  <2>2. cap \in Nat \ {0}
    BY <1>2
  <2>3. Cardinality(In(table, cap, "occupied")) = cap
    BY <1>2, <2>1, <2>2, FullCount, Zenon
  <2>4. len = Cardinality(In(table, cap, "occupied"))
    BY Zenon DEF IInv, CountersExact, With, In
  <2> QED BY <1>2, <2>3, <2>4
<1>7. \/ \E s \in 0 .. cap - 1 :
            /\ Hit(k, s)
            /\ table' = [table EXCEPT ![s].meta = call[t].meta]
            /\ Return(t, NoMeta)
            /\ UNCHANGED <<len, tombs>>
      \/ \E j \in 0 .. cap :
            /\ Miss(k, j)
            /\ \/ \E f \in 0 .. j - 1 :
                    /\ table[Slot(k, f, cap)].state = "tombstone"
                    /\ Fill(t, Slot(k, f, cap)) /\ tombs' = tombs - 1
               \/ /\ \A i \in 0 .. j - 1 : table[Slot(k, i, cap)].state # "tombstone"
                  /\ j < cap => Fill(t, Slot(k, j, cap)) /\ tombs' = tombs
  BY Zenon DEF insert
<1>8. CASE \E s \in 0 .. cap - 1 :
              /\ Hit(k, s)
              /\ table' = [table EXCEPT ![s].meta = call[t].meta]
              /\ Return(t, NoMeta)
              /\ UNCHANGED <<len, tombs>>
  BY <1>1, <1>3, <1>8, Zenon
<1>9. ASSUME NEW j \in 0 .. cap, Miss(k, j),
             NEW f \in 0 .. j - 1, table[Slot(k, f, cap)].state = "tombstone",
             Fill(t, Slot(k, f, cap)), tombs' = tombs - 1
      PROVE  /\ \E n \in 0 .. cap - 1 :
                    /\ Free(table, cap, k, n)
                    /\ table' = Put(table, cap, k, n, call[t].meta) /\ len' = len + 1
                    /\ table[Slot(k, n, cap)].state = "tombstone" /\ tombs' = tombs - 1
             /\ Return(t, NoMeta)
  BY <1>4, <1>9, Zenon DEF Fill, Put
<1>10. ASSUME NEW j \in 0 .. cap, Miss(k, j), j < cap,
              Fill(t, Slot(k, j, cap)), tombs' = tombs
       PROVE  /\ \E n \in 0 .. cap - 1 :
                    /\ Free(table, cap, k, n)
                    /\ table' = Put(table, cap, k, n, call[t].meta) /\ len' = len + 1
                    /\ table[Slot(k, n, cap)].state = "empty" /\ tombs' = tombs
              /\ Return(t, NoMeta)
  <2>1. j \in 0 .. cap - 1
    BY <1>2, <1>10
  <2> QED BY <1>5, <1>10, <2>1, Zenon DEF Fill, Put
<1>11. ASSUME NEW j \in 0 .. cap, Miss(k, j),
              \A i \in 0 .. j - 1 : table[Slot(k, i, cap)].state # "tombstone"
       PROVE  j < cap
  BY <1>2, <1>6, <1>11
<1> QED BY <1>1, <1>7, <1>8, <1>9, <1>10, <1>11, Zenon

(* An operation that returns, with its table in order. *)
LEMMA ReturnKept ==
    ASSUME IInv, NEW t \in Threads, pc[t] \in {"work", "insert"},
           NEW v \in Metas \cup {NoMeta}, Return(t, v),
           UNCHANGED <<cap, growth, lock, hash, alive>>,
           NEW tab, table' = tab, TableOK(tab, cap),
           len' = Cardinality(In(tab, cap, "occupied")),
           tombs' = Cardinality(In(tab, cap, "tombstone")),
           len' * LOAD_DEN <= cap * LOAD_NUM
    PROVE  IInv'
<1>1. TypeOK /\ pc[t] \in Inside /\ cap \in Nat
  BY Zenon DEF IInv, Inside, TypeOK
<1>2. /\ pc' = [pc EXCEPT ![t] = "unlock"] /\ call' = [call EXCEPT ![t] = NoCall]
      /\ ret' = [ret EXCEPT ![t] = v]
  BY Zenon DEF Return, Goto
<1>3. Owner' /\ \A u \in Threads \ {t} : pc'[u] \notin Inside
  BY <1>1, <1>2, OwnerKept, Zenon
<1>4. /\ TableOK(table, cap)' /\ table' \in [0 .. cap' - 1 -> Entries]
      /\ With("occupied")' = In(tab, cap, "occupied")
      /\ With("tombstone")' = In(tab, cap, "tombstone")
  BY TableNext, Zenon
<1>5. CountersExact'
  BY <1>4, Zenon DEF CountersExact
<1>6. len' \in Nat /\ tombs' \in Nat
  BY <1>1, Countable, Zenon
<1>7. pc'[t] = "unlock"
  BY <1>1, <1>2, Zenon DEF TypeOK
<1>8. Load'
  BY <1>3, <1>7, Zenon DEF IInv, Load, Inside
<1>9. \A u \in Threads : pc[u] # "grow"
  BY <1>1, Zenon DEF IInv, Owner, Inside
<1>10. larger' = alloc_raw(0) /\ moved' = 0
  BY <1>9, Zenon DEF IInv, Growth, growth
<1>11. Growth'
  BY <1>3, <1>7, <1>10, Zenon DEF Growth, Inside
<1>12. TypeOK'
  <2>1. larger' \in [0 .. 0 - 1 -> Entries]
    BY <1>10, Fresh, Zenon DEF TableOK
  <2>2. moved' \in 0 .. cap'
    BY <1>1, <1>10
  <2> QED BY <1>1, <1>2, <1>4, <1>6, <2>1, <2>2, Zenon DEF TypeOK
<1> QED BY <1>3, <1>4, <1>5, <1>8, <1>11, <1>12, Zenon DEF IInv

(* insert. *)
LEMMA InsertKept ==
    ASSUME IInv, NEW t \in Threads, insert(t)
    PROVE  IInv'
<1>1. pc[t] = "insert"
  BY Zenon DEF insert
<1>2. PICK k \in Keys, v \in Metas : k = call[t].key /\ v = call[t].meta
  BY <1>1, InsertFacts, Zenon
<1>3. /\ TypeOK /\ TableOK(table, cap) /\ cap \in Nat /\ len \in Nat /\ tombs \in Nat
      /\ (len + 1) * LOAD_DEN <= cap * LOAD_NUM /\ len * LOAD_DEN <= cap * LOAD_NUM
  BY <1>1, InsertFacts, Zenon DEF IInv, TypeOK, Load
<1>4. /\ len = Cardinality(In(table, cap, "occupied"))
      /\ tombs = Cardinality(In(table, cap, "tombstone"))
  BY Zenon DEF IInv, CountersExact, With, In
<1>5. Return(t, NoMeta) /\ UNCHANGED <<cap, growth, lock, hash, alive>>
  BY <1>2, InsertShape, Zenon
<1>6. PICK tab : tab = table'
  BY Zenon
<1>7. ASSUME NEW s \in In(table, cap, "occupied"), tab = Rewrite(table, s, v),
             len' = len, tombs' = tombs
      PROVE  IInv'
  <2>1. /\ TableOK(tab, cap) /\ In(tab, cap, "occupied") = In(table, cap, "occupied")
        /\ In(tab, cap, "tombstone") = In(table, cap, "tombstone")
    BY <1>3, <1>7, Overwritten
  <2> QED BY <1>1, <1>3, <1>4, <1>5, <1>6, <1>7, <2>1, ReturnKept, Zenon
<1>8. ASSUME NEW j \in 0 .. cap - 1, Free(table, cap, k, j), tab = Put(table, cap, k, j, v),
             len' = len + 1,
             \/ table[Slot(k, j, cap)].state = "tombstone" /\ tombs' = tombs - 1
             \/ table[Slot(k, j, cap)].state = "empty" /\ tombs' = tombs
      PROVE  IInv'
  <2>1. PICK s : s = Slot(k, j, cap)
    BY Zenon
  <2>2. /\ TableOK(tab, cap) /\ s \in 0 .. cap - 1
        /\ In(tab, cap, "occupied") = In(table, cap, "occupied") \cup {s}
        /\ In(tab, cap, "tombstone") = In(table, cap, "tombstone") \ {s}
    BY <1>3, <1>8, <2>1, Filled
  <2>3. IsFiniteSet(In(table, cap, "occupied")) /\ IsFiniteSet(In(table, cap, "tombstone"))
    BY <1>3, Countable, Zenon
  <2>4. s \notin In(table, cap, "occupied")
    BY <1>8, <2>1, Zenon DEF In
  <2>5. s \in In(table, cap, "tombstone") <=> table[s].state = "tombstone"
    BY <2>2, Zenon DEF In
  <2>6. len' = Cardinality(In(tab, cap, "occupied"))
    BY <1>4, <1>8, <2>2, <2>3, <2>4, FS_AddElement
  <2>7. tombs' = Cardinality(In(tab, cap, "tombstone"))
    <3>1. Cardinality(In(tab, cap, "tombstone"))
            = IF s \in In(table, cap, "tombstone") THEN tombs - 1 ELSE tombs
      BY <1>4, <2>2, <2>3, FS_RemoveElement, Zenon
    <3> QED BY <1>8, <2>1, <2>5, <3>1, Zenon
  <2>8. len' * LOAD_DEN <= cap * LOAD_NUM
    BY <1>3, <1>8, Zenon
  <2> QED BY <1>1, <1>5, <1>6, <2>2, <2>6, <2>7, <2>8, ReturnKept, Zenon
<1> QED BY <1>2, <1>6, <1>7, <1>8, InsertShape, Zenon

(* Lookups leave the table alone. *)
LEMMA GetKept ==
    ASSUME IInv, NEW t \in Threads, get(t)
    PROVE  IInv'
<1>1. pc[t] = "work" /\ UNCHANGED <<table, counters, growth, lock, hash, alive>>
  BY Zenon DEF get
<1>2. /\ TableOK(table, cap) /\ len * LOAD_DEN <= cap * LOAD_NUM
      /\ len = Cardinality(In(table, cap, "occupied"))
      /\ tombs = Cardinality(In(table, cap, "tombstone"))
  BY Zenon DEF IInv, Load, CountersExact, With, In
<1>3. PICK v \in Metas \cup {NoMeta} : Return(t, v)
  <2>1. ASSUME NEW s \in 0 .. cap - 1, Hit(call[t].key, s)
        PROVE  table[s].meta \in Metas
    BY <1>2, <2>1, HitMeansHere, Zenon DEF TableOK, Reached
  <2> QED BY <2>1, Zenon DEF get
<1>4. UNCHANGED <<cap, growth, lock, hash, alive>> /\ table' = table /\ len' = len /\ tombs' = tombs
  BY <1>1, Zenon DEF counters
<1> QED BY <1>1, <1>2, <1>3, <1>4, ReturnKept, Zenon

(* remove: with its key, or without. *)
LEMMA RemoveShape ==
    ASSUME IInv, NEW t \in Threads, remove(t)
    PROVE  /\ \/ \E s \in In(table, cap, "occupied") :
                    /\ table[s].key = call[t].key
                    /\ table' = Bury(table, s)
                    /\ len' = len - 1 /\ tombs' = tombs + 1 /\ Return(t, table[s].meta)
              \/ /\ \A s \in In(table, cap, "occupied") : table[s].key # call[t].key
                 /\ UNCHANGED <<table, len, tombs>> /\ Return(t, NoMeta)
           /\ pc[t] = "work" /\ call[t].key \in Keys
           /\ UNCHANGED <<cap, growth, lock, hash, alive>>
<1>1. pc[t] = "work" /\ UNCHANGED <<cap, growth, lock, hash, alive>>
  BY Zenon DEF remove
<1>2. call[t].key \in Keys /\ TypeOK /\ TableOK(table, cap)
  BY <1>1, CallFacts, Zenon DEF IInv, Owner
<1>3. \A s \in 0 .. cap - 1 : Hit(call[t].key, s) =>
          s \in In(table, cap, "occupied") /\ table[s].key = call[t].key
  BY HitMeansHere, Zenon
<1>4. \A j \in 0 .. cap : Miss(call[t].key, j) =>
          \A s \in In(table, cap, "occupied") : table[s].key # call[t].key
  BY <1>2, MissMeansAbsent, Zenon
<1> QED BY <1>1, <1>2, <1>3, <1>4, Zenon DEF remove, Bury

(* remove. *)
LEMMA RemoveKept ==
    ASSUME IInv, NEW t \in Threads, remove(t)
    PROVE  IInv'
<1>1. pc[t] = "work" /\ UNCHANGED <<cap, growth, lock, hash, alive>>
  BY RemoveShape, Zenon
<1>2. /\ TypeOK /\ TableOK(table, cap) /\ len * LOAD_DEN <= cap * LOAD_NUM
      /\ len = Cardinality(In(table, cap, "occupied"))
      /\ tombs = Cardinality(In(table, cap, "tombstone"))
      /\ cap \in Nat /\ len \in Nat /\ tombs \in Nat
  BY Zenon DEF IInv, Load, CountersExact, With, In, TypeOK
<1>3. ASSUME NEW s \in In(table, cap, "occupied"),
             table' = Bury(table, s),
             len' = len - 1, tombs' = tombs + 1, Return(t, table[s].meta)
      PROVE  IInv'
  <2>1. PICK tab : tab = table'
    BY Zenon
  <2>2. /\ TableOK(tab, cap)
        /\ In(tab, cap, "occupied") = In(table, cap, "occupied") \ {s}
        /\ In(tab, cap, "tombstone") = In(table, cap, "tombstone") \cup {s}
    BY <1>2, <1>3, <2>1, Buried
  <2>3. IsFiniteSet(In(table, cap, "occupied")) /\ IsFiniteSet(In(table, cap, "tombstone"))
    BY <1>2, Countable, Zenon
  <2>4. s \notin In(table, cap, "tombstone")
    BY Zenon DEF In
  <2>5. len' = Cardinality(In(tab, cap, "occupied"))
    BY <1>2, <1>3, <2>2, <2>3, FS_RemoveElement, Zenon
  <2>6. tombs' = Cardinality(In(tab, cap, "tombstone"))
    BY <1>2, <1>3, <2>2, <2>3, <2>4, FS_AddElement, Zenon
  <2>7. len' * LOAD_DEN <= cap * LOAD_NUM
    BY <1>2, <1>3 DEF LOAD_DEN, LOAD_NUM
  <2>8. table[s].meta \in Metas
    BY <1>2, Zenon DEF TableOK, Reached
  <2> QED BY <1>1, <1>3, <2>1, <2>2, <2>5, <2>6, <2>7, <2>8, ReturnKept, Zenon
<1>4. ASSUME UNCHANGED <<table, len, tombs>>, Return(t, NoMeta)
      PROVE  IInv'
  BY <1>1, <1>2, <1>4, ReturnKept, Zenon
<1> QED BY <1>3, <1>4, RemoveShape, Zenon

(* Steps that touch neither table leave grow where it was. *)
LEMMA BuildingKept ==
    ASSUME Building, UNCHANGED <<table, counters, growth, hash>>
    PROVE  Building'
<1>1. table' = table /\ cap' = cap /\ larger' = larger /\ moved' = moved /\ hash' = hash
  BY Zenon DEF counters, growth
<1>2. NewCap' = NewCap
  BY <1>1, Zenon DEF NewCap
<1>3. TableOK(larger, NewCap)'
  BY <1>1, <1>2, LargerNext, Zenon DEF Building
<1>4. Behind' = Behind
  BY <1>1, Zenon DEF Behind, In
<1>5. /\ In(larger, NewCap, "occupied")' = In(larger, NewCap, "occupied")
      /\ In(larger, NewCap, "tombstone")' = In(larger, NewCap, "tombstone")
  BY <1>1, <1>2, Zenon DEF In
<1> QED BY <1>1, <1>3, <1>4, <1>5 DEF Building

(* Calls, the lock and fork leave the table alone. *)
LEMMA ControlKept ==
    ASSUME IInv, NEW t \in Threads,
           Call(t) \/ Acquire(t) \/ Spin(t) \/ Unlock(t) \/ Fork(t)
    PROVE  IInv'
<1>1. UNCHANGED <<table, counters, growth, hash>>
  BY Zenon DEF Call, Acquire, Spin, Unlock, Fork, vars
<1>2. TypeOK
  BY Zenon DEF IInv
<1>3. /\ alive' \in SUBSET Threads /\ lock' \in BOOLEAN
      /\ pc' \in [Threads -> {"idle", "lock", "work", "grow", "insert", "unlock", "abort"}]
      /\ call' \in [Threads -> Calls \cup {NoCall}]
      /\ ret' \in [Threads -> Metas \cup {NoMeta}]
  BY <1>2, ZenonT(30) DEF Call, Acquire, Spin, Unlock, Fork, vars, Goto, TypeOK
<1>4. TypeOK'
  BY <1>1, <1>2, <1>3, Zenon DEF TypeOK, counters, growth, NewCap
<1>5. TableOK(table, cap)' /\ CountersExact'
  BY <1>1, TableNext, Zenon DEF IInv, CountersExact, counters, With
<1>6. \A u \in Threads : /\ pc'[u] = "grow" <=> pc[u] = "grow"
                         /\ pc'[u] = "insert" => pc[u] = "insert"
  BY <1>2, Zenon DEF Call, Acquire, Spin, Unlock, Fork, vars, Goto, TypeOK
<1>7. Load'
  BY <1>1, <1>6, Zenon DEF IInv, Load, counters
<1>8. Growth'
  <2>1. Building => Building'
    BY <1>1, BuildingKept, Zenon
  <2> QED BY <1>1, <1>6, <2>1, Zenon DEF IInv, Growth, growth
<1>9. Owner'
  <2>1. CASE Call(t)
    BY <1>2, <2>1, Zenon DEF IInv, Owner, Call, Goto, TypeOK, Inside
  <2>2. CASE Acquire(t)
    <3>1. pc[t] = "lock" /\ ~lock /\ lock' /\ pc' = [pc EXCEPT ![t] = "work"] /\ call' = call
      BY <2>2, Zenon DEF Acquire, Goto
    <3>2. \A u \in Threads : pc[u] \notin Inside /\ pc[u] # "abort"
      BY <3>1, Zenon DEF IInv, Owner
    <3>3. pc'[t] = "work" /\ \A u \in Threads \ {t} : pc'[u] = pc[u]
      BY <1>2, <3>1, Zenon DEF TypeOK
    <3>4. \A u \in Threads : pc[u] = "lock" => call'[u] \in Calls
      BY <3>1, Zenon DEF IInv, Owner
    <3> QED BY <3>1, <3>2, <3>3, <3>4, Zenon DEF Owner, Inside
  <2>3. CASE Unlock(t)
    <3>1. pc[t] = "unlock" /\ pc' = [pc EXCEPT ![t] = "idle"] /\ call' = call
      BY <2>3, Zenon DEF Unlock, Goto
    <3>2. \A u \in Threads \ {t} : pc[u] \notin Inside /\ pc[u] # "abort"
      BY <3>1, Zenon DEF IInv, Owner, Inside
    <3>3. pc'[t] = "idle" /\ \A u \in Threads \ {t} : pc'[u] = pc[u]
      BY <1>2, <3>1, Zenon DEF TypeOK
    <3>4. \A u \in Threads : pc[u] = "lock" => call'[u] \in Calls
      BY <3>1, Zenon DEF IInv, Owner
    <3> QED BY <3>2, <3>3, <3>4, Zenon DEF Owner, Inside
  <2>4. CASE Spin(t) \/ Fork(t)
    <3>1. pc' = pc /\ call' = call /\ lock' = lock
      BY <2>4, Zenon DEF Spin, Fork, vars
    <3> QED BY <3>1, Zenon DEF IInv, Owner, Inside
  <2> QED BY <2>1, <2>2, <2>3, <2>4, Zenon
<1> QED BY <1>4, <1>5, <1>7, <1>8, <1>9, Zenon DEF IInv

(* The first table has no slots. *)
LEMMA InitInvariant == Init => IInv
<1> SUFFICES ASSUME Init PROVE IInv
  BY Zenon
<1>1. /\ table = alloc_raw(0) /\ cap = 0 /\ len = 0 /\ tombs = 0 /\ larger = alloc_raw(0)
      /\ moved = 0
  BY Zenon DEF Init
<1>2. /\ TableOK(table, cap) /\ table \in [0 .. cap - 1 -> Entries]
      /\ With("occupied") = {} /\ With("tombstone") = {}
  BY <1>1, Fresh, Zenon DEF TableOK, With, In
<1>3. CountersExact
  BY <1>1, <1>2, FS_EmptySet, Zenon DEF CountersExact
<1>4. TypeOK
  <2>1. larger \in [0 .. 0 - 1 -> Entries]
    BY <1>1, <1>2, Zenon
  <2>2. /\ cap \in Nat /\ len \in Nat /\ tombs \in Nat /\ moved \in 0 .. cap
        /\ \E c \in {0, NewCap} : larger \in [0 .. c - 1 -> Entries]
    BY <1>1, <2>1
  <2>3. /\ lock \in BOOLEAN /\ hash \in Hashes /\ alive \subseteq Threads
        /\ pc \in [Threads -> {"idle", "lock", "work", "grow", "insert", "unlock", "abort"}]
        /\ call \in [Threads -> Calls \cup {NoCall}] /\ ret \in [Threads -> Metas \cup {NoMeta}]
    BY Zenon DEF Init
  <2> QED BY <1>2, <2>2, <2>3, Zenon DEF TypeOK
<1>5. Owner /\ Load /\ Growth
  BY <1>1 DEF Init, Owner, Inside, Load, Growth, LOAD_DEN, LOAD_NUM
<1> QED BY <1>2, <1>3, <1>4, <1>5, Zenon DEF IInv

(* The invariant holds in every state. *)
LEMMA Invariance == Spec => []IInv
<1>1. IInv /\ [Next]_vars => IInv'
  <2> SUFFICES ASSUME IInv, [Next]_vars PROVE IInv'
    BY Zenon
  <2>1. CASE UNCHANGED vars
    <3> USE <2>1 DEF vars, counters, growth
    <3>1. TypeOK'
      BY Zenon DEF IInv, TypeOK, NewCap
    <3>2. TableOK(table, cap)' /\ CountersExact'
      BY TableNext, Zenon DEF IInv, CountersExact, With
    <3>3. Owner'
      BY Zenon DEF IInv, Owner
    <3>4. Load'
      BY Zenon DEF IInv, Load
    <3>5. Building => Building'
      BY BuildingKept, Zenon
    <3>6. Growth'
      BY <3>5, Zenon DEF IInv, Growth
    <3> QED BY <3>1, <3>2, <3>3, <3>4, <3>6, Zenon DEF IInv
  <2>2. ASSUME NEW t \in Threads, Call(t) \/ Spin(t) \/ Step(t) \/ Fork(t)
        PROVE  IInv'
    <3>1. CASE Call(t) \/ Acquire(t) \/ Spin(t) \/ Unlock(t) \/ Fork(t)
      BY <3>1, ControlKept, Zenon
    <3>2. CASE Work(t)
      BY <3>2, EnsureKept, MoveKept, SwapKept, InsertKept, GetKept, RemoveKept, Zenon DEF Work
    <3> QED BY <2>2, <3>1, <3>2, Zenon DEF Step
  <2> QED BY <2>1, <2>2, Zenon DEF Next
<1> QED BY <1>1, InitInvariant, PTL DEF Spec

-----------------------------------------------------------------------------
(* The table as a map. *)

KeysOf(tab, c) == {tab[i].key : i \in In(tab, c, "occupied")}

(* Stored, for any table. *)
StoredOf(tab, c) ==
    [k \in KeysOf(tab, c) |->
        tab[CHOOSE i \in In(tab, c, "occupied") : tab[i].key = k].meta]

(* The map has the metadata of every entry. *)
LEMMA StoredAt ==
    ASSUME NEW tab, NEW c, TableOK(tab, c)
    PROVE  /\ DOMAIN StoredOf(tab, c) = KeysOf(tab, c)
           /\ \A i \in In(tab, c, "occupied") : /\ tab[i].key \in KeysOf(tab, c)
                                                /\ StoredOf(tab, c)[tab[i].key] = tab[i].meta
<1>1. DOMAIN StoredOf(tab, c) = KeysOf(tab, c)
  BY Zenon DEF StoredOf
<1>2. ASSUME NEW i \in In(tab, c, "occupied")
      PROVE  tab[i].key \in KeysOf(tab, c) /\ StoredOf(tab, c)[tab[i].key] = tab[i].meta
  <2>1. tab[i].key \in KeysOf(tab, c)
    BY Zenon DEF KeysOf
  <2>2. PICK n : n = CHOOSE q \in In(tab, c, "occupied") : tab[q].key = tab[i].key
    BY Zenon
  <2>3. n \in In(tab, c, "occupied") /\ tab[n].key = tab[i].key
    BY <2>2, Zenon
  <2>4. n = i
    BY <2>3, Zenon DEF TableOK, Single
  <2> QED BY <2>1, <2>2, <2>4, Zenon DEF StoredOf
<1> QED BY <1>1, <1>2, Zenon

(* It is the only such map. *)
LEMMA StoredIs ==
    ASSUME NEW tab, NEW c, NEW f, f = [k \in KeysOf(tab, c) |-> f[k]],
           \A i \in In(tab, c, "occupied") : f[tab[i].key] = tab[i].meta
    PROVE  StoredOf(tab, c) = f
<1>1. ASSUME NEW k \in KeysOf(tab, c)
      PROVE  StoredOf(tab, c)[k] = f[k]
  <2>1. PICK n : n = CHOOSE q \in In(tab, c, "occupied") : tab[q].key = k
    BY Zenon
  <2>2. n \in In(tab, c, "occupied") /\ tab[n].key = k
    BY <2>1, Zenon DEF KeysOf
  <2> QED BY <2>1, <2>2, Zenon DEF StoredOf
<1>2. StoredOf(tab, c) = [k \in KeysOf(tab, c) |-> StoredOf(tab, c)[k]]
  BY DEF StoredOf
<1> QED BY <1>1, <1>2, Zenon

(* The refinement mapping, before and after a step. *)
LEMMA StoredHere == Stored = StoredOf(table, cap) /\ Stored' = StoredOf(table', cap')
BY Zenon DEF Stored, StoredOf, KeysOf, In, With

(* insert stores what the map stores. *)
LEMMA InsertMap ==
    ASSUME IInv, NEW t \in Threads, insert(t)
    PROVE  \E k \in Keys, v \in Metas : Abstract!Insert(t, k, v)
<1>1. pc[t] = "insert"
  BY Zenon DEF insert
<1>2. PICK k \in Keys, v \in Metas : k = call[t].key /\ v = call[t].meta
  BY <1>1, InsertFacts, Zenon
<1>3. /\ TypeOK /\ TableOK(table, cap) /\ cap \in Nat /\ cap' = cap
      /\ ret' = [ret EXCEPT ![t] = NoMeta]
  BY <1>1, <1>2, InsertShape, Zenon DEF IInv, TypeOK, Return
<1>4. PICK tab, old : tab = table' /\ old = StoredOf(table, cap)
  BY Zenon
<1>5. /\ DOMAIN old = KeysOf(table, cap)
      /\ \A i \in In(table, cap, "occupied") :
            table[i].key \in KeysOf(table, cap) /\ old[table[i].key] = table[i].meta
  BY <1>3, <1>4, StoredAt, Zenon
<1> DEFINE f == [j \in DOMAIN old \cup {k} |-> IF j = k THEN v ELSE old[j]]
<1>6. SUFFICES KeysOf(tab, cap) = DOMAIN old \cup {k}
               /\ \A i \in In(tab, cap, "occupied") : f[tab[i].key] = tab[i].meta
  <2>1. f = [j \in KeysOf(tab, cap) |-> f[j]]
    BY <1>6, Zenon
  <2>2. PICK g : g = f
    BY Zenon
  <2>3. StoredOf(tab, cap) = g
    BY <1>6, <2>1, <2>2, StoredIs
  <2>4. Stored = old /\ Stored' = f
    BY <1>3, <1>4, <2>2, <2>3, StoredHere, Zenon
  <2> QED BY <1>3, <2>4, Zenon DEF Abstract!Insert
<1>7. ASSUME NEW s \in In(table, cap, "occupied"), table[s].key = k, tab = Rewrite(table, s, v)
      PROVE  KeysOf(tab, cap) = DOMAIN old \cup {k}
             /\ \A i \in In(tab, cap, "occupied") : f[tab[i].key] = tab[i].meta
  <2>1. /\ In(tab, cap, "occupied") = In(table, cap, "occupied") /\ tab[s].meta = v
        /\ \A i \in 0 .. cap - 1 : tab[i].key = table[i].key
        /\ \A i \in 0 .. cap - 1 \ {s} : tab[i] = table[i]
    BY <1>3, <1>7, Overwritten
  <2>2. \A i \in In(table, cap, "occupied") : i \in 0 .. cap - 1 /\ tab[i].key = table[i].key
    BY <2>1, Zenon DEF In
  <2>3. KeysOf(tab, cap) = KeysOf(table, cap)
    BY <2>1, <2>2, Zenon DEF KeysOf
  <2>4. k \in KeysOf(table, cap)
    BY <1>5, <1>7, Zenon
  <2>5. ASSUME NEW i \in In(tab, cap, "occupied")
        PROVE  f[tab[i].key] = tab[i].meta
    <3>1. CASE i = s
      BY <1>7, <2>1, <2>2, <3>1, Zenon
    <3>2. CASE i # s
      <4>1. table[i].key # k
        BY <1>3, <1>7, <2>1, <3>2, Zenon DEF TableOK, Single
      <4>2. tab[i] = table[i]
        BY <2>1, <2>2, <3>2, Zenon
      <4>3. table[i].key \in DOMAIN old /\ old[table[i].key] = table[i].meta
        BY <1>5, <2>1, Zenon
      <4> QED BY <4>1, <4>2, <4>3, Zenon
    <3> QED BY <3>1, <3>2, Zenon
  <2> QED BY <1>5, <2>3, <2>4, <2>5, Zenon
<1>8. ASSUME NEW j \in 0 .. cap - 1, Free(table, cap, k, j), tab = Put(table, cap, k, j, v)
      PROVE  KeysOf(tab, cap) = DOMAIN old \cup {k}
             /\ \A i \in In(tab, cap, "occupied") : f[tab[i].key] = tab[i].meta
  <2>1. PICK s : s = Slot(k, j, cap)
    BY Zenon
  <2>2. /\ In(tab, cap, "occupied") = In(table, cap, "occupied") \cup {s}
        /\ tab[s] = Entry(k, v) /\ s \in 0 .. cap - 1
    BY <1>3, <1>8, <2>1, Filled
  <2>3. \A i \in 0 .. cap - 1 \ {s} : tab[i] = table[i]
    BY <1>3, <1>8, <2>1, Zenon DEF Put, TableOK
  <2>4. tab[s].key = k /\ tab[s].meta = v
    BY <2>2 DEF Entry
  <2>5. \A i \in In(table, cap, "occupied") : i # s /\ tab[i] = table[i] /\ table[i].key # k
    BY <1>8, <2>1, <2>3, Zenon DEF Free, In
  <2>6. KeysOf(tab, cap) = KeysOf(table, cap) \cup {k}
    BY <2>2, <2>4, <2>5, Zenon DEF KeysOf
  <2>7. ASSUME NEW i \in In(tab, cap, "occupied")
        PROVE  f[tab[i].key] = tab[i].meta
    <3>1. CASE i = s
      BY <2>4, <3>1, Zenon
    <3>2. CASE i \in In(table, cap, "occupied")
      BY <1>5, <2>5, <3>2, Zenon
    <3> QED BY <2>2, <3>1, <3>2, Zenon
  <2> QED BY <1>5, <2>6, <2>7, Zenon
<1> HIDE DEF f
<1> QED BY <1>2, <1>4, <1>7, <1>8, InsertShape, Zenon

(* remove takes out what the map takes out. *)
LEMMA RemoveMap ==
    ASSUME IInv, NEW t \in Threads, remove(t)
    PROVE  \E k \in Keys : Abstract!Remove(t, k)
<1>1. PICK k \in Keys : k = call[t].key
  BY RemoveShape, Zenon
<1>2. TypeOK /\ TableOK(table, cap) /\ cap \in Nat /\ cap' = cap
  BY RemoveShape, Zenon DEF IInv, TypeOK
<1>3. PICK tab, old : tab = table' /\ old = StoredOf(table, cap)
  BY SMTT(20)
<1>4. /\ DOMAIN old = KeysOf(table, cap)
      /\ \A i \in In(table, cap, "occupied") :
            table[i].key \in KeysOf(table, cap) /\ old[table[i].key] = table[i].meta
  BY <1>2, <1>3, StoredAt, Zenon
<1>5. Stored = old /\ Stored' = StoredOf(tab, cap)
  BY <1>2, <1>3, StoredHere, Zenon
<1>6. ASSUME NEW s \in In(table, cap, "occupied"), table[s].key = k, tab = Bury(table, s),
             Return(t, table[s].meta)
      PROVE  Abstract!Remove(t, k)
  <2> DEFINE f == [j \in DOMAIN old \ {k} |-> old[j]]
  <2>1. /\ In(tab, cap, "occupied") = In(table, cap, "occupied") \ {s}
        /\ \A i \in In(tab, cap, "occupied") : tab[i] = table[i]
    BY <1>2, <1>6, Buried
  <2>2. \A i \in In(tab, cap, "occupied") : table[i].key # k
    BY <1>2, <1>6, <2>1, Zenon DEF TableOK, Single
  <2>3. KeysOf(tab, cap) = KeysOf(table, cap) \ {k}
    BY <1>6, <2>1, <2>2 DEF KeysOf
  <2>4. \A i \in In(tab, cap, "occupied") : f[tab[i].key] = tab[i].meta
    BY <1>4, <2>1, <2>2, Zenon
  <2>5. PICK g : g = f
    BY Zenon
  <2>6. g = [j \in KeysOf(tab, cap) |-> g[j]]
    BY <1>4, <2>3, <2>5, Zenon
  <2>7. StoredOf(tab, cap) = g
    BY <2>4, <2>5, <2>6, StoredIs
  <2>8. Abstract!Find(k) = table[s].meta
    BY <1>4, <1>5, <1>6, Zenon DEF Abstract!Find
  <2> QED BY <1>5, <1>6, <2>5, <2>7, <2>8, Zenon DEF Abstract!Remove, Return
<1>7. ASSUME \A s \in In(table, cap, "occupied") : table[s].key # k,
             table' = table, Return(t, NoMeta)
      PROVE  Abstract!Remove(t, k)
  <2>1. k \notin DOMAIN old
    BY <1>4, <1>7, Zenon DEF KeysOf
  <2>2. old = [j \in DOMAIN old |-> old[j]]
    BY <1>3 DEF StoredOf
  <2>3. Stored' = [j \in DOMAIN old \ {k} |-> old[j]]
    BY <1>3, <1>5, <1>7, <2>1, <2>2, Zenon
  <2> QED BY <1>5, <1>7, <2>1, <2>3, Zenon DEF Abstract!Remove, Abstract!Find, Return
<1> QED BY <1>1, <1>3, <1>6, <1>7, RemoveShape, Zenon

(* get returns what the map has. *)
LEMMA GetMap ==
    ASSUME IInv, NEW t \in Threads, get(t)
    PROVE  \E k \in Keys : Abstract!Get(t, k)
<1>1. pc[t] = "work" /\ table' = table /\ cap' = cap
  BY Zenon DEF get, counters
<1>2. PICK k \in Keys : k = call[t].key
  BY <1>1, CallFacts, Zenon DEF IInv, Owner
<1>3. TypeOK /\ TableOK(table, cap)
  BY Zenon DEF IInv
<1>4. /\ DOMAIN Stored = KeysOf(table, cap) /\ Stored' = Stored
      /\ \A i \in In(table, cap, "occupied") :
            table[i].key \in KeysOf(table, cap) /\ Stored[table[i].key] = table[i].meta
  BY <1>1, <1>3, StoredAt, StoredHere, Zenon
<1>5. ASSUME NEW s \in 0 .. cap - 1, Hit(k, s), Return(t, table[s].meta)
      PROVE  Abstract!Get(t, k)
  <2>1. s \in In(table, cap, "occupied") /\ table[s].key = k
    BY <1>5, HitMeansHere, Zenon
  <2> QED BY <1>4, <1>5, <2>1, Zenon DEF Abstract!Get, Abstract!Find, Return
<1>6. ASSUME NEW j \in 0 .. cap, Miss(k, j), Return(t, NoMeta)
      PROVE  Abstract!Get(t, k)
  <2>1. k \notin DOMAIN Stored
    BY <1>3, <1>4, <1>6, MissMeansAbsent, Zenon DEF KeysOf
  <2> QED BY <1>4, <1>6, <2>1, Zenon DEF Abstract!Get, Abstract!Find, Return
<1> QED BY <1>2, <1>5, <1>6, Zenon DEF get

(* A larger table, also one that is being filled, changes no entry. *)
LEMMA GrowMap ==
    ASSUME IInv, NEW t \in Threads, ensure_capacity(t) \/ Move(t) \/ Swap(t)
    PROVE  Stored' = Stored /\ ret' = ret
<1>1. ret' = ret
  BY Zenon DEF ensure_capacity, Move, Swap
<1>2. CASE table' = table /\ cap' = cap
  BY <1>1, <1>2, StoredHere, Zenon
<1>3. ASSUME cap = 0, ensure_capacity(t)
      PROVE  Stored' = Stored
  <2>1. table' = alloc_raw(INITIAL_CAP) /\ cap' = INITIAL_CAP
    BY <1>3, Zenon DEF ensure_capacity
  <2>2. In(table', cap', "occupied") = {} /\ In(table, cap, "occupied") = {}
    BY <1>3, <2>1, Fresh, BigAllocMapAssumption DEF In
  <2>3. KeysOf(table', cap') = {} /\ KeysOf(table, cap) = {}
    BY <2>2, Zenon DEF KeysOf
  <2> QED BY <2>3, StoredHere, Zenon DEF StoredOf
<1>4. ASSUME Swap(t)
      PROVE  Stored' = Stored
  <2>1. pc[t] = "grow" /\ moved = cap /\ table' = larger /\ cap' = NewCap
    BY <1>4, Zenon DEF Swap
  <2>2. Building /\ TableOK(table, cap) /\ TypeOK
    BY <2>1, Zenon DEF IInv, Growth
  <2>3. Behind = In(table, cap, "occupied")
    BY <2>1, <2>2 DEF Behind, In, TypeOK
  <2>4. KeysOf(larger, NewCap) = KeysOf(table, cap)
    <3>1. ASSUME NEW i \in In(table, cap, "occupied")
          PROVE  table[i].key \in KeysOf(larger, NewCap)
      <4>1. PICK j \in In(larger, NewCap, "occupied") : larger[j] = table[i]
        BY <2>2, <2>3, Zenon DEF Building
      <4> QED BY <4>1, Zenon DEF KeysOf
    <3>2. ASSUME NEW j \in In(larger, NewCap, "occupied")
          PROVE  larger[j].key \in KeysOf(table, cap)
      <4>1. PICK i \in In(table, cap, "occupied") : larger[j] = table[i]
        BY <2>2, <2>3, Zenon DEF Building
      <4> QED BY <4>1, Zenon DEF KeysOf
    <3> QED BY <3>1, <3>2, Zenon DEF KeysOf
  <2>5. PICK old : old = StoredOf(table, cap)
    BY Zenon
  <2>6. \A i \in In(table, cap, "occupied") : old[table[i].key] = table[i].meta
    BY <2>2, <2>5, StoredAt, ZenonT(30)
  <2>7. \A j \in In(larger, NewCap, "occupied") : old[larger[j].key] = larger[j].meta
    BY <2>2, <2>3, <2>6 DEF Building
  <2>8. old = [k \in KeysOf(larger, NewCap) |-> old[k]]
    BY <2>4, <2>5 DEF StoredOf
  <2>9. StoredOf(larger, NewCap) = old
    BY <2>7, <2>8, StoredIs
  <2> QED BY <2>1, <2>5, <2>9, StoredHere, Zenon
<1>5. ASSUME ensure_capacity(t), cap # 0
      PROVE  table' = table /\ cap' = cap
  <2>1. UNCHANGED <<table, counters>>
    BY <1>5, Zenon DEF ensure_capacity
  <2> QED BY <2>1, Zenon DEF counters
<1>6. Move(t) => table' = table /\ cap' = cap
  BY Zenon DEF Move, counters
<1> QED BY <1>1, <1>2, <1>3, <1>4, <1>5, <1>6, Zenon

(* Every step is one of the map, or invisible to the callers. *)
LEMMA StepImplements ==
    ASSUME IInv, [Next]_vars
    PROVE  [Abstract!Next]_<<Stored, ret>>
<1>1. ASSUME table' = table, cap' = cap, ret' = ret
      PROVE  UNCHANGED <<Stored, ret>>
  BY <1>1, StoredHere, Zenon
<1>2. CASE UNCHANGED vars
  BY <1>1, <1>2, Zenon DEF vars, counters
<1>3. ASSUME NEW t \in Threads, Call(t) \/ Spin(t) \/ Acquire(t) \/ Unlock(t) \/ Fork(t)
      PROVE  UNCHANGED <<Stored, ret>>
  BY <1>1, <1>3, Zenon DEF Call, Spin, Acquire, Unlock, Fork, vars, counters
<1>4. ASSUME NEW t \in Threads, insert(t) \/ get(t) \/ remove(t)
      PROVE  Abstract!Next
  <2>1. CASE insert(t)
    BY <2>1, InsertMap, Zenon DEF Abstract!Next
  <2>2. CASE get(t)
    BY <2>2, GetMap, Zenon DEF Abstract!Next
  <2>3. CASE remove(t)
    BY <2>3, RemoveMap, Zenon DEF Abstract!Next
  <2> QED BY <1>4, <2>1, <2>2, <2>3, Zenon
<1>5. ASSUME NEW t \in Threads, ensure_capacity(t) \/ Move(t) \/ Swap(t)
      PROVE  UNCHANGED <<Stored, ret>>
  BY <1>5, GrowMap, Zenon
<1> QED BY <1>2, <1>3, <1>4, <1>5, Zenon DEF Next, Step, Work

-----------------------------------------------------------------------------
(* The theorems. *)

(* Tables are arrays of entries, counters are natural numbers, and grow    *)
(* stays within its tables, for every hash function.                       *)
THEOREM TableTyped == Spec => []TypeOK
<1>1. IInv => TypeOK
  BY Zenon DEF IInv
<1> QED BY <1>1, Invariance, PTL

(* len and tombstones are exact, and the "table full" aborts of insert and *)
(* reinsert are never reached, for every hash function.                    *)
THEOREM NeverAborts == Spec => []NeverFull
<1>1. IInv => NeverFull
  BY Zenon DEF IInv, Load, Owner, NeverFull
<1> QED BY <1>1, Invariance, PTL

(* The hash table implements MetaMap, for every hash function and across   *)
(* collisions, tombstones and moves: insert, get and remove, at the step   *)
(* that does their work, do what the map does, and nothing else changes    *)
(* what is stored.                                                         *)
THEOREM TableIsMap == Spec => ImplementsMetaMap
<1>1. Init => Abstract!Init
  <2> SUFFICES ASSUME Init PROVE Abstract!Init
    BY Zenon
  <2>1. cap = 0 /\ ret = [t \in Threads |-> NoMeta]
    BY Zenon DEF Init
  <2>2. KeysOf(table, cap) = {}
    BY <2>1 DEF KeysOf, In
  <2>3. Stored = [k \in {} |-> NoMeta]
    BY <2>2, StoredHere, Zenon DEF StoredOf
  <2> QED BY <2>1, <2>3, Zenon DEF Abstract!Init
<1>2. IInv /\ [Next]_vars => [Abstract!Next]_<<Stored, ret>>
  BY StepImplements, Zenon
<1> QED BY <1>1, <1>2, Invariance, PTL DEF Spec, ImplementsMetaMap, Abstract!Spec
=============================================================================
