------------------------------- MODULE MetaMap -------------------------------
(***************************************************************************)
(* What the table of big allocations promises: it is a map from header     *)
(* addresses to metadata, every operation takes effect at once, and a      *)
(* lookup returns what was stored last.  Module BigAllocMap implements it. *)
(***************************************************************************)
CONSTANTS Threads,  \* the threads of the program
          Keys,     \* header addresses
          Metas,    \* metadata records
          NoMeta    \* Option::None

VARIABLES meta,     \* the entries: a function on the keys present
          ret       \* ret[t]: what thread t's last operation returned

Find(k) == IF k \in DOMAIN meta THEN meta[k] ELSE NoMeta

Init ==
    /\ meta = [k \in {} |-> NoMeta]
    /\ ret = [t \in Threads |-> NoMeta]

Insert(t, k, v) ==
    /\ meta' = [j \in DOMAIN meta \cup {k} |-> IF j = k THEN v ELSE meta[j]]
    /\ ret' = [ret EXCEPT ![t] = NoMeta]

Get(t, k) ==
    /\ ret' = [ret EXCEPT ![t] = Find(k)]
    /\ UNCHANGED meta

Remove(t, k) ==
    /\ meta' = [j \in DOMAIN meta \ {k} |-> meta[j]]
    /\ ret' = [ret EXCEPT ![t] = Find(k)]

Next ==
    \E t \in Threads, k \in Keys :
        \/ \E v \in Metas : Insert(t, k, v)
        \/ Get(t, k)
        \/ Remove(t, k)

Spec == Init /\ [][Next]_<<meta, ret>>
=============================================================================
