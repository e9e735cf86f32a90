---------------------------- MODULE PageAllocator ----------------------------
(***************************************************************************)
(* What a segment of the VA bitmap promises its callers: every page of the *)
(* segment belongs to at most one live allocation.  An allocation is a run *)
(* of pages; it is created from pages nobody owns, extended over pages     *)
(* nobody owns, shrunk, handed from one thread of the program to another,  *)
(* and freed.  Nothing is said of how the pages are found: that is module  *)
(* Segment, which implements this one.                                     *)
(***************************************************************************)
EXTENDS Integers

CONSTANTS Threads,   \* the threads of the program
          TotalBits  \* pages in the segment

VARIABLE held        \* held[t]: the runs of pages thread t owns

Runs == [start : 0 .. TotalBits - 1, count : 1 .. TotalBits]

Pages(r) == r.start .. (r.start + r.count - 1)

Owned == {b \in 0 .. TotalBits - 1 :
             \E t \in Threads : \E r \in held[t] : b \in Pages(r)}

Init == held = [t \in Threads |-> {}]

Alloc(t, r) ==
    /\ Pages(r) \subseteq (0 .. TotalBits - 1) \ Owned
    /\ held' = [held EXCEPT ![t] = @ \cup {r}]

Free(t, r) == held' = [held EXCEPT ![t] = @ \ {r}]

(* In-place growth takes only pages that nobody owns. *)
Extend(t, r, n) ==
    /\ n > r.count
    /\ (r.start + r.count) .. (r.start + n - 1)
           \subseteq (0 .. TotalBits - 1) \ Owned
    /\ held' = [held EXCEPT ![t] = (@ \ {r}) \cup {[r EXCEPT !.count = n]}]

Shrink(t, r, n) ==
    /\ n < r.count
    /\ held' = [held EXCEPT ![t] = (@ \ {r}) \cup {[r EXCEPT !.count = n]}]

Hand(t, u, r) ==
    /\ t # u
    /\ held' = [held EXCEPT ![t] = @ \ {r}, ![u] = @ \cup {r}]

Next ==
    \E t \in Threads :
        \/ \E r \in Runs : Alloc(t, r)
        \/ \E r \in held[t] :
              \/ Free(t, r)
              \/ \E n \in 1 .. TotalBits : Extend(t, r, n) \/ Shrink(t, r, n)
              \/ \E u \in Threads : Hand(t, u, r)

Spec == Init /\ [][Next]_held
=============================================================================
