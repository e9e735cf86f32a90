---------------------------- MODULE SegmentProofs ----------------------------
(***************************************************************************)
(* Proofs about one segment of the VA bitmap, for any number of threads,   *)
(* any word size and any number of pages.  However the threads interleave, *)
(* indices stay in the segment and claims exclude each other; under        *)
(* TimelySpec the pages of the callers are disjoint, the bitmap is what    *)
(* they and the calls in progress hold, and the segment implements         *)
(* PageAllocator.                                                          *)
(***************************************************************************)
EXTENDS Segment, WellFoundedInduction, TLAPS

-----------------------------------------------------------------------------
(* Arithmetic and sets. *)

(* A remainder lies below the divisor. *)
LEMMA ModRange ==
    ASSUME NEW a \in Nat, NEW b \in Nat \ {0}
    PROVE  a % b \in 0 .. b - 1 /\ a % b <= a
OBVIOUS

(* A quotient is a natural number. *)
LEMMA DivNat ==
    ASSUME NEW a \in Nat, NEW b \in Nat \ {0}
    PROVE  a \div b \in Nat
OBVIOUS

(* A product of natural numbers is one. *)
LEMMA MulNat ==
    ASSUME NEW a \in Nat, NEW b \in Nat
    PROVE  a * b \in Nat
OBVIOUS

(* The place of a bit in its word. *)
LEMMA ShiftRange ==
    ASSUME NEW b \in Nat
    PROVE  Shift(b) \in 0 .. WordBits - 1 /\ Shift(b) <= b
BY SegmentAssumption, ModRange, Zenon DEF Shift

(* A segment has at least one word. *)
LEMMA ChunksNat == Chunks \in Nat \ {0}
BY SegmentAssumption, DivNat DEF Chunks

(* trailing_zeros of a word with a free page finds one of them. *)
LEMMA MinIn ==
    ASSUME NEW S, S \subseteq Nat, S # {}
    PROVE  Min(S) \in S
<1> DEFINE R == {ss \in Nat \X Nat : ss[1] < ss[2]}
<1>1. R = OpToRel(<, Nat)
  BY Zenon DEF OpToRel
<1>2. IsWellFoundedOn(R, Nat)
  BY <1>1, NatLessThanWellFounded, Zenon
<1>3. \A x, y \in Nat : y < x => <<y, x>> \in R
  BY Zenon
<1> HIDE DEF R
<1>4. PICK x \in S : \A y \in S : ~ (<<y, x>> \in R)
  BY <1>2, WFMin, Zenon
<1>5. \A y \in S : ~ (y < x)
  BY <1>3, <1>4, Zenon
<1>6. \A y \in S : x <= y
  BY <1>5
<1> QED BY <1>6, Zenon DEF Min

-----------------------------------------------------------------------------
(* The pieces into which try_claim cuts a run. *)

Scans == [first : Nat, pass : 1 .. 3, bit : Nat, run : Nat, from : Nat,
          ext : Nat, chunk : SUBSET Nat]

Claims == [start : Nat, count : Nat, done : Nat, val : SUBSET Bits]

(* An idle thread's scan has the type of a scan. *)
LEMMA NoScanType == NoScan \in Scans
BY DEF NoScan, Scans

(* The updates of a scan state that the searches make. *)
LEMMA ScanUpdates ==
    ASSUME NEW s \in Scans, NEW a \in Nat, NEW b \in Nat
    PROVE  /\ [s EXCEPT !.bit = a] \in Scans
           /\ [s EXCEPT !.run = a, !.from = b] \in Scans
           /\ [s EXCEPT !.run = a, !.bit = b] \in Scans
           /\ [s EXCEPT !.ext = a, !.bit = b] \in Scans
           /\ [s EXCEPT !.pass = 2, !.bit = a, !.run = b] \in Scans
           /\ [s EXCEPT !.pass = 3] \in Scans
<1>1. [s EXCEPT !.bit = a] \in Scans
  BY Zenon DEF Scans
<1>2. [s EXCEPT !.run = a] \in Scans /\ [s EXCEPT !.ext = a] \in Scans
  BY Zenon DEF Scans
<1>3. [s EXCEPT !.run = a, !.from = b] \in Scans
  <2>1. \A q \in Scans : [q EXCEPT !.from = b] \in Scans
    BY Zenon DEF Scans
  <2> QED BY <1>2, <2>1, Zenon
<1>4. \A q \in Scans : [q EXCEPT !.bit = b] \in Scans
  BY Zenon DEF Scans
<1>5. [s EXCEPT !.run = a, !.bit = b] \in Scans
  BY <1>2, <1>4, Zenon
<1>6. [s EXCEPT !.ext = a, !.bit = b] \in Scans
  BY <1>2, <1>4, Zenon
<1>7. [s EXCEPT !.pass = 2] \in Scans /\ [s EXCEPT !.pass = 3] \in Scans
  BY DEF Scans
<1>8. [s EXCEPT !.pass = 2, !.bit = a, !.run = b] \in Scans
  <2>1. \A q \in Scans : [q EXCEPT !.bit = a] \in Scans
    BY Zenon DEF Scans
  <2>2. \A q \in Scans : [q EXCEPT !.run = b] \in Scans
    BY Zenon DEF Scans
  <2> QED BY <1>7, <2>1, <2>2, Zenon
<1> QED BY <1>1, <1>3, <1>5, <1>6, <1>7, <1>8, Zenon

(* The updates of a claim that try_claim and the rollbacks make. *)
LEMMA ClaimUpdates ==
    ASSUME NEW c \in Claims, NEW a \in Nat, NEW b \in Nat, NEW v \in SUBSET Bits
    PROVE  /\ [c EXCEPT !.done = a] \in Claims
           /\ [c EXCEPT !.val = v] \in Claims
           /\ [c EXCEPT !.done = a, !.val = v] \in Claims
           /\ [c EXCEPT !.count = a, !.done = b, !.val = v] \in Claims
<1>1. \A q \in Claims : [q EXCEPT !.val = v] \in Claims
  BY Zenon DEF Claims
<1>2. [c EXCEPT !.done = a] \in Claims /\ [c EXCEPT !.count = a] \in Claims
  BY Zenon DEF Claims
<1>3. \A q \in Claims : [q EXCEPT !.done = b] \in Claims
  BY Zenon DEF Claims
<1> QED BY <1>1, <1>2, <1>3, Zenon

(* A piece is not empty, lies within the run and within one word.          *)
LEMMA PieceFacts ==
    ASSUME NEW c \in Claims, c.done < c.count
    PROVE  /\ PieceLen(c) \in 1 .. c.count - c.done
           /\ Mask(c) \subseteq WordAt(c.start + c.done)
           /\ Mask(c) \subseteq (c.start + c.done) .. (c.start + c.count - 1)
<1>1. Shift(c.start + c.done) \in 0 .. WordBits - 1
  BY ShiftRange DEF Claims
<1> QED BY <1>1, SegmentAssumption DEF Claims, PieceLen, Mask, WordAt

(* The words of a segment are sets of natural numbers. *)
LEMMA WordNat == ASSUME NEW b \in Nat PROVE WordAt(b) \subseteq Nat
BY ShiftRange, SegmentAssumption DEF WordAt

(* The first bit of the word a search looks at is a natural number. *)
LEMMA WordStartNat ==
    ASSUME NEW s, s.first \in Nat, s.bit \in Nat
    PROVE  WordStart(s) \in Nat
<1> DEFINE k == s.first + s.bit
<1>1. k \in Nat
  OBVIOUS
<1> HIDE DEF k
<1>2. k % Chunks \in Nat
  BY <1>1, ChunksNat, ModRange
<1> QED BY <1>2, MulNat, SegmentAssumption, Zenon DEF WordStart, k

(* The last bit of a word. *)
LEMMA MaxOfWord == ASSUME NEW b \in Nat PROVE Max(WordAt(b)) \in WordAt(b)
<1> DEFINE a == b - Shift(b)
<1>1. a \in Nat /\ WordAt(b) = a .. (a + WordBits - 1)
  BY ShiftRange, SegmentAssumption DEF WordAt
<1>2. a + WordBits - 1 \in WordAt(b) /\ \A y \in WordAt(b) : a + WordBits - 1 >= y
  BY <1>1, SegmentAssumption
<1> QED BY <1>2, Zenon DEF Max

-----------------------------------------------------------------------------
(* The inductive invariant.  TypeOK alone is not inductive: that a claim   *)
(* stays within the segment depends on how the search computed it, and     *)
(* that a compare-exchange takes only unclaimed pages depends on the value *)
(* the thread compared with.                                               *)

ClaimPCs == {"load", "check", "cas", "publish", "release", "rollback"}

(* Every thread in try_claim, rollback_claim or rollback works on a part   *)
(* of the segment that it has not finished.                                *)
RunOK(t) ==
    pc[t] \in ClaimPCs \cup {"clear"} =>
        /\ clm[t].done < clm[t].count
        /\ clm[t].start + clm[t].count <= TotalBits

(* A thread about to exchange expects its own pages to be unclaimed. *)
CasOK(t) == pc[t] = "cas" => clm[t].val \cap Mask(clm[t]) = {}

(* alloc_single takes the bits beyond the segment for used. *)
SingleOK(t) ==
    /\ pc[t] \in {"single", "pick"} => req[t].op = "single"
    /\ req[t].op = "single" /\ pc[t] # "single" =>
           WordAt(WordStart(scan[t])) \ Bits \subseteq scan[t].chunk

(* alloc_multi: the current run ends at the current bit, within the range  *)
(* of the pass, and is too short; the run carried over ends at its         *)
(* extension.                                                              *)
MultiOK(t) ==
    LET s == scan[t]
    IN  /\ pc[t] \in {"multi", "carry"} => req[t].op = "multi"
        /\ pc[t] = "multi" => s.pass # 3
        /\ req[t].op = "multi" =>
               /\ req[t].count \in 2 .. TotalBits
               /\ s.first < TotalBits
        /\ req[t].op = "multi" /\ pc[t] # "carry" /\ s.pass # 3 =>
               /\ s.run < req[t].count /\ s.ext = 0
               /\ s.run = 0 \/ (s.from + s.run = s.bit /\ s.bit <= RangeEnd(s))
        /\ pc[t] = "carry" =>
               /\ s.from + s.run + s.ext = s.bit
               /\ s.bit <= TotalBits

(* realloc_inplace grows a run its thread owns, within the segment. *)
GrowOK(t) ==
    /\ pc[t] = "idle" => req[t].op = "none"
    /\ req[t].op = "grow" =>
           /\ req[t].run \in held[t]
           /\ req[t].run.start + req[t].count <= TotalBits
           /\ req[t].count > 0

HeldOK == \A t \in Threads : \A r \in held[t] : r.start + r.count <= TotalBits

Local(t) == RunOK(t) /\ CasOK(t) /\ SingleOK(t) /\ MultiOK(t) /\ GrowOK(t)

IInv == TypeOK /\ HeldOK /\ \A t \in Threads : Local(t)

(* A thread that a step leaves alone keeps its part of the invariant. *)
LEMMA Frame ==
    ASSUME NEW u \in Threads, Local(u),
           pc'[u] = pc[u], req'[u] = req[u], scan'[u] = scan[u],
           clm'[u] = clm[u], held[u] \subseteq held'[u]
    PROVE  Local(u)'
BY ZenonT(30) DEF Local, RunOK, CasOK, SingleOK, MultiOK, GrowOK, RangeEnd, WordStart

(* The invariant holds before any call. *)
LEMMA InitIInv == Init => IInv
<1> SUFFICES ASSUME Init PROVE IInv
  BY Zenon
<1>1. TypeOK
  BY SegmentAssumption, ChunksNat
     DEF Init, TypeOK, NoRun, NoScan, NoClaim, PCs, Ops, Bits
<1>2. HeldOK
  BY Zenon DEF Init, HeldOK
<1>3. ASSUME NEW t \in Threads PROVE Local(t)
  BY <1>1, Zenon DEF Init, Local, RunOK, CasOK, SingleOK, MultiOK, GrowOK, ClaimPCs
<1> QED BY <1>1, <1>2, <1>3, Zenon DEF IInv

-----------------------------------------------------------------------------
(* One lemma per action: it preserves the invariant. *)

(* alloc_single starts at a word of the segment, near the hint. *)
LEMMA AllocSingleIInv ==
    ASSUME IInv, NEW t \in Threads, AllocSingle(t)
    PROVE  IInv'
<1> USE DEF IInv
<1>1. PICK r \in 0 .. RandomBlocks - 1 :
        scan' = [scan EXCEPT ![t] = [NoScan EXCEPT
                    !.first = ((hint * WordBits + r) \div WordBits) % Chunks]]
  BY Zenon DEF AllocSingle
<1> DEFINE f == ((hint * WordBits + r) \div WordBits) % Chunks
<1>2. f \in Nat
  <2>0. hint * WordBits \in Nat
    BY MulNat, SegmentAssumption, Zenon DEF TypeOK
  <2>1. hint * WordBits + r \in Nat
    BY <2>0, SegmentAssumption
  <2>2. (hint * WordBits + r) \div WordBits \in Nat
    BY <2>1, DivNat, SegmentAssumption, Zenon
  <2> QED BY <2>2, ModRange, ChunksNat
<1> HIDE DEF f
<1>3. scan' = [scan EXCEPT ![t] = [NoScan EXCEPT !.first = f]]
  BY <1>1, Zenon DEF f
<1>4. TypeOK'
  <2>1. [NoScan EXCEPT !.first = f] \in Scans
    BY <1>2 DEF NoScan, Scans
  <2> QED BY <2>1, <1>3, Zenon DEF AllocSingle, TypeOK, Call, NoRun, PCs, Ops, Scans
<1>5. HeldOK'
  BY Zenon DEF AllocSingle, HeldOK
<1>6. Local(t)'
  BY Zenon DEF AllocSingle, Call, TypeOK, Local, RunOK, CasOK, SingleOK, MultiOK,
         GrowOK, ClaimPCs
<1>7. ASSUME NEW u \in Threads, u # t PROVE Local(u)'
  BY <1>3, <1>7, Frame, Zenon DEF AllocSingle, Call, TypeOK
<1> QED BY <1>4, <1>5, <1>6, <1>7, Zenon

(* alloc_multi starts at a page of the segment. *)
LEMMA AllocMultiIInv ==
    ASSUME IInv, NEW t \in Threads, NEW n \in 2 .. MaxCount, AllocMulti(t, n)
    PROVE  IInv'
<1> USE DEF IInv
<1>1. PICK r \in 0 .. RandomBlocks - 1 :
        LET s == (hint * WordBits + r) % TotalBits
        IN  scan' = [scan EXCEPT ![t] = [NoScan EXCEPT !.first = s, !.bit = s]]
  BY Zenon DEF AllocMulti
<1> DEFINE f == (hint * WordBits + r) % TotalBits
<1>2. f \in Bits
  <2>0. hint * WordBits \in Nat
    BY MulNat, SegmentAssumption, Zenon DEF TypeOK
  <2>1. hint * WordBits + r \in Nat
    BY <2>0, SegmentAssumption
  <2> QED BY <2>1, ModRange, SegmentAssumption, Zenon DEF Bits
<1> HIDE DEF f
<1>3. scan' = [scan EXCEPT ![t] = [NoScan EXCEPT !.first = f, !.bit = f]]
  BY <1>1, Zenon DEF f
<1>4. TypeOK'
  <2>1. [NoScan EXCEPT !.first = f, !.bit = f] \in Scans
    <3>1. f \in Nat
      BY <1>2, SegmentAssumption DEF Bits
    <3> QED BY <3>1, NoScanType, Zenon DEF Scans
  <2>2. /\ pc' = [pc EXCEPT ![t] = "multi"]
        /\ req' = [req EXCEPT ![t] = [op |-> "multi", count |-> n, run |-> NoRun]]
        /\ UNCHANGED <<map, claim, hint, held, clm>>
    BY Zenon DEF AllocMulti, Call
  <2>3. n \in Nat
    BY SegmentAssumption
  <2> QED BY <2>1, <2>2, <2>3, <1>3, Zenon DEF TypeOK, NoRun, PCs, Ops, Scans
<1>5. HeldOK'
  BY Zenon DEF AllocMulti, HeldOK
<1>6. Local(t)'
  <2>1. pc'[t] = "multi" /\ req'[t].op = "multi" /\ req'[t].count = n
    BY Zenon DEF AllocMulti, Call, TypeOK
  <2>2. scan'[t] = [NoScan EXCEPT !.first = f, !.bit = f]
    BY <1>3, Zenon DEF TypeOK
  <2>3. /\ scan'[t].first = f /\ scan'[t].run = 0 /\ scan'[t].pass = 1
        /\ scan'[t].ext = 0
    BY <2>2, Zenon DEF NoScan
  <2> QED BY <2>1, <2>3, <1>2, SegmentAssumption
          DEF AllocMulti, Local, RunOK, CasOK, SingleOK, MultiOK, GrowOK,
              ClaimPCs, Bits
<1>7. ASSUME NEW u \in Threads, u # t PROVE Local(u)'
  BY <1>3, <1>7, Frame, Zenon DEF AllocMulti, Call, TypeOK
<1> QED BY <1>4, <1>5, <1>6, <1>7, Zenon

(* free clears a run that its caller owned, all within the segment. *)
LEMMA FreeIInv ==
    ASSUME IInv, NEW t \in Threads, NEW r \in held[t], Free(t, r)
    PROVE  IInv'
<1> USE DEF IInv
<1>1. r \in Runs /\ r.start + r.count <= TotalBits
  BY Zenon DEF TypeOK, HeldOK
<1>2. TypeOK'
  BY <1>1 DEF Free, TypeOK, Call, NoRun, PCs, Ops, Runs, Bits
<1>3. HeldOK'
  BY Zenon DEF Free, HeldOK, TypeOK
<1>4. Local(t)'
  BY <1>1 DEF Free, Call, TypeOK, Local, RunOK, CasOK, SingleOK, MultiOK,
              GrowOK, ClaimPCs, Runs
<1>5. ASSUME NEW u \in Threads, u # t PROVE Local(u)'
  BY <1>5, Frame, Zenon DEF Free, Call, TypeOK
<1> QED BY <1>2, <1>3, <1>4, <1>5, Zenon

(* A shrinking realloc_inplace keeps the front of the run. *)
LEMMA ShrinkIInv ==
    ASSUME IInv, NEW t \in Threads, NEW r \in held[t],
           NEW n \in 1 .. MaxCount, Shrink(t, r, n)
    PROVE  IInv'
<1> USE DEF IInv
<1>1. r \in Runs /\ r.start + r.count <= TotalBits
  BY Zenon DEF TypeOK, HeldOK
<1>2. [r EXCEPT !.count = n] \in Runs /\ r.start + n <= TotalBits
  BY <1>1, SegmentAssumption DEF Shrink, Runs, Bits
<1>3. TypeOK'
  BY <1>1, <1>2 DEF Shrink, TypeOK, Call, NoRun, PCs, Ops, Runs, Bits
<1>4. HeldOK'
  BY <1>1, <1>2, Zenon DEF Shrink, HeldOK, TypeOK, Runs
<1>5. Local(t)'
  <2>1. /\ pc'[t] = "clear" /\ req'[t].op = "shrink"
        /\ clm'[t] = [start |-> r.start + n, count |-> r.count - n,
                      done |-> 0, val |-> {}]
    BY Zenon DEF Shrink, Call, TypeOK
  <2> QED BY <2>1, <1>1, SegmentAssumption
          DEF Shrink, Local, RunOK, CasOK, SingleOK, MultiOK, GrowOK, ClaimPCs,
              Runs, Bits
<1>6. ASSUME NEW u \in Threads, u # t PROVE Local(u)'
  BY <1>6, Frame, ZenonT(30) DEF Shrink, Call, TypeOK
<1> QED BY <1>3, <1>4, <1>5, <1>6, Zenon

(* A growing realloc_inplace claims pages behind the run, within the segment. *)
LEMMA GrowIInv ==
    ASSUME IInv, NEW t \in Threads, NEW r \in held[t],
           NEW n \in 1 .. MaxCount, Grow(t, r, n)
    PROVE  IInv'
<1> USE DEF IInv
<1>1. r \in Runs /\ r.start + r.count <= TotalBits
  BY Zenon DEF TypeOK, HeldOK
<1>2. TypeOK'
  BY <1>1 DEF Grow, StartClaim, TypeOK, Call, PCs, Ops, Runs, Bits
<1>3. HeldOK'
  BY Zenon DEF Grow, HeldOK
<1>4. Local(t)'
  BY <1>1 DEF Grow, StartClaim, Call, TypeOK, Local, RunOK, CasOK, SingleOK,
              MultiOK, GrowOK, ClaimPCs, Runs, Bits
<1>5. ASSUME NEW u \in Threads, u # t PROVE Local(u)'
  BY <1>5, Frame, Zenon DEF Grow, StartClaim, Call, TypeOK
<1> QED BY <1>2, <1>3, <1>4, <1>5, Zenon

(* A run passed to another thread of the program stays what it was. *)
LEMMA HandIInv ==
    ASSUME IInv, NEW t \in Threads, NEW u \in Threads, NEW r \in held[t],
           Hand(t, u, r)
    PROVE  IInv'
<1> USE DEF IInv
<1>1. TypeOK'
  BY Zenon DEF Hand, TypeOK
<1>2. HeldOK'
  BY Zenon DEF Hand, HeldOK, TypeOK
<1>3. Local(t)'
  BY Zenon DEF Hand, TypeOK, Local, RunOK, CasOK, SingleOK, MultiOK, GrowOK,
         ClaimPCs
<1>4. ASSUME NEW w \in Threads, w # t PROVE Local(w)'
  BY <1>4, Frame, Zenon DEF Hand, TypeOK
<1> QED BY <1>1, <1>2, <1>3, <1>4, Zenon

-----------------------------------------------------------------------------
(* What the shared parts of several actions do to the locals. *)

LocalTypes ==
    /\ pc \in [Threads -> PCs]
    /\ req \in [Threads -> [op : Ops, count : Nat, run : [start : Nat, count : Nat]]]
    /\ scan \in [Threads -> Scans]
    /\ clm \in [Threads -> Claims]

(* A step moves the locals of thread t only. *)
Others(t) ==
    \A u \in Threads \ {t} : /\ pc'[u] = pc[u] /\ req'[u] = req[u]
                             /\ scan'[u] = scan[u] /\ clm'[u] = clm[u]

(* The type invariant, in the parts the lemmas below use. *)
LEMMA TypeSplit ==
    TypeOK <=> /\ LocalTypes
               /\ map \subseteq Bits /\ claim \subseteq Bits /\ hint \in Nat
               /\ held \in [Threads -> SUBSET Runs]
BY Zenon DEF TypeOK, LocalTypes, Scans, Claims

(* A call that returns leaves its thread idle. *)
LEMMA ReturnFacts ==
    ASSUME LocalTypes, NEW t \in Threads, Return(t)
    PROVE  LocalTypes' /\ Others(t) /\ Local(t)'
<1>1. LocalTypes'
  BY NoScanType, Zenon DEF LocalTypes, Return, NoRun, NoClaim, PCs, Ops, Claims
<1>2. Others(t)
  BY Zenon DEF LocalTypes, Return, Others
<1>3. pc'[t] = "idle" /\ req'[t].op = "none"
  BY Zenon DEF LocalTypes, Return
<1> QED BY <1>1, <1>2, <1>3, Zenon DEF Local, RunOK, CasOK, SingleOK, MultiOK, GrowOK,
                                ClaimPCs

(* try_claim starts at the first page of a run within the segment. *)
LEMMA StartClaimFacts ==
    ASSUME LocalTypes, NEW t \in Threads, NEW a \in Nat, NEW n \in Nat \ {0},
           a + n <= TotalBits, StartClaim(t, a, n)
    PROVE  /\ pc' = [pc EXCEPT ![t] = "load"]
           /\ pc' \in [Threads -> PCs]
           /\ clm' \in [Threads -> Claims]
           /\ \A u \in Threads \ {t} : clm'[u] = clm[u]
           /\ RunOK(t)' /\ CasOK(t)'
<1>1. clm'[t] = [start |-> a, count |-> n, done |-> 0, val |-> {}]
  BY Zenon DEF LocalTypes, StartClaim
<1>2. pc'[t] = "load"
  BY Zenon DEF LocalTypes, StartClaim
<1>3. RunOK(t)' /\ CasOK(t)'
  BY <1>1, <1>2 DEF RunOK, CasOK
<1> QED BY <1>3, Zenon DEF LocalTypes, StartClaim, PCs, Claims

(* A step that leaves the ownership alone preserves the invariant if the   *)
(* bitmaps stay within the segment and the locals it changes are sound.    *)
LEMMA SharedStep ==
    ASSUME IInv, NEW t \in Threads, LocalTypes', Others(t), Local(t)',
           map' \subseteq Bits, claim' \subseteq Bits, hint' \in Nat,
           held' = held
    PROVE  IInv'
<1>1. TypeOK'
  BY TypeSplit, Zenon DEF IInv, TypeOK, LocalTypes, Scans, Claims
<1>2. HeldOK'
  BY Zenon DEF IInv, HeldOK
<1>3. ASSUME NEW u \in Threads, u # t PROVE Local(u)'
  BY <1>3, Frame, Zenon DEF IInv, Others
<1> QED BY <1>1, <1>2, <1>3, Zenon DEF IInv

(* A step that leaves the bitmaps and the ownership alone preserves the    *)
(* invariant if the locals it changes are sound.                           *)
LEMMA QuietStep ==
    ASSUME IInv, NEW t \in Threads, LocalTypes', Others(t), Local(t)',
           UNCHANGED <<map, claim, hint, held>>
    PROVE  IInv'
BY SharedStep, Zenon DEF IInv, TypeOK

(* After a failed attempt the search goes on, or the call returns. *)
LEMMA ClaimFailedFacts ==
    ASSUME LocalTypes, NEW t \in Threads, Local(t), pc[t] \in ClaimPCs,
           ClaimFailed(t), held' = held
    PROVE  LocalTypes' /\ Others(t) /\ Local(t)'
<1>1. CASE /\ req[t].op = "single"
           /\ pc' = [pc EXCEPT ![t] = "pick"]
           /\ clm' = [clm EXCEPT ![t] = NoClaim]
           /\ UNCHANGED <<req, scan>>
  <2>1. LocalTypes' /\ Others(t)
    BY <1>1, Zenon DEF LocalTypes, Others, NoClaim, Claims, PCs
  <2>2. Local(t)'
    BY <1>1, Zenon DEF Local, LocalTypes, RunOK, CasOK, SingleOK, MultiOK, GrowOK,
                ClaimPCs, WordStart
  <2> QED BY <2>1, <2>2, Zenon
<1>2. CASE /\ req[t].op = "multi"
           /\ scan[t].pass < 3
           /\ pc' = [pc EXCEPT ![t] = "multi"]
           /\ clm' = [clm EXCEPT ![t] = NoClaim]
           /\ UNCHANGED <<req, scan>>
  <2>1. LocalTypes' /\ Others(t)
    BY <1>2, Zenon DEF LocalTypes, Others, NoClaim, Claims, PCs
  <2>2. Local(t)'
    BY <1>2 DEF Local, LocalTypes, RunOK, CasOK, SingleOK, MultiOK, GrowOK,
                ClaimPCs, RangeEnd, Scans
  <2> QED BY <2>1, <2>2, Zenon
<1>3. CASE Return(t)
  BY <1>3, ReturnFacts, Zenon
<1> QED BY <1>1, <1>2, <1>3, Zenon DEF ClaimFailed

-----------------------------------------------------------------------------
(* The searches. *)

(* alloc_single loads a word, or returns None after the last one. *)
LEMMA LoadWordIInv ==
    ASSUME IInv, NEW t \in Threads, LoadWord(t)
    PROVE  IInv'
<1> DEFINE w == WordAt(WordStart(scan[t]))
           ch == (map \cap w) \cup (w \ Bits)
<1>1. w \subseteq Nat /\ ch \subseteq Nat
  BY WordStartNat, WordNat, Zenon DEF IInv, TypeOK
<1>2. scan' = [scan EXCEPT ![t].chunk = ch] /\ pc' = [pc EXCEPT ![t] = "pick"]
  BY Zenon DEF LoadWord
<1>3. w \ Bits \subseteq ch
  BY Zenon
<1> HIDE DEF ch
<1>4. LocalTypes' /\ Others(t)
  <2>1. LocalTypes
    BY TypeSplit, Zenon DEF IInv
  <2>2. scan' \in [Threads -> Scans]
    BY <1>1, <1>2, <2>1, ZenonT(30) DEF LocalTypes, Scans
  <2>3. Others(t)
    BY <1>2, <2>1, Zenon DEF LocalTypes, LoadWord, Others
  <2> QED BY <1>2, <2>1, <2>2, <2>3, Zenon DEF LocalTypes, LoadWord, PCs
<1>5. Local(t)'
  <2>1. /\ pc[t] = "single" /\ pc'[t] = "pick" /\ req'[t] = req[t]
        /\ scan'[t].chunk = ch
        /\ scan'[t].first = scan[t].first /\ scan'[t].bit = scan[t].bit
    BY <1>2 DEF LoadWord, IInv, TypeOK
  <2>2. SingleOK(t)'
    BY <2>1, <1>3, Zenon DEF IInv, Local, SingleOK, WordStart
  <2> QED BY <2>1, <2>2, Zenon DEF IInv, Local, RunOK, CasOK, SingleOK, MultiOK, GrowOK,
                            ClaimPCs
<1> QED BY <1>4, <1>5, QuietStep, Zenon DEF LoadWord

(* alloc_single picks a page of the segment, never a bit beyond it. *)
LEMMA PickBitIInv ==
    ASSUME IInv, NEW t \in Threads, PickBit(t)
    PROVE  IInv'
<1> DEFINE free == WordAt(WordStart(scan[t])) \ scan[t].chunk
<1>0. LocalTypes /\ Local(t) /\ pc[t] = "pick" /\ req[t].op = "single"
  BY TypeSplit, Zenon DEF IInv, PickBit, Local, SingleOK
<1>1. CASE /\ free # {}
           /\ StartClaim(t, Min(free), 1)
           /\ scan' = [scan EXCEPT ![t].chunk = @ \cup {Min(free)}]
           /\ UNCHANGED req
  <2>1. free \subseteq Nat /\ free \subseteq Bits
    BY <1>0, WordStartNat, WordNat, Zenon DEF LocalTypes, Scans, Local, SingleOK
  <2>2. Min(free) \in Bits
    BY <1>1, <2>1, MinIn, Zenon
  <2> DEFINE m == Min(free)
  <2> HIDE DEF m
  <2>3. m \in Nat /\ m + 1 <= TotalBits
    BY <2>2, SegmentAssumption DEF Bits, m
  <2>4. /\ pc' = [pc EXCEPT ![t] = "load"]
        /\ pc' \in [Threads -> PCs]
        /\ clm' \in [Threads -> Claims]
        /\ \A u \in Threads \ {t} : clm'[u] = clm[u]
        /\ RunOK(t)' /\ CasOK(t)'
    BY <1>0, <1>1, <2>3, StartClaimFacts DEF m
  <2>5. scan' = [scan EXCEPT ![t].chunk = @ \cup {m}]
    BY <1>1, Zenon DEF m
  <2>6. LocalTypes' /\ Others(t)
    <3>1. scan' \in [Threads -> Scans]
      BY <1>0, <2>3, <2>5, ZenonT(30) DEF LocalTypes, Scans
    <3> QED BY <1>0, <1>1, <2>4, <2>5, <3>1, Zenon DEF LocalTypes, Others
  <2>7. Local(t)'
    <3>1. /\ scan'[t].chunk = scan[t].chunk \cup {m}
          /\ scan'[t].first = scan[t].first /\ scan'[t].bit = scan[t].bit
      BY <1>0, <2>5, Zenon DEF LocalTypes, Scans
    <3>2. pc'[t] = "load" /\ req'[t] = req[t]
      BY <1>0, <1>1, <2>4, Zenon DEF LocalTypes
    <3> QED BY <1>0, <2>4, <3>1, <3>2, Zenon DEF Local, SingleOK, MultiOK, GrowOK, WordStart
  <2> QED BY <2>6, <2>7, QuietStep, Zenon DEF PickBit
<1>2. CASE /\ scan' = [scan EXCEPT ![t].bit = @ + 1]
           /\ pc' = [pc EXCEPT ![t] = "single"]
           /\ UNCHANGED <<req, clm>>
  <2>1. LocalTypes' /\ Others(t)
    <3>0. scan[t] \in Scans /\ scan[t].bit + 1 \in Nat
      BY <1>0 DEF LocalTypes, Scans
    <3>1. scan' \in [Threads -> Scans]
      BY <1>0, <1>2, <3>0, ScanUpdates, Zenon DEF LocalTypes
    <3> QED BY <1>0, <1>2, <3>1, Zenon DEF LocalTypes, Others, PCs
  <2>2. pc'[t] = "single" /\ req'[t] = req[t]
    BY <1>0, <1>2, Zenon DEF LocalTypes
  <2>3. Local(t)'
    BY <1>0, <2>2, Zenon DEF Local, RunOK, CasOK, SingleOK, MultiOK, GrowOK, ClaimPCs
  <2> QED BY <2>1, <2>3, QuietStep, Zenon DEF PickBit
<1>3. CASE Return(t)
  BY <1>0, <1>3, ReturnFacts, QuietStep, Zenon DEF PickBit
<1> QED BY <1>1, <1>2, <1>3, Zenon DEF PickBit

(* alloc_multi goes on with the scan state s. *)
LEMMA MoveOnFacts ==
    ASSUME LocalTypes, NEW t \in Threads, Local(t), NEW s \in Scans,
           pc[t] = "multi", MoveOn(t, s), UNCHANGED <<req, held>>,
           s.pass # 3, s.first < TotalBits, s.run < req[t].count, s.ext = 0,
           s.run = 0 \/ (s.from + s.run = s.bit /\ s.bit <= RangeEnd(s))
    PROVE  LocalTypes' /\ Others(t) /\ Local(t)'
<1>1. LocalTypes' /\ Others(t)
  BY Zenon DEF MoveOn, LocalTypes, Others
<1>2. scan'[t] = s /\ pc'[t] = "multi" /\ req'[t] = req[t] /\ clm'[t] = clm[t]
  BY Zenon DEF MoveOn, LocalTypes
<1> HIDE DEF MoveOn
<1>3. MultiOK(t)'
  BY <1>2, Zenon DEF Local, MultiOK, RangeEnd
<1>4. RunOK(t)' /\ CasOK(t)'
  BY <1>2, Zenon DEF RunOK, CasOK, ClaimPCs
<1>5. SingleOK(t)' /\ GrowOK(t)'
  BY <1>2, Zenon DEF Local, SingleOK, MultiOK, GrowOK
<1> QED BY <1>1, <1>3, <1>4, <1>5, Zenon DEF Local

(* alloc_multi extends, restarts or claims its run, within the pass. *)
LEMMA ScanMultiIInv ==
    ASSUME IInv, NEW t \in Threads, ScanMulti(t)
    PROVE  IInv'
<1> DEFINE s    == scan[t]
           w    == WordAt(s.bit)
           rest == RangeEnd(s) - s.bit
           skip == IF rest < WordBits THEN rest ELSE WordBits
           step == IF Shift(s.bit) = 0 /\ map \cap w = {} THEN skip ELSE 1
           e    == Extended(s, step)
<1>0. /\ LocalTypes /\ Local(t) /\ pc[t] = "multi" /\ req[t].op = "multi"
      /\ s \in Scans /\ s.bit < RangeEnd(s) /\ req[t].count \in 2 .. TotalBits
      /\ s.pass \in 1 .. 2 /\ s.first < TotalBits /\ s.run < req[t].count /\ s.ext = 0
      /\ s.run = 0 \/ (s.from + s.run = s.bit /\ s.bit <= RangeEnd(s))
      /\ UNCHANGED <<map, claim, hint, held, req>>
  BY TypeSplit DEF IInv, ScanMulti, Local, MultiOK, LocalTypes, Scans
<1>b. s \in Scans
  BY <1>0, Zenon
<1> HIDE DEF s
<1>1. RangeEnd(s) \in Nat /\ RangeEnd(s) <= TotalBits
  BY <1>0, SegmentAssumption DEF RangeEnd, Scans
<1>2. step \in Nat /\ 1 <= step /\ s.bit + step <= RangeEnd(s)
  BY <1>0, <1>1, SegmentAssumption DEF Scans
<1> HIDE DEF step
<1>3. /\ e \in Scans /\ e.run = s.run + step /\ e.bit = s.bit
      /\ e.first = s.first /\ e.pass = s.pass /\ RangeEnd(e) = RangeEnd(s)
      /\ e.ext = 0
      /\ e.from + s.run = s.bit
  <2>0. s.run + step \in Nat /\ (IF s.run = 0 THEN s.bit ELSE s.from) \in Nat
    BY <1>0, <1>2 DEF Scans
  <2>1. e \in Scans
    BY <1>b, <2>0, ScanUpdates, Zenon DEF Extended
  <2>2. /\ e.run = s.run + step /\ e.bit = s.bit
        /\ e.first = s.first /\ e.pass = s.pass /\ e.ext = 0
        /\ e.from = IF s.run = 0 THEN s.bit ELSE s.from
    BY <1>0, Zenon DEF Extended, Scans
  <2> QED BY <1>0, <2>1, <2>2 DEF Scans, RangeEnd
<1>e. e \in Scans
  BY <1>3, Zenon
<1> HIDE DEF e
<1>4. CASE w \subseteq map /\ MoveOn(t, [s EXCEPT !.run = 0, !.bit = Max(w) + 1])
  <2>1. Max(w) \in w
    BY <1>0, MaxOfWord, Zenon DEF Scans
  <2>2. Max(w) + 1 \in Nat
    BY <2>1, <1>0, WordNat DEF Scans
  <2> DEFINE n == Max(w) + 1
             s2 == [s EXCEPT !.run = 0, !.bit = n]
  <2> HIDE DEF n
  <2>a. s2 \in Scans
    BY <1>b, <2>2, ScanUpdates, Zenon DEF n
  <2>3. /\ s2 \in Scans /\ s2.run = 0 /\ s2.pass = s.pass /\ s2.first = s.first
        /\ s2.ext = 0
    BY <1>0, <2>a, Zenon DEF Scans
  <2>4. MoveOn(t, s2)
    BY <1>4, Zenon DEF n
  <2> HIDE DEF s2
  <2> QED BY <1>0, <2>3, <2>4, MoveOnFacts, QuietStep
<1>5. CASE MoveOn(t, [s EXCEPT !.run = 0, !.bit = @ + 1])
  <2> DEFINE s2 == [s EXCEPT !.run = 0, !.bit = @ + 1]
  <2>a. s.bit + 1 \in Nat
    BY <1>0 DEF Scans
  <2>b. s2 \in Scans
    BY <1>b, <2>a, ScanUpdates, Zenon
  <2>1. /\ s2 \in Scans /\ s2.run = 0 /\ s2.pass = s.pass /\ s2.first = s.first
        /\ s2.ext = 0
    BY <1>0, <2>b, Zenon DEF Scans
  <2>2. MoveOn(t, s2)
    BY <1>5, Zenon
  <2> HIDE DEF s2
  <2> QED BY <1>0, <2>1, <2>2, MoveOnFacts, QuietStep
<1>6. CASE e.run >= req[t].count /\ ClaimRun(t, e)
  <2>1. e.from \in Nat /\ e.from + req[t].count <= TotalBits
    BY <1>0, <1>1, <1>2, <1>3, <1>6, SegmentAssumption DEF Scans
  <2>2. /\ pc' = [pc EXCEPT ![t] = "load"]
        /\ pc' \in [Threads -> PCs]
        /\ clm' \in [Threads -> Claims]
        /\ \A u \in Threads \ {t} : clm'[u] = clm[u]
        /\ RunOK(t)' /\ CasOK(t)'
    BY <1>0, <1>6, <2>1, StartClaimFacts, SegmentAssumption DEF ClaimRun
  <2> DEFINE s2 == [e EXCEPT !.run = 0, !.bit = @ + 1]
  <2>a. e.bit + 1 \in Nat
    BY <1>3 DEF Scans
  <2>b. s2 \in Scans
    BY <1>e, <2>a, ScanUpdates, Zenon
  <2>3. /\ s2 \in Scans /\ s2.run = 0 /\ s2.pass = s.pass /\ s2.first = s.first
        /\ s2.ext = 0
    BY <1>3, <2>b, Zenon DEF Scans
  <2>4. scan' = [scan EXCEPT ![t] = s2]
    BY <1>6, Zenon DEF ClaimRun
  <2> HIDE DEF s2
  <2>5. LocalTypes' /\ Others(t)
    BY <1>0, <2>2, <2>3, <2>4, Zenon DEF LocalTypes, Others
  <2>6. scan'[t] = s2 /\ pc'[t] = "load" /\ req'[t] = req[t]
    BY <1>0, <2>2, <2>4, ZenonT(30) DEF LocalTypes
  <2>7. Local(t)'
    BY <1>0, <2>2, <2>3, <2>6 DEF Local, SingleOK, MultiOK, GrowOK
  <2> QED BY <1>0, <2>5, <2>7, QuietStep, Zenon
<1>7. CASE e.run < req[t].count /\ MoveOn(t, [e EXCEPT !.bit = @ + step])
  <2> DEFINE s2 == [e EXCEPT !.bit = @ + step]
  <2>1. /\ s2 \in Scans /\ s2.run = e.run /\ s2.pass = s.pass
        /\ s2.first = s.first /\ s2.from = e.from /\ s2.bit = s.bit + step /\ s2.ext = 0
        /\ RangeEnd(s2) = RangeEnd(s)
    BY <1>2, <1>3 DEF Scans, RangeEnd
  <2>2. MoveOn(t, s2)
    BY <1>7, Zenon
  <2> HIDE DEF s2
  <2>3. s2.from + s2.run = s2.bit /\ s2.bit <= RangeEnd(s2)
    BY <1>0, <1>2, <1>3, <2>1 DEF Scans
  <2> QED BY <1>0, <1>7, <2>1, <2>2, <2>3, MoveOnFacts, QuietStep
<1> QED BY <1>4, <1>5, <1>6, <1>7, ZenonT(30) DEF ScanMulti, e, step, s

(* alloc_multi goes to the second pass, to the carried run, or returns. *)
LEMMA EndPassIInv ==
    ASSUME IInv, NEW t \in Threads, EndPass(t)
    PROVE  IInv'
<1> DEFINE s == scan[t]
<1>0. /\ LocalTypes /\ Local(t) /\ pc[t] = "multi" /\ req[t].op = "multi"
      /\ s \in Scans /\ s.bit >= RangeEnd(s) /\ req[t].count \in 2 .. TotalBits
      /\ s.first < TotalBits /\ s.run < req[t].count /\ s.ext = 0
      /\ s.run = 0 \/ (s.from + s.run = s.bit /\ s.bit <= RangeEnd(s))
      /\ UNCHANGED <<map, claim, hint, held>>
  BY TypeSplit, Zenon DEF IInv, EndPass, Local, MultiOK, LocalTypes
<1>b. s \in Scans
  BY <1>0, Zenon
<1>1. CASE MoveOn(t, [s EXCEPT !.pass = 2, !.bit = 0, !.run = 0]) /\ UNCHANGED req
  <2> DEFINE s2 == [s EXCEPT !.pass = 2, !.bit = 0, !.run = 0]
  <2>1. s2 \in Scans
    BY <1>b, ScanUpdates, Zenon
  <2>2. s2.pass = 2 /\ s2.run = 0 /\ s2.first = s.first /\ s2.ext = 0
    BY <1>0, Zenon DEF Scans
  <2>3. MoveOn(t, s2)
    BY <1>1, Zenon
  <2> HIDE DEF s2
  <2> QED BY <1>0, <1>1, <2>1, <2>2, <2>3, MoveOnFacts, QuietStep, SegmentAssumption
<1>2. CASE /\ s.pass = 2
           /\ s.run > 0
           /\ scan' = [scan EXCEPT ![t].bit = s.first]
           /\ pc' = [pc EXCEPT ![t] = "carry"]
           /\ UNCHANGED <<req, clm>>
  <2> DEFINE s2 == [s EXCEPT !.bit = s.first]
  <2>1. s2 \in Scans
    BY <1>b, ScanUpdates, Zenon DEF Scans
  <2>2. /\ s2.pass = s.pass /\ s2.run = s.run /\ s2.first = s.first
        /\ s2.from = s.from /\ s2.ext = s.ext /\ s2.bit = s.first
    BY <1>0, Zenon DEF Scans
  <2>3. scan' = [scan EXCEPT ![t] = s2]
    BY <1>2, Zenon
  <2> HIDE DEF s2
  <2>a. LocalTypes
    BY <1>0, Zenon
  <2>4. LocalTypes' /\ Others(t)
    BY <2>a, <1>2, <2>1, <2>3, ZenonT(30) DEF LocalTypes, Others, PCs
  <2>5. scan'[t] = s2 /\ pc'[t] = "carry" /\ req'[t] = req[t]
    BY <1>0, <1>2, <2>3, Zenon DEF LocalTypes
  <2>b. s.from + s.run + s.ext = s.first /\ s.first <= TotalBits
    BY <1>0, <1>2, SegmentAssumption DEF RangeEnd, Scans
  <2>6. MultiOK(t)'
    BY <1>0, <1>2, <2>b, <2>2, <2>5, Zenon DEF MultiOK
  <2>7. Local(t)'
    BY <1>0, <2>5, <2>6, Zenon DEF Local, RunOK, CasOK, SingleOK, GrowOK, ClaimPCs
  <2> QED BY <1>0, <2>4, <2>7, QuietStep, Zenon
<1>3. CASE Return(t)
  BY <1>0, <1>3, ReturnFacts, QuietStep, Zenon
<1> QED BY <1>1, <1>2, <1>3, Zenon DEF EndPass

(* alloc_multi extends the run it carried over the end of its pass. *)
LEMMA CarryOverIInv ==
    ASSUME IInv, NEW t \in Threads, CarryOver(t)
    PROVE  IInv'
<1> DEFINE s == scan[t]
           full == s.run + s.ext + 1 >= req[t].count
<1>0. /\ LocalTypes /\ Local(t) /\ pc[t] = "carry" /\ req[t].op = "multi"
      /\ s \in Scans /\ req[t].count \in 2 .. TotalBits
      /\ s.first < TotalBits /\ s.from + s.run + s.ext = s.bit
      /\ UNCHANGED <<map, claim, hint, held>>
  BY TypeSplit, Zenon DEF IInv, CarryOver, Local, MultiOK, LocalTypes
<1>b. LocalTypes /\ s \in Scans
  BY <1>0, Zenon
<1>1. CASE /\ s.bit < TotalBits
           /\ full
           /\ StartClaim(t, s.from, req[t].count)
           /\ scan' = [scan EXCEPT ![t].pass = 3]
           /\ UNCHANGED req
  <2>0. req[t].count <= s.run + s.ext + 1 => s.from + req[t].count <= TotalBits
    BY <1>0, <1>1, SegmentAssumption DEF Scans
  <2>1. s.from \in Nat /\ s.from + req[t].count <= TotalBits
    BY <1>1, <1>b, <2>0, Zenon DEF Scans
  <2>2. /\ pc' = [pc EXCEPT ![t] = "load"]
        /\ pc' \in [Threads -> PCs]
        /\ clm' \in [Threads -> Claims]
        /\ \A u \in Threads \ {t} : clm'[u] = clm[u]
        /\ RunOK(t)' /\ CasOK(t)'
    BY <1>0, <1>1, <2>1, StartClaimFacts, SegmentAssumption
  <2> DEFINE s2 == [s EXCEPT !.pass = 3]
  <2>3. s2 \in Scans
    BY <1>b, ScanUpdates, Zenon
  <2>4. s2.pass = 3 /\ s2.first = s.first
    BY <1>b, Zenon DEF Scans
  <2>5. scan' = [scan EXCEPT ![t] = s2]
    BY <1>1, Zenon
  <2> HIDE DEF s2
  <2>6. LocalTypes' /\ Others(t)
    BY <1>b, <1>1, <2>2, <2>3, <2>5, ZenonT(30) DEF LocalTypes, Others
  <2>7. scan'[t] = s2 /\ pc'[t] = "load" /\ req'[t] = req[t]
    BY <1>b, <1>1, <2>2, <2>5, Zenon DEF LocalTypes
  <2>8. Local(t)'
    BY <1>0, <2>2, <2>4, <2>7, Zenon DEF Local, SingleOK, MultiOK, GrowOK
  <2> QED BY <1>0, <2>6, <2>8, QuietStep, Zenon
<1>2. CASE /\ s.bit < TotalBits
           /\ MoveOn(t, [s EXCEPT !.ext = @ + 1, !.bit = @ + 1])
           /\ UNCHANGED req
  <2> DEFINE s2 == [s EXCEPT !.ext = @ + 1, !.bit = @ + 1]
  <2>0. s.ext + 1 \in Nat /\ s.bit + 1 \in Nat
    BY <1>b DEF Scans
  <2>1. s2 \in Scans
    BY <1>b, <2>0, ScanUpdates, Zenon
  <2>2. /\ s2.run = s.run /\ s2.first = s.first
        /\ s2.from = s.from /\ s2.ext = s.ext + 1 /\ s2.bit = s.bit + 1
    BY <1>b, Zenon DEF Scans
  <2>3. scan' = [scan EXCEPT ![t] = s2] /\ UNCHANGED <<pc, clm, req>>
    BY <1>2, Zenon DEF MoveOn
  <2> HIDE DEF s2
  <2>4. LocalTypes' /\ Others(t)
    BY <1>b, <2>1, <2>3, Zenon DEF LocalTypes, Others, PCs
  <2>5. scan'[t] = s2 /\ pc'[t] = "carry" /\ req'[t] = req[t]
    BY <1>0, <2>3, Zenon DEF LocalTypes
  <2>b. s2.from + s2.run + s2.ext = s2.bit /\ s2.bit <= TotalBits
    BY <1>0, <1>2, <2>2, SegmentAssumption DEF Scans
  <2>6. MultiOK(t)'
    BY <1>0, <2>b, <2>2, <2>5, Zenon DEF MultiOK
  <2>7. Local(t)'
    BY <1>0, <2>5, <2>6, Zenon DEF Local, RunOK, CasOK, SingleOK, GrowOK, ClaimPCs
  <2> QED BY <1>0, <2>4, <2>7, QuietStep, Zenon
<1>3. CASE Return(t)
  BY <1>0, <1>3, ReturnFacts, QuietStep, Zenon
<1> QED BY <1>1, <1>2, <1>3, Zenon DEF CarryOver

-----------------------------------------------------------------------------
(* try_claim. *)

(* A step within try_claim: the thread goes on at p with the claim d.      *)
LEMMA ClaimStep ==
    ASSUME LocalTypes, NEW t \in Threads, Local(t), pc[t] \in ClaimPCs,
           NEW p \in ClaimPCs, NEW d \in Claims,
           pc' = [pc EXCEPT ![t] = p], clm' = [clm EXCEPT ![t] = d],
           UNCHANGED <<req, scan, held>>,
           d.done < d.count, d.start + d.count <= TotalBits,
           p = "cas" => d.val \cap Mask(d) = {}
    PROVE  LocalTypes' /\ Others(t) /\ Local(t)'
<1>1. LocalTypes' /\ Others(t)
  BY Zenon DEF LocalTypes, Others, ClaimPCs, PCs
<1>2. /\ pc'[t] = p /\ clm'[t] = d /\ req'[t] = req[t] /\ scan'[t] = scan[t]
      /\ held'[t] = held[t]
  BY Zenon DEF LocalTypes
<1>3. RunOK(t)' /\ CasOK(t)'
  BY <1>2, Zenon DEF RunOK, CasOK
<1>4. SingleOK(t)' /\ GrowOK(t)'
  BY <1>2, Zenon DEF Local, SingleOK, GrowOK, ClaimPCs, WordStart
<1>5. MultiOK(t)'
  BY <1>2, Zenon DEF Local, MultiOK, ClaimPCs, RangeEnd
<1> QED BY <1>1, <1>3, <1>4, <1>5, Zenon DEF Local

(* What the invariant says of a thread in try_claim or in a rollback. *)
LEMMA InClaim ==
    ASSUME IInv, NEW t \in Threads, pc[t] \in ClaimPCs \cup {"clear"}
    PROVE  /\ LocalTypes /\ Local(t) /\ clm[t] \in Claims
           /\ clm[t].done < clm[t].count
           /\ clm[t].start + clm[t].count <= TotalBits
           /\ Mask(clm[t]) \subseteq Bits
<1>1. /\ LocalTypes /\ Local(t) /\ clm[t] \in Claims
      /\ clm[t].done < clm[t].count
      /\ clm[t].start + clm[t].count <= TotalBits
  BY TypeSplit, Zenon DEF IInv, LocalTypes, Local, RunOK
<1>2. Mask(clm[t]) \subseteq (clm[t].start + clm[t].done)
                                 .. (clm[t].start + clm[t].count - 1)
  BY <1>1, PieceFacts, Zenon
<1> QED BY <1>1, <1>2, SegmentAssumption DEF Claims, Bits

(* Loading a claim word. *)
LEMMA ClaimLoadIInv ==
    ASSUME IInv, NEW t \in Threads, ClaimLoad(t)
    PROVE  IInv'
<1> DEFINE c == clm[t]
           v == claim \cap WordAt(c.start + c.done)
           d == [c EXCEPT !.val = v]
<1>0. pc[t] = "load" /\ pc[t] \in ClaimPCs
  BY Zenon DEF ClaimLoad, ClaimPCs
<1>1. /\ LocalTypes /\ Local(t) /\ c \in Claims
      /\ c.done < c.count /\ c.start + c.count <= TotalBits
  BY <1>0, InClaim, Zenon
<1>2. v \in SUBSET Bits
  BY Zenon DEF IInv, TypeOK
<1>3. pc' = [pc EXCEPT ![t] = "check"] /\ clm' = [clm EXCEPT ![t] = d]
  BY Zenon DEF ClaimLoad
<1> HIDE DEF v
<1>4. d \in Claims
  BY <1>1, <1>2, ClaimUpdates, Zenon
<1>5. d.done = c.done /\ d.count = c.count /\ d.start = c.start
  BY <1>1, Zenon DEF Claims
<1> HIDE DEF d
<1>6. "check" \in ClaimPCs
  BY Zenon DEF ClaimPCs
<1> QED BY <1>0, <1>1, <1>3, <1>4, <1>5, <1>6, ClaimStep, QuietStep, Zenon DEF ClaimLoad

(* A thread goes on to its exchange only if it saw its pages unclaimed. *)
LEMMA ClaimCheckIInv ==
    ASSUME IInv, NEW t \in Threads, ClaimCheck(t)
    PROVE  IInv'
<1> DEFINE c == clm[t]
<1>0. pc[t] = "check" /\ pc[t] \in ClaimPCs
  BY Zenon DEF ClaimCheck, ClaimPCs
<1>1. /\ LocalTypes /\ Local(t) /\ c \in Claims
      /\ c.done < c.count /\ c.start + c.count <= TotalBits
  BY <1>0, InClaim, Zenon
<1>2. UNCHANGED <<map, claim, hint, held>>
  BY Zenon DEF ClaimCheck
<1>3. CASE /\ (c.val \cup map) \cap Mask(c) = {}
           /\ pc' = [pc EXCEPT ![t] = "cas"]
           /\ UNCHANGED <<req, scan, clm>>
  <2>1. clm' = [clm EXCEPT ![t] = c] /\ c.val \cap Mask(c) = {}
    BY <1>1, <1>3, Zenon DEF LocalTypes
  <2>2. "cas" \in ClaimPCs
    BY Zenon DEF ClaimPCs
  <2> HIDE DEF c
  <2> QED BY <1>0, <1>1, <1>2, <1>3, <2>1, <2>2, ClaimStep, QuietStep, Zenon
<1>4. CASE ClaimFailed(t)
  BY <1>0, <1>1, <1>2, <1>4, ClaimFailedFacts, QuietStep, Zenon
<1>5. CASE /\ c.done > 0
           /\ pc' = [pc EXCEPT ![t] = "rollback"]
           /\ clm' = [clm EXCEPT ![t] = [c EXCEPT !.count = c.done,
                                                  !.done = 0, !.val = {}]]
           /\ UNCHANGED <<req, scan>>
  <2> DEFINE d == [c EXCEPT !.count = c.done, !.done = 0, !.val = {}]
  <2>1. d \in Claims
    <3>1. c.done \in Nat /\ 0 \in Nat /\ {} \in SUBSET Bits /\ c \in Claims
      BY <1>1, Zenon DEF Claims
    <3> HIDE DEF c
    <3> QED BY <3>1, ClaimUpdates, Zenon
  <2>2. d.done = 0 /\ d.count = c.done /\ d.start = c.start
    BY <1>1, Zenon DEF Claims
  <2>3. clm' = [clm EXCEPT ![t] = d] /\ "rollback" \in ClaimPCs
    BY <1>5, Zenon DEF ClaimPCs
  <2> HIDE DEF d
  <2>4. d.done < d.count /\ d.start + d.count <= TotalBits
    BY <1>1, <1>5, <2>2, SegmentAssumption DEF Claims
  <2> QED BY <1>0, <1>1, <1>2, <1>5, <2>1, <2>3, <2>4, ClaimStep, QuietStep, Zenon
<1> QED BY <1>3, <1>4, <1>5, Zenon DEF ClaimCheck

(* Going on to the next word, or to the next phase. *)
LEMMA NextWordFacts ==
    ASSUME IInv, NEW t \in Threads, pc[t] \in ClaimPCs,
           NEW here \in ClaimPCs \ {"cas"}, NEW p \in ClaimPCs \ {"cas"},
           NextWordOr(t, here, p), UNCHANGED <<req, scan, held>>
    PROVE  LocalTypes' /\ Others(t) /\ Local(t)'
<1> DEFINE c == clm[t]
           n == IF Complete(c) THEN 0 ELSE Advance(c).done
           d == [c EXCEPT !.done = n, !.val = {}]
           q == IF Complete(c) THEN p ELSE here
<1>1. /\ LocalTypes /\ Local(t) /\ c \in Claims
      /\ c.done < c.count /\ c.start + c.count <= TotalBits
  BY InClaim, Zenon
<1>2. n \in Nat /\ n < c.count
  <2>1. PieceLen(c) \in 1 .. c.count - c.done
    BY <1>1, PieceFacts, Zenon
  <2>2. Advance(c).done = c.done + PieceLen(c)
    BY <1>1, Zenon DEF Advance, Claims
  <2> QED BY <1>1, <2>1, <2>2 DEF Claims, Complete
<1>3. clm' = [clm EXCEPT ![t] = d] /\ pc' = [pc EXCEPT ![t] = q]
  BY Zenon DEF NextWordOr
<1> HIDE DEF n
<1>4. d \in Claims
  BY <1>1, <1>2, ClaimUpdates, Zenon
<1>5. d.done = n /\ d.count = c.count /\ d.start = c.start
  BY <1>1, Zenon DEF Claims
<1>6. q \in ClaimPCs /\ q # "cas"
  BY Zenon
<1> HIDE DEF d, q
<1> QED BY <1>1, <1>2, <1>3, <1>4, <1>5, <1>6, ClaimStep, Zenon

(* An exchange that succeeds goes on to the next word or to publishing. *)
LEMMA ClaimCasOkIInv ==
    ASSUME IInv, NEW t \in Threads, ClaimCasOk(t)
    PROVE  IInv'
<1>1. pc[t] \in ClaimPCs /\ {"load", "publish"} \subseteq ClaimPCs \ {"cas"}
  BY Zenon DEF ClaimCasOk, ClaimPCs
<1>2. /\ NextWordOr(t, "load", "publish") /\ UNCHANGED <<map, hint, held, req, scan>>
      /\ claim' = claim \cup Mask(clm[t])
  BY Zenon DEF ClaimCasOk
<1>3. LocalTypes' /\ Others(t) /\ Local(t)'
  BY <1>1, <1>2, NextWordFacts, Zenon
<1>4. Mask(clm[t]) \subseteq Bits
  BY <1>1, InClaim, Zenon
<1> QED BY <1>2, <1>3, <1>4, SharedStep, Zenon DEF IInv, TypeOK

(* An exchange that fails looks again, at the word it found. *)
LEMMA ClaimCasFailIInv ==
    ASSUME IInv, NEW t \in Threads, ClaimCasFail(t)
    PROVE  IInv'
<1> DEFINE c == clm[t]
           v == claim \cap WordAt(c.start + c.done)
           d == [c EXCEPT !.val = v]
<1>0. pc[t] \in ClaimPCs
  BY Zenon DEF ClaimCasFail, ClaimPCs
<1>1. /\ LocalTypes /\ Local(t) /\ c \in Claims
      /\ c.done < c.count /\ c.start + c.count <= TotalBits
  BY <1>0, InClaim, Zenon
<1>2. v \in SUBSET Bits
  BY Zenon DEF IInv, TypeOK
<1>3. pc' = [pc EXCEPT ![t] = "check"] /\ clm' = [clm EXCEPT ![t] = d]
  BY Zenon DEF ClaimCasFail
<1> HIDE DEF v
<1>4. d \in Claims
  BY <1>1, <1>2, ClaimUpdates, Zenon
<1>5. d.done = c.done /\ d.count = c.count /\ d.start = c.start
  BY <1>1, Zenon DEF Claims
<1> HIDE DEF d
<1>6. "check" \in ClaimPCs
  BY Zenon DEF ClaimPCs
<1> QED BY <1>0, <1>1, <1>3, <1>4, <1>5, <1>6, ClaimStep, QuietStep, Zenon DEF ClaimCasFail

(* Publishing stays within the run. *)
LEMMA PublishIInv ==
    ASSUME IInv, NEW t \in Threads, Publish(t)
    PROVE  IInv'
<1>1. pc[t] \in ClaimPCs /\ {"publish", "release"} \subseteq ClaimPCs \ {"cas"}
  BY Zenon DEF Publish, ClaimPCs
<1>2. /\ NextWordOr(t, "publish", "release")
      /\ UNCHANGED <<claim, hint, held, req, scan>>
      /\ map' = map \cup Mask(clm[t])
  BY Zenon DEF Publish
<1>3. LocalTypes' /\ Others(t) /\ Local(t)'
  BY <1>1, <1>2, NextWordFacts, Zenon
<1>4. Mask(clm[t]) \subseteq Bits
  BY <1>1, InClaim, Zenon
<1> QED BY <1>2, <1>3, <1>4, SharedStep, Zenon DEF IInv, TypeOK

(* The walk over the words of a release or a rollback that is not over. *)
LEMMA AdvanceFacts ==
    ASSUME IInv, NEW t \in Threads, pc[t] \in ClaimPCs \ {"cas"},
           ~ Complete(clm[t]), clm' = [clm EXCEPT ![t] = Advance(clm[t])],
           UNCHANGED <<pc, req, scan, held>>
    PROVE  LocalTypes' /\ Others(t) /\ Local(t)'
<1> DEFINE c == clm[t]
           d == Advance(c)
<1>1. /\ LocalTypes /\ Local(t) /\ c \in Claims
      /\ c.done < c.count /\ c.start + c.count <= TotalBits
  BY InClaim, Zenon
<1>2. PieceLen(c) \in 1 .. c.count - c.done
  BY <1>1, PieceFacts, Zenon
<1>3. c.done + PieceLen(c) \in Nat /\ c.done + PieceLen(c) < c.count
  BY <1>1, <1>2 DEF Claims, Complete
<1>4. d \in Claims
  BY <1>1, <1>3, ClaimUpdates, Zenon DEF Advance
<1>5. d.done = c.done + PieceLen(c) /\ d.count = c.count /\ d.start = c.start
  BY <1>1, Zenon DEF Claims, Advance
<1>6. clm' = [clm EXCEPT ![t] = d] /\ pc' = [pc EXCEPT ![t] = pc[t]]
  BY <1>1, Zenon DEF LocalTypes
<1>7. pc[t] \in ClaimPCs /\ pc[t] # "cas"
  BY Zenon
<1> HIDE DEF d
<1> QED BY <1>1, <1>3, <1>4, <1>5, <1>6, <1>7, ClaimStep, Zenon

(* The word of a page is a natural number: the hint stays one. *)
LEMMA HintNat == ASSUME NEW c \in Claims PROVE c.start \div WordBits \in Nat
BY DivNat, SegmentAssumption, Zenon DEF Claims

(* The run that a call returns is one of the segment. *)
LEMMA ReleaseIInv ==
    ASSUME IInv, NEW t \in Threads, Release(t)
    PROVE  IInv'
<1> DEFINE c == clm[t]
           g == Gained(t)
<1>0. pc[t] = "release" /\ pc[t] \in ClaimPCs
  BY Zenon DEF Release, ClaimPCs
<1>1. /\ LocalTypes /\ Local(t) /\ c \in Claims
      /\ c.done < c.count /\ c.start + c.count <= TotalBits
  BY <1>0, InClaim, Zenon
<1>2. claim' \subseteq Bits /\ map' \subseteq Bits
  BY Zenon DEF Release, IInv, TypeOK
<1>3. CASE /\ ~ Complete(c)
           /\ clm' = [clm EXCEPT ![t] = Advance(c)]
           /\ UNCHANGED <<hint, held, pc, req, scan>>
  <2>1. LocalTypes' /\ Others(t) /\ Local(t)'
    BY <1>0, <1>3, AdvanceFacts, Zenon
  <2> QED BY <1>2, <1>3, <2>1, SharedStep, Zenon DEF IInv, TypeOK
<1>4. CASE /\ held' = [held EXCEPT ![t] = (@ \ {req[t].run}) \cup {g}]
           /\ hint' = IF req[t].op = "grow" THEN hint ELSE c.start \div WordBits
           /\ Return(t)
  <2>1. LocalTypes' /\ Others(t) /\ Local(t)'
    BY <1>1, <1>4, ReturnFacts, Zenon
  <2>2. hint' \in Nat
    BY <1>1, <1>4, HintNat, Zenon DEF IInv, TypeOK
  <2>3. g \in Runs /\ g.start + g.count <= TotalBits
    <3>1. CASE req[t].op = "grow"
      <4> DEFINE r == req[t].run
                 n == req[t].count
      <4>1. r \in held[t] /\ r.start + n <= TotalBits /\ n > 0 /\ n \in Nat
        BY <1>1, <3>1, Zenon DEF Local, GrowOK, LocalTypes
      <4>2. r \in Runs
        BY <4>1, Zenon DEF IInv, TypeOK
      <4>3. g = [r EXCEPT !.count = n]
        BY <3>1, Zenon DEF Gained
      <4> HIDE DEF r, n, g
      <4> QED BY <4>1, <4>2, <4>3, SegmentAssumption DEF Runs, Bits
    <3>2. CASE req[t].op # "grow"
      <4>1. g = [start |-> c.start, count |-> c.count]
        BY <3>2, Zenon DEF Gained
      <4> QED BY <1>1, <4>1, SegmentAssumption DEF Runs, Bits, Claims
    <3> QED BY <3>1, <3>2, Zenon
  <2> HIDE DEF g
  <2>4. held' \in [Threads -> SUBSET Runs]
    BY <1>4, <2>3, Zenon DEF IInv, TypeOK
  <2>5. TypeOK'
    BY <1>2, <2>1, <2>2, <2>4, Zenon DEF TypeOK, LocalTypes, Scans, Claims
  <2>6. HeldOK'
    BY <1>4, <2>3, Zenon DEF IInv, TypeOK, HeldOK
  <2>7. ASSUME NEW u \in Threads, u # t PROVE Local(u)'
    <3>1. held'[u] = held[u]
      BY <1>4, <2>7, Zenon DEF IInv, TypeOK
    <3> QED BY <2>1, <2>7, <3>1, Frame, Zenon DEF IInv, Others
  <2> QED BY <2>1, <2>5, <2>6, <2>7, Zenon DEF IInv
<1> QED BY <1>3, <1>4, Zenon DEF Release

(* Rolling back stays within the part that was claimed. *)
LEMMA RollbackClaimIInv ==
    ASSUME IInv, NEW t \in Threads, RollbackClaim(t)
    PROVE  IInv'
<1> DEFINE c == clm[t]
<1>0. pc[t] = "rollback" /\ pc[t] \in ClaimPCs
  BY Zenon DEF RollbackClaim, ClaimPCs
<1>1. claim' \subseteq Bits /\ map' \subseteq Bits /\ hint' \in Nat /\ held' = held
  BY Zenon DEF RollbackClaim, IInv, TypeOK
<1>2. CASE /\ ~ Complete(c)
           /\ clm' = [clm EXCEPT ![t] = Advance(c)]
           /\ UNCHANGED <<pc, req, scan>>
  BY <1>0, <1>1, <1>2, AdvanceFacts, SharedStep, Zenon
<1>3. CASE ClaimFailed(t)
  BY <1>0, <1>1, <1>3, InClaim, ClaimFailedFacts, SharedStep, Zenon
<1> QED BY <1>2, <1>3, Zenon DEF RollbackClaim

(* Clearing stays within the run that is given back. *)
LEMMA ClearBitIInv ==
    ASSUME IInv, NEW t \in Threads, ClearBit(t)
    PROVE  IInv'
<1> DEFINE c == clm[t]
<1>0. pc[t] = "clear"
  BY Zenon DEF ClearBit
<1>1. /\ LocalTypes /\ Local(t) /\ c \in Claims
      /\ c.done < c.count /\ c.start + c.count <= TotalBits
  BY <1>0, InClaim, Zenon
<1>2. claim' \subseteq Bits /\ map' \subseteq Bits /\ held' = held
  BY Zenon DEF ClearBit, IInv, TypeOK
<1>3. CASE /\ c.done + 1 < c.count
           /\ clm' = [clm EXCEPT ![t].done = @ + 1]
           /\ UNCHANGED <<hint, pc, req, scan>>
  <2> DEFINE d == [c EXCEPT !.done = @ + 1]
  <2>1. c.done + 1 \in Nat
    BY <1>1 DEF Claims
  <2>2. d \in Claims
    BY <1>1, <2>1, ClaimUpdates, Zenon
  <2>3. d.done = c.done + 1 /\ d.count = c.count /\ d.start = c.start
    BY <1>1, Zenon DEF Claims
  <2>4. clm' = [clm EXCEPT ![t] = d]
    BY <1>3, Zenon
  <2> HIDE DEF d
  <2>5. LocalTypes' /\ Others(t)
    BY <1>1, <1>3, <2>2, <2>4, Zenon DEF LocalTypes, Others
  <2>6. clm'[t] = d /\ pc'[t] = "clear" /\ req'[t] = req[t]
    BY <1>0, <1>1, <1>3, <2>4, Zenon DEF LocalTypes
  <2>7. RunOK(t)' /\ CasOK(t)'
    BY <1>1, <1>3, <2>3, <2>6, Zenon DEF RunOK, CasOK
  <2>8. SingleOK(t)' /\ MultiOK(t)' /\ GrowOK(t)'
    BY <1>0, <1>1, <1>2, <1>3, <2>6, Zenon
       DEF Local, SingleOK, MultiOK, GrowOK, WordStart, RangeEnd
  <2> QED BY <1>2, <1>3, <2>5, <2>7, <2>8, SharedStep, Zenon DEF IInv, TypeOK, Local
<1>4. CASE /\ hint' = IF req[t].op = "free" /\ c.start \div WordBits < hint
                      THEN c.start \div WordBits ELSE hint
           /\ Return(t)
  <2>1. hint' \in Nat
    BY <1>1, <1>4, HintNat, Zenon DEF IInv, TypeOK
  <2> QED BY <1>1, <1>2, <1>4, <2>1, ReturnFacts, SharedStep, Zenon
<1> QED BY <1>3, <1>4, Zenon DEF ClearBit

-----------------------------------------------------------------------------
(* Every step preserves the invariant. *)
LEMMA NextIInv == IInv /\ [Next]_vars => IInv'
<1> SUFFICES ASSUME IInv, [Next]_vars PROVE IInv'
  BY ZenonT(30)
<1>1. CASE UNCHANGED vars
  BY <1>1 DEF vars, IInv, TypeOK, HeldOK, Local, RunOK, CasOK, SingleOK, MultiOK,
              GrowOK, RangeEnd, WordStart
<1>2. ASSUME NEW t \in Threads, Request(t) PROVE IInv'
  BY <1>2, AllocSingleIInv, AllocMultiIInv, FreeIInv, ShrinkIInv, GrowIInv,
     HandIInv, Zenon DEF Request
<1>3. ASSUME NEW t \in Threads, Search(t) PROVE IInv'
  BY <1>3, LoadWordIInv, PickBitIInv, ScanMultiIInv, EndPassIInv, CarryOverIInv, Zenon
     DEF Search
<1>4. ASSUME NEW t \in Threads, TryClaim(t) PROVE IInv'
  BY <1>4, ClaimLoadIInv, ClaimCheckIInv, ClaimCasOkIInv, ClaimCasFailIInv,
     PublishIInv, RollbackClaimIInv, Zenon DEF TryClaim
<1> QED BY <1>1, <1>2, <1>3, <1>4, ReleaseIInv, ClearBitIInv, Zenon DEF Next

(* Type correctness: whatever the interleaving of alloc_single,            *)
(* alloc_multi, free and realloc_inplace, the two bitmaps, the hint and    *)
(* the runs handed out stay within the segment.                            *)
THEOREM TypeCorrect == Spec => []TypeOK
<1>1. IInv => TypeOK
  BY Zenon DEF IInv
<1> QED BY <1>1, InitIInv, NextIInv, PTL DEF Spec

-----------------------------------------------------------------------------
(* The claims.  A step of thread t keeps, takes or drops claims of its     *)
(* own; the three lemmas below say what that needs.                        *)

ClaimInv == ClaimExclusive /\ ClaimAccounted

(* A step leaves the place and the claims of every thread but t alone. *)
OthersClaims(t) ==
    \A u \in Threads \ {t} : pc'[u] = pc[u] /\ clm'[u] = clm[u]

(* What other threads have claimed does not change with thread t. *)
LEMMA ClaimedFrame ==
    ASSUME NEW t \in Threads, OthersClaims(t)
    PROVE  \A u \in Threads \ {t} : Claimed(u)' = Claimed(u)
BY Zenon DEF OthersClaims, Claimed, Pages

(* A step that changes no claim. *)
LEMMA KeepClaims ==
    ASSUME ClaimInv, NEW t \in Threads, OthersClaims(t),
           claim' = claim, Claimed(t)' = Claimed(t)
    PROVE  ClaimInv'
<1>1. \A u \in Threads : Claimed(u)' = Claimed(u)
  BY ClaimedFrame, Zenon
<1> QED BY <1>1, Zenon DEF ClaimInv, ClaimExclusive, ClaimAccounted

(* A step that claims pages M, which nobody had claimed. *)
LEMMA TakeClaims ==
    ASSUME ClaimInv, NEW t \in Threads, OthersClaims(t), NEW M,
           M \cap claim = {}, claim' = claim \cup M,
           Claimed(t)' = Claimed(t) \cup M
    PROVE  ClaimInv'
<1>1. \A u \in Threads \ {t} : Claimed(u)' = Claimed(u) /\ Claimed(u) \cap M = {}
  BY ClaimedFrame DEF ClaimInv, ClaimAccounted
<1>2. ClaimExclusive'
  BY <1>1 DEF ClaimInv, ClaimExclusive
<1>3. ClaimAccounted'
  BY <1>1 DEF ClaimInv, ClaimAccounted
<1> QED BY <1>2, <1>3, Zenon DEF ClaimInv

(* A step that drops claims of its own thread. *)
LEMMA DropClaims ==
    ASSUME ClaimInv, NEW t \in Threads, OthersClaims(t), NEW M,
           M \subseteq Claimed(t), claim' = claim \ M,
           Claimed(t)' = Claimed(t) \ M
    PROVE  ClaimInv'
<1>1. \A u \in Threads \ {t} : Claimed(u)' = Claimed(u) /\ Claimed(u) \cap M = {}
  BY ClaimedFrame, Zenon DEF ClaimInv, ClaimExclusive
<1>2. ClaimExclusive'
  BY <1>1 DEF ClaimInv, ClaimExclusive
<1>3. ClaimAccounted'
  BY <1>1, ZenonT(30) DEF ClaimInv, ClaimAccounted
<1> QED BY <1>2, <1>3, Zenon DEF ClaimInv

(* A failed attempt leaves no claim behind. *)
LEMMA FailedClaims ==
    ASSUME LocalTypes, NEW t \in Threads, ClaimFailed(t)
    PROVE  OthersClaims(t) /\ Claimed(t)' = {}
<1>1. OthersClaims(t) /\ pc'[t] \in {"pick", "multi", "idle"}
  BY Zenon DEF LocalTypes, ClaimFailed, Return, OthersClaims
<1> QED BY <1>1, Zenon DEF Claimed

(* A call that returns leaves no claim behind. *)
LEMMA ReturnClaims ==
    ASSUME LocalTypes, NEW t \in Threads, Return(t)
    PROVE  OthersClaims(t) /\ Claimed(t)' = {}
<1>1. OthersClaims(t) /\ pc'[t] = "idle"
  BY Zenon DEF LocalTypes, Return, OthersClaims
<1> QED BY <1>1, Zenon DEF Claimed

(* Entering try_claim claims nothing yet. *)
LEMMA StartClaims ==
    ASSUME LocalTypes, LocalTypes', NEW t \in Threads, NEW a, NEW n,
           StartClaim(t, a, n)
    PROVE  OthersClaims(t) /\ Claimed(t)' = {}
<1>1. OthersClaims(t) /\ pc'[t] = "load" /\ clm'[t].start = a /\ clm'[t].done = 0
  BY Zenon DEF LocalTypes, StartClaim, OthersClaims
<1>2. Claimed(t)' = a .. a + 0 - 1 /\ a \in Nat
  BY <1>1, Zenon DEF Claimed, LocalTypes, Claims
<1> QED BY <1>1, <1>2

(* Requests change no claim. *)
LEMMA RequestClaims ==
    ASSUME IInv, IInv', ClaimInv, NEW t \in Threads, Request(t)
    PROVE  ClaimInv'
<1>0. LocalTypes /\ LocalTypes'
  BY Zenon DEF IInv, TypeOK, LocalTypes, Scans, Claims
<1>1. CASE /\ pc[t] = "idle"
           /\ \/ pc' = [pc EXCEPT ![t] = "single"] /\ UNCHANGED clm
              \/ pc' = [pc EXCEPT ![t] = "multi"] /\ UNCHANGED clm
              \/ /\ pc' = [pc EXCEPT ![t] = "clear"]
                 /\ \E c : clm' = [clm EXCEPT ![t] = c]
           /\ UNCHANGED claim
  <2>1. OthersClaims(t) /\ pc'[t] \in {"single", "multi", "clear"}
    BY <1>0, <1>1, Zenon DEF LocalTypes, OthersClaims
  <2>2. Claimed(t) = {} /\ Claimed(t)' = {}
    BY <1>1, <2>1, Zenon DEF Claimed
  <2> QED BY <1>1, <2>1, <2>2, KeepClaims, Zenon
<1>2. ASSUME NEW r, NEW n, Grow(t, r, n) PROVE ClaimInv'
  <2>1. OthersClaims(t) /\ Claimed(t)' = {}
    BY <1>0, <1>2, StartClaims, Zenon DEF Grow
  <2>2. Claimed(t) = {}
    BY <1>2, Zenon DEF Grow, Claimed
  <2> QED BY <1>2, <2>1, <2>2, KeepClaims, Zenon DEF Grow
<1>3. ASSUME NEW r, NEW u, Hand(t, u, r) PROVE ClaimInv'
  <2>1. OthersClaims(t) /\ Claimed(t)' = Claimed(t)
    BY <1>3, Zenon DEF Hand, OthersClaims, Claimed, Pages
  <2> QED BY <1>3, <2>1, KeepClaims, Zenon DEF Hand
<1>4. CASE AllocSingle(t)
  BY <1>1, <1>4, Zenon DEF AllocSingle
<1>5. ASSUME NEW n, AllocMulti(t, n) PROVE ClaimInv'
  BY <1>1, <1>5, Zenon DEF AllocMulti
<1>6. ASSUME NEW r, Free(t, r) PROVE ClaimInv'
  BY <1>1, <1>6, Zenon DEF Free
<1>7. ASSUME NEW r, NEW n, Shrink(t, r, n) PROVE ClaimInv'
  BY <1>1, <1>7, Zenon DEF Shrink
<1> QED BY <1>2, <1>3, <1>4, <1>5, <1>6, <1>7, Zenon DEF Request

(* Searches change no claim. *)
LEMMA SearchClaims ==
    ASSUME IInv, IInv', ClaimInv, NEW t \in Threads, Search(t)
    PROVE  ClaimInv'
<1>0. LocalTypes /\ LocalTypes'
  BY Zenon DEF IInv, TypeOK, LocalTypes, Scans, Claims
<1>1. pc[t] \in {"single", "pick", "multi", "carry"} /\ UNCHANGED claim
  BY Zenon DEF Search, LoadWord, PickBit, ScanMulti, EndPass, CarryOver
<1>2. Claimed(t) = {}
  BY <1>1, Zenon DEF Claimed
<1>3. \/ UNCHANGED clm /\ pc' = [pc EXCEPT ![t] = "pick"]
      \/ UNCHANGED clm /\ pc' = [pc EXCEPT ![t] = "single"]
      \/ UNCHANGED clm /\ pc' = [pc EXCEPT ![t] = "carry"]
      \/ UNCHANGED <<clm, pc>>
      \/ Return(t)
      \/ \E a, n : StartClaim(t, a, n)
  <2>1. CASE LoadWord(t)
    BY <2>1, Zenon DEF LoadWord
  <2>2. CASE PickBit(t)
    BY <2>2, Zenon DEF PickBit
  <2>3. CASE ScanMulti(t)
    <3>1. UNCHANGED <<clm, pc>> \/ \E a, n : StartClaim(t, a, n)
      BY <2>3, Zenon DEF ScanMulti, MoveOn, ClaimRun
    <3> QED BY <3>1, Zenon
  <2>4. CASE EndPass(t)
    BY <2>4, Zenon DEF EndPass, MoveOn
  <2>5. CASE CarryOver(t)
    BY <2>5, Zenon DEF CarryOver, MoveOn
  <2> QED BY <2>1, <2>2, <2>3, <2>4, <2>5, Zenon DEF Search
<1>4. CASE \/ UNCHANGED clm /\ pc' = [pc EXCEPT ![t] = "pick"]
           \/ UNCHANGED clm /\ pc' = [pc EXCEPT ![t] = "single"]
           \/ UNCHANGED clm /\ pc' = [pc EXCEPT ![t] = "carry"]
           \/ UNCHANGED <<clm, pc>>
  <2>1. OthersClaims(t) /\ pc'[t] \in {"single", "pick", "multi", "carry"}
    BY <1>0, <1>1, <1>4, Zenon DEF LocalTypes, OthersClaims
  <2>2. Claimed(t)' = {}
    BY <2>1, Zenon DEF Claimed
  <2> QED BY <1>1, <1>2, <2>1, <2>2, KeepClaims, Zenon
<1>5. CASE Return(t)
  BY <1>0, <1>1, <1>2, <1>5, ReturnClaims, KeepClaims, Zenon
<1>6. ASSUME NEW a, NEW n, StartClaim(t, a, n) PROVE ClaimInv'
  BY <1>0, <1>1, <1>2, <1>6, StartClaims, KeepClaims, Zenon
<1> QED BY <1>3, <1>4, <1>5, <1>6, Zenon

(* Loading a claim word, or learning it from a failed exchange. *)
LEMMA ClaimLoadClaims ==
    ASSUME IInv, ClaimInv, NEW t \in Threads,
           pc[t] \in {"load", "cas"}, pc' = [pc EXCEPT ![t] = "check"],
           NEW v, clm' = [clm EXCEPT ![t].val = v], claim' = claim
    PROVE  ClaimInv'
<1>0. LocalTypes
  BY TypeSplit, Zenon DEF IInv
<1>1. /\ OthersClaims(t) /\ pc'[t] = "check"
      /\ clm'[t].start = clm[t].start /\ clm'[t].done = clm[t].done
  BY <1>0, Zenon DEF LocalTypes, OthersClaims, Claims
<1>2. Claimed(t)' = Claimed(t)
  BY <1>1, Zenon DEF Claimed
<1> QED BY <1>1, <1>2, KeepClaims, Zenon

(* What was claimed stays claimed, or is rolled back by this thread. *)
LEMMA ClaimCheckClaims ==
    ASSUME IInv, ClaimInv, NEW t \in Threads, ClaimCheck(t)
    PROVE  ClaimInv'
<1> DEFINE c == clm[t]
<1>0. /\ pc[t] = "check" /\ claim' = claim
      /\ LocalTypes /\ c \in Claims
  BY InClaim, Zenon DEF ClaimCheck, ClaimPCs
<1>1. Claimed(t) = c.start .. c.start + c.done - 1
  BY <1>0, Zenon DEF Claimed
<1>2. CASE pc' = [pc EXCEPT ![t] = "cas"] /\ UNCHANGED clm
  <2>1. OthersClaims(t) /\ pc'[t] = "cas" /\ clm'[t] = c
    BY <1>0, <1>2, Zenon DEF LocalTypes, OthersClaims
  <2>2. Claimed(t)' = Claimed(t)
    BY <1>1, <2>1, Zenon DEF Claimed
  <2> QED BY <1>0, <2>1, <2>2, KeepClaims, Zenon
<1>3. CASE c.done = 0 /\ ClaimFailed(t)
  <2>1. Claimed(t) = {}
    BY <1>0, <1>1, <1>3 DEF Claims
  <2> QED BY <1>0, <1>3, <2>1, FailedClaims, KeepClaims, Zenon
<1>4. CASE /\ pc' = [pc EXCEPT ![t] = "rollback"]
           /\ clm' = [clm EXCEPT ![t] = [c EXCEPT !.count = c.done,
                                                  !.done = 0, !.val = {}]]
  <2>1. /\ OthersClaims(t) /\ pc'[t] = "rollback"
        /\ clm'[t].start = c.start /\ clm'[t].done = 0 /\ clm'[t].count = c.done
    BY <1>0, <1>4, Zenon DEF LocalTypes, OthersClaims, Claims
  <2>2. Claimed(t)' = (c.start + 0) .. (c.start + c.done - 1)
    BY <2>1, Zenon DEF Claimed
  <2>3. Claimed(t)' = Claimed(t)
    BY <1>0, <1>1, <2>2 DEF Claims
  <2> QED BY <1>0, <2>1, <2>3, KeepClaims, Zenon
<1> QED BY <1>2, <1>3, <1>4, Zenon DEF ClaimCheck

(* Where a thread stands after a word of phase `here': the next word, or   *)
(* the first one of phase p.                                               *)
LEMMA NextWordPlace ==
    ASSUME IInv, NEW t \in Threads, pc[t] \in ClaimPCs, NEW here, NEW p,
           NextWordOr(t, here, p)
    PROVE  LET c == clm[t]
               d == clm'[t]
           IN  /\ OthersClaims(t)
               /\ d.start = c.start /\ d.count = c.count
               /\ \/ Complete(c) /\ pc'[t] = p /\ d.done = 0
                  \/ ~ Complete(c) /\ pc'[t] = here /\ d.done = c.done + PieceLen(c)
<1>1. LocalTypes /\ clm[t] \in Claims
  BY InClaim, Zenon
<1>2. OthersClaims(t)
  BY <1>1, Zenon DEF LocalTypes, NextWordOr, OthersClaims
<1>3. Advance(clm[t]).done = clm[t].done + PieceLen(clm[t])
  BY <1>1, Zenon DEF Advance, Claims
<1>4. /\ clm'[t].start = clm[t].start /\ clm'[t].count = clm[t].count
      /\ clm'[t].done = IF Complete(clm[t]) THEN 0 ELSE Advance(clm[t]).done
      /\ pc'[t] = IF Complete(clm[t]) THEN p ELSE here
  BY <1>1, Zenon DEF LocalTypes, Claims, NextWordOr
<1> QED BY <1>2, <1>3, <1>4, Zenon

(* The exchange takes pages that nobody had claimed. *)
LEMMA ClaimCasOkClaims ==
    ASSUME IInv, ClaimInv, NEW t \in Threads, ClaimCasOk(t)
    PROVE  ClaimInv'
<1> DEFINE c == clm[t]
           k == PieceLen(c)
<1>0. pc[t] = "cas" /\ pc[t] \in ClaimPCs /\ claim' = claim \cup Mask(c)
  BY Zenon DEF ClaimCasOk, ClaimPCs
<1>1. /\ c \in Claims /\ Local(t) /\ c.done < c.count
  BY <1>0, InClaim, Zenon
<1>2. k \in 1 .. c.count - c.done /\ Mask(c) \subseteq WordAt(c.start + c.done)
  BY <1>1, PieceFacts, Zenon
<1>3. Mask(c) \cap claim = {}
  <2>1. c.val \cap Mask(c) = {}
    BY <1>0, <1>1, Zenon DEF Local, CasOK
  <2>2. claim \cap WordAt(c.start + c.done) = c.val
    BY Zenon DEF ClaimCasOk
  <2> QED BY <1>2, <2>1, <2>2, Zenon
<1>4. Mask(c) = (c.start + c.done) .. (c.start + c.done + k - 1)
  BY Zenon DEF Mask
<1>5. Claimed(t) = c.start .. c.start + c.done - 1
  BY <1>0, Zenon DEF Claimed
<1> HIDE DEF k
<1>6. Claimed(t) \cup Mask(c) = c.start .. c.start + c.done + k - 1
  BY <1>1, <1>2, <1>4, <1>5, SMTT(30) DEF Claims
<1>7. /\ OthersClaims(t)
      /\ clm'[t].start = c.start /\ clm'[t].count = c.count
      /\ \/ Complete(c) /\ pc'[t] = "publish" /\ clm'[t].done = 0
         \/ ~ Complete(c) /\ pc'[t] = "load" /\ clm'[t].done = c.done + k
  BY <1>0, NextWordPlace, Zenon DEF ClaimCasOk, k
<1>8. Claimed(t)' = Claimed(t) \cup Mask(c)
  <2>1. CASE Complete(c)
    <3>1. Claimed(t)' = c.start .. c.start + c.count - 1
      BY <1>7, <2>1, Zenon DEF Claimed, Pages
    <3>2. c.count = c.done + k
      BY <2>1, Zenon DEF Complete, k
    <3>3. c.start + c.count - 1 = c.start + c.done + k - 1
      BY <3>2, <1>1, <1>2 DEF Claims
    <3> QED BY <1>6, <3>1, <3>3, Zenon
  <2>2. CASE ~ Complete(c)
    <3>1. Claimed(t)' = c.start .. c.start + (c.done + k) - 1
      BY <1>7, <2>2, Zenon DEF Claimed
    <3>2. c.start + (c.done + k) - 1 = c.start + c.done + k - 1
      BY <1>1, <1>2 DEF Claims
    <3> QED BY <1>6, <3>1, <3>2, Zenon
  <2> QED BY <2>1, <2>2, Zenon
<1> HIDE DEF c
<1> QED BY <1>0, <1>3, <1>7, <1>8, TakeClaims, Zenon

(* Publishing keeps the claims. *)
LEMMA PublishClaims ==
    ASSUME IInv, ClaimInv, NEW t \in Threads, Publish(t)
    PROVE  ClaimInv'
<1> DEFINE c == clm[t]
<1>0. pc[t] = "publish" /\ pc[t] \in ClaimPCs /\ claim' = claim
  BY Zenon DEF Publish, ClaimPCs
<1>1. c \in Claims
  BY <1>0, InClaim, Zenon
<1>2. Claimed(t) = c.start .. (c.start + c.count - 1)
  BY <1>0, Zenon DEF Claimed, Pages
<1>3. /\ OthersClaims(t)
      /\ clm'[t].start = c.start /\ clm'[t].count = c.count
      /\ pc'[t] = "publish" \/ (pc'[t] = "release" /\ clm'[t].done = 0)
  BY <1>0, NextWordPlace, Zenon DEF Publish
<1>4. \/ Claimed(t)' = c.start .. (c.start + c.count - 1)
      \/ Claimed(t)' = (c.start + 0) .. (c.start + c.count - 1)
  BY <1>3, Zenon DEF Claimed, Pages
<1>5. Claimed(t)' = Claimed(t)
  BY <1>1, <1>2, <1>4 DEF Claims
<1> QED BY <1>0, <1>3, <1>5, KeepClaims, Zenon

(* Dropping the claims of one word. *)
LEMMA DropWord ==
    ASSUME IInv, ClaimInv, NEW t \in Threads, pc[t] \in {"release", "rollback"},
           OthersClaims(t), claim' = claim \ Mask(clm[t]),
           \/ Complete(clm[t]) /\ Claimed(t)' = {}
           \/ /\ ~ Complete(clm[t])
              /\ clm' = [clm EXCEPT ![t] = Advance(clm[t])]
              /\ pc' = pc
    PROVE  ClaimInv'
<1> DEFINE c == clm[t]
           k == PieceLen(c)
           M == Mask(c)
<1>0. pc[t] \in ClaimPCs
  BY Zenon DEF ClaimPCs
<1>1. c \in Claims /\ LocalTypes /\ c.done < c.count
  BY <1>0, InClaim, Zenon
<1>2. k \in 1 .. c.count - c.done
  BY <1>1, PieceFacts, Zenon
<1>3. M = (c.start + c.done) .. (c.start + c.done + k - 1)
  BY Zenon DEF Mask
<1>4. Claimed(t) = (c.start + c.done) .. (c.start + c.count - 1)
  BY Zenon DEF Claimed
<1>5. CASE Complete(c) /\ Claimed(t)' = {}
  <2>1. c.count = c.done + k
    BY <1>5, Zenon DEF Complete
  <2> HIDE DEF k
  <2>2. M = Claimed(t)
    BY <1>1, <1>2, <1>3, <1>4, <2>1 DEF Claims
  <2> HIDE DEF M
  <2>3. claim' = claim \ M
    BY Zenon DEF M
  <2> QED BY <1>5, <2>2, <2>3, DropClaims, Zenon
<1>6. CASE clm' = [clm EXCEPT ![t] = Advance(c)] /\ pc' = pc
  <2>1. /\ clm'[t].start = c.start /\ clm'[t].count = c.count
        /\ clm'[t].done = c.done + k
    BY <1>1, <1>6, Zenon DEF LocalTypes, Claims, Advance
  <2>2. Claimed(t)' = (c.start + (c.done + k)) .. (c.start + c.count - 1)
    BY <1>6, <2>1, Zenon DEF Claimed
  <2> HIDE DEF k
  <2>3. Claimed(t)' = Claimed(t) \ M /\ M \subseteq Claimed(t)
    BY <1>1, <1>2, <1>3, <1>4, <2>2, SMTT(20) DEF Claims
  <2> HIDE DEF M
  <2>4. claim' = claim \ M
    BY Zenon DEF M
  <2> QED BY <2>3, <2>4, DropClaims, Zenon
<1> QED BY <1>5, <1>6, Zenon

(* Releasing drops the claims of one word of the run. *)
LEMMA ReleaseClaims ==
    ASSUME IInv, ClaimInv, NEW t \in Threads, Release(t)
    PROVE  ClaimInv'
<1>0. pc[t] = "release" /\ pc[t] \in ClaimPCs /\ claim' = claim \ Mask(clm[t])
  BY Zenon DEF Release, ClaimPCs
<1>1. LocalTypes
  BY <1>0, InClaim, Zenon
<1>2. CASE Complete(clm[t]) /\ Return(t)
  BY <1>0, <1>1, <1>2, ReturnClaims, DropWord, Zenon
<1>3. CASE /\ ~ Complete(clm[t])
           /\ clm' = [clm EXCEPT ![t] = Advance(clm[t])]
           /\ pc' = pc
  <2>1. OthersClaims(t)
    BY <1>1, <1>3, Zenon DEF LocalTypes, OthersClaims
  <2>2. pc[t] \in {"release", "rollback"}
    BY <1>0, Zenon
  <2> QED BY <1>0, <1>3, <2>1, <2>2, DropWord, Zenon
<1> QED BY <1>2, <1>3, Zenon DEF Release

(* Rolling back drops the claims of one word of the part. *)
LEMMA RollbackClaims ==
    ASSUME IInv, ClaimInv, NEW t \in Threads, RollbackClaim(t)
    PROVE  ClaimInv'
<1>0. pc[t] = "rollback" /\ pc[t] \in ClaimPCs /\ claim' = claim \ Mask(clm[t])
  BY Zenon DEF RollbackClaim, ClaimPCs
<1>1. LocalTypes
  BY <1>0, InClaim, Zenon
<1>2. CASE Complete(clm[t]) /\ ClaimFailed(t)
  BY <1>0, <1>1, <1>2, FailedClaims, DropWord, Zenon
<1>3. CASE /\ ~ Complete(clm[t])
           /\ clm' = [clm EXCEPT ![t] = Advance(clm[t])]
           /\ pc' = pc
  <2>1. OthersClaims(t)
    BY <1>1, <1>3, Zenon DEF LocalTypes, OthersClaims
  <2>2. pc[t] \in {"release", "rollback"}
    BY <1>0, Zenon
  <2> QED BY <1>0, <1>3, <2>1, <2>2, DropWord, Zenon
<1> QED BY <1>2, <1>3, Zenon DEF RollbackClaim

(* Clearing touches no claim. *)
LEMMA ClearBitClaims ==
    ASSUME IInv, ClaimInv, NEW t \in Threads, ClearBit(t)
    PROVE  ClaimInv'
<1>0. pc[t] = "clear" /\ Claimed(t) = {} /\ claim' = claim /\ LocalTypes
  BY TypeSplit, Zenon DEF IInv, ClearBit, Claimed
<1>1. CASE Return(t)
  BY <1>0, <1>1, ReturnClaims, KeepClaims, Zenon
<1>2. CASE clm' = [clm EXCEPT ![t].done = @ + 1] /\ pc' = pc
  <2>1. OthersClaims(t) /\ Claimed(t)' = {}
    BY <1>0, <1>2, Zenon DEF LocalTypes, OthersClaims, Claimed
  <2> QED BY <1>0, <2>1, KeepClaims, Zenon
<1> QED BY <1>1, <1>2, Zenon DEF ClearBit

(* Every step keeps the claims exclusive and accounted for. *)
LEMMA NextClaims == IInv /\ IInv' /\ ClaimInv /\ [Next]_vars => ClaimInv'
<1> SUFFICES ASSUME IInv, IInv', ClaimInv, [Next]_vars PROVE ClaimInv'
  BY Zenon
<1>1. CASE UNCHANGED vars
  BY <1>1 DEF vars, ClaimInv, ClaimExclusive, ClaimAccounted, Claimed, Pages
<1>2. ASSUME NEW t \in Threads, TryClaim(t) PROVE ClaimInv'
  <2>1. CASE ClaimLoad(t)
    <3> DEFINE v == claim \cap WordAt(clm[t].start + clm[t].done)
    <3>1. /\ pc[t] \in {"load", "cas"} /\ pc' = [pc EXCEPT ![t] = "check"]
          /\ clm' = [clm EXCEPT ![t].val = v] /\ claim' = claim
      BY <2>1, Zenon DEF ClaimLoad
    <3> HIDE DEF v
    <3> QED BY <3>1, ClaimLoadClaims, Zenon
  <2>2. CASE ClaimCasFail(t)
    <3> DEFINE v == claim \cap WordAt(clm[t].start + clm[t].done)
    <3>1. /\ pc[t] \in {"load", "cas"} /\ pc' = [pc EXCEPT ![t] = "check"]
          /\ clm' = [clm EXCEPT ![t].val = v] /\ claim' = claim
      BY <2>2, Zenon DEF ClaimCasFail
    <3> HIDE DEF v
    <3> QED BY <3>1, ClaimLoadClaims, Zenon
  <2> QED BY <1>2, <2>1, <2>2, ClaimCheckClaims, ClaimCasOkClaims, PublishClaims,
             RollbackClaims, Zenon DEF TryClaim
<1> QED BY <1>1, <1>2, RequestClaims, SearchClaims, ReleaseClaims, ClearBitClaims, Zenon
        DEF Next

(* Nothing is claimed at first. *)
LEMMA InitClaims == Init => ClaimInv
BY ZenonT(30) DEF Init, ClaimInv, ClaimExclusive, ClaimAccounted, Claimed

(* try_claim is a lock: for any number of threads, word size and segment   *)
(* length, no page is claimed by two threads, whatever happens between the *)
(* load of the claim word and the compare-exchange.                        *)
THEOREM ClaimsAreExclusive == Spec => []ClaimExclusive
<1>1. ClaimInv => ClaimExclusive
  BY Zenon DEF ClaimInv
<1> QED BY <1>1, InitIInv, NextIInv, InitClaims, NextClaims, PTL DEF Spec

(* try_claim, its release and rollback_claim leave no claim bit behind.    *)
THEOREM ClaimsAreAccounted == Spec => []ClaimAccounted
<1>1. ClaimInv => ClaimAccounted
  BY Zenon DEF ClaimInv
<1> QED BY <1>1, InitIInv, NextIInv, InitClaims, NextClaims, PTL DEF Spec

-----------------------------------------------------------------------------
(* The map bitmap: the invariant. *)

(* The pages a thread has claimed and not published. *)
Pending(t) ==
    LET c == clm[t]
    IN  CASE pc[t] \in {"load", "check", "cas"} -> c.start .. c.start + c.done - 1
          [] pc[t] \in {"publish", "rollback"} ->
                 (c.start + c.done) .. (c.start + c.count - 1)
          [] OTHER -> {}

(* What is owned, returned or given back belongs to one call or caller.    *)
Disjoint ==
    /\ \A t, u \in Threads : \A r \in held[t], q \in held[u] :
          (t # u \/ r # q) => Pages(r) \cap Pages(q) = {}
    /\ \A t, u \in Threads : \A r \in held[u] : Pages(r) \cap InTransit(t) = {}
    /\ \A t, u \in Threads : t # u => InTransit(t) \cap InTransit(u) = {}

Accounted ==
    \A b : b \in map <=> \/ \E t \in Threads : \E r \in held[t] : b \in Pages(r)
                         \/ \E t \in Threads : b \in InTransit(t)

(* Claimed pages that are not published are not in use. *)
PendingFree == \A t \in Threads : Pending(t) \cap map = {}

(* A page that came into use since a thread looked is still claimed: the   *)
(* thread's exchange will fail.                                            *)
CasSafe == \A t \in Threads : pc[t] = "cas" => Mask(clm[t]) \cap map \subseteq claim

(* realloc_inplace claims the pages behind its run. *)
GrowClaim(t) ==
    req[t].op = "grow" /\ pc[t] \in ClaimPCs \ {"rollback"} =>
        /\ clm[t].start = req[t].run.start + req[t].run.count
        /\ clm[t].start + clm[t].count = req[t].run.start + req[t].count

MapInv == Disjoint /\ Accounted /\ PendingFree /\ CasSafe /\ \A t \in Threads : GrowClaim(t)

-----------------------------------------------------------------------------
(* Steps of one thread. *)

(* What a step of thread t leaves alone. *)
LEMMA OthersFrame ==
    ASSUME NEW t \in Threads, Others(t)
    PROVE  \A u \in Threads \ {t} :
              /\ InTransit(u)' = InTransit(u) /\ Pending(u)' = Pending(u)
              /\ Mask(clm[u])' = Mask(clm[u]) /\ pc'[u] = pc[u]
              /\ GrowClaim(u) => GrowClaim(u)'
<1> SUFFICES ASSUME NEW u \in Threads \ {t}
             PROVE  /\ InTransit(u)' = InTransit(u) /\ Pending(u)' = Pending(u)
                    /\ Mask(clm[u])' = Mask(clm[u]) /\ pc'[u] = pc[u]
                    /\ GrowClaim(u) => GrowClaim(u)'
  BY Zenon
<1>1. pc'[u] = pc[u] /\ clm'[u] = clm[u] /\ req'[u] = req[u]
  BY Zenon DEF Others
<1>2. InTransit(u)' = InTransit(u)
  BY <1>1, Zenon DEF InTransit, Pages
<1>3. Pending(u)' = Pending(u)
  BY <1>1, Zenon DEF Pending
<1>4. Mask(clm[u])' = Mask(clm[u])
  BY <1>1, Zenon
<1>5. GrowClaim(u) => GrowClaim(u)'
  BY <1>1, Zenon DEF GrowClaim
<1> QED BY <1>1, <1>2, <1>3, <1>4, <1>5, Zenon

(* A thread's pages that are not published are among its claims. *)
LEMMA PendingClaimed ==
    ASSUME IInv, NEW t \in Threads
    PROVE  Pending(t) \subseteq Claimed(t)
<1>1. CASE pc[t] \in {"load", "check", "cas"}
  BY <1>1, Zenon DEF Pending, Claimed
<1>2. CASE pc[t] = "rollback"
  BY <1>2, Zenon DEF Pending, Claimed
<1>3. CASE pc[t] = "publish"
  <2>1. clm[t] \in Claims
    BY <1>3, InClaim, Zenon DEF ClaimPCs
  <2>2. /\ Pending(t) = (clm[t].start + clm[t].done) .. (clm[t].start + clm[t].count - 1)
        /\ Claimed(t) = clm[t].start .. (clm[t].start + clm[t].count - 1)
    BY <1>3, Zenon DEF Pending, Claimed, Pages
  <2> QED BY <2>1, <2>2 DEF Claims
<1>4. CASE pc[t] \notin {"load", "check", "cas", "publish", "rollback"}
  BY <1>4, Zenon DEF Pending
<1> QED BY <1>1, <1>2, <1>3, <1>4, Zenon

(* Steps that change neither the map nor who owns what. *)
LEMMA KeepMap ==
    ASSUME MapInv, NEW t \in Threads, Others(t), map' = map, held' = held,
           InTransit(t)' = InTransit(t), Pending(t)' \cap map = {},
           pc'[t] = "cas" => Mask(clm[t])' \cap map \subseteq claim',
           \A u \in Threads \ {t} : pc[u] = "cas" => Mask(clm[u]) \cap map \subseteq claim',
           GrowClaim(t)'
    PROVE  MapInv'
<1>1. \A u \in Threads : InTransit(u)' = InTransit(u)
  BY OthersFrame, Zenon
<1>2. Disjoint'
  BY <1>1 DEF MapInv, Disjoint
<1>3. Accounted'
  BY <1>1, ZenonT(30) DEF MapInv, Accounted
<1>4. PendingFree'
  BY OthersFrame, Zenon DEF MapInv, PendingFree
<1>5. CasSafe'
  BY OthersFrame, Zenon DEF MapInv, CasSafe
<1>6. \A u \in Threads : GrowClaim(u)'
  BY OthersFrame, Zenon DEF MapInv
<1> QED BY <1>2, <1>3, <1>4, <1>5, <1>6, Zenon DEF MapInv

(* Outside try_claim and the rollbacks a thread has nothing in hand. *)
LEMMA NothingInHand ==
    ASSUME NEW t \in Threads, pc[t] \notin ClaimPCs \cup {"clear"}
    PROVE  InTransit(t) = {} /\ Pending(t) = {} /\ GrowClaim(t)
BY Zenon DEF ClaimPCs, InTransit, Pending, GrowClaim

(* The same, after a step. *)
LEMMA NothingInHandNext ==
    ASSUME NEW t \in Threads, pc'[t] \notin ClaimPCs \cup {"clear"}
    PROVE  InTransit(t)' = {} /\ Pending(t)' = {} /\ GrowClaim(t)' /\ pc'[t] # "cas"
BY Zenon DEF ClaimPCs, InTransit, Pending, GrowClaim

(* Entering try_claim. *)
LEMMA StartMap ==
    ASSUME MapInv, LocalTypes, LocalTypes', NEW t \in Threads, NEW a, NEW n,
           StartClaim(t, a, n), UNCHANGED <<map, claim, held>>, Others(t),
           InTransit(t) = {},
           req'[t].op = "grow" => /\ a = req'[t].run.start + req'[t].run.count
                                  /\ a + n = req'[t].run.start + req'[t].count
    PROVE  MapInv'
<1>1. pc'[t] = "load" /\ clm'[t].start = a /\ clm'[t].count = n /\ clm'[t].done = 0
  BY Zenon DEF LocalTypes, StartClaim
<1>2. InTransit(t)' = {}
  BY <1>1, Zenon DEF InTransit
<1>3. Pending(t)' = a .. a + 0 - 1 /\ a \in Nat
  BY <1>1, Zenon DEF Pending, LocalTypes, Claims
<1>4. Pending(t)' = {}
  BY <1>3
<1>5. GrowClaim(t)'
  BY <1>1, Zenon DEF GrowClaim
<1>6. \A u \in Threads \ {t} : pc[u] = "cas" => Mask(clm[u]) \cap map \subseteq claim'
  BY Zenon DEF MapInv, CasSafe
<1> QED BY <1>1, <1>2, <1>4, <1>5, <1>6, KeepMap, Zenon

(* A call that returns, or goes on searching, with nothing in hand. *)
LEMMA IdleMap ==
    ASSUME MapInv, NEW t \in Threads, Others(t), UNCHANGED <<map, claim, held>>,
           InTransit(t) = {}, pc'[t] \notin ClaimPCs \cup {"clear"}
    PROVE  MapInv'
<1>1. \A u \in Threads \ {t} : pc[u] = "cas" => Mask(clm[u]) \cap map \subseteq claim'
  BY Zenon DEF MapInv, CasSafe
<1> QED BY <1>1, NothingInHandNext, KeepMap, Zenon

-----------------------------------------------------------------------------
(* Requests. *)

(* A run is given back, all of it or all but a part K. *)
LEMMA GiveBack ==
    ASSUME IInv, MapInv, NEW t \in Threads, Others(t), UNCHANGED <<map, claim>>,
           NEW r \in held[t], NEW K,
           held' = [held EXCEPT ![t] = (@ \ {r}) \cup K],
           \A p, q \in K : p = q,
           \A q \in K : Pages(q) \subseteq Pages(r) /\ Pages(q) \cap InTransit(t)' = {},
           InTransit(t) = {}, InTransit(t)' \subseteq Pages(r),
           \A b \in Pages(r) : b \in InTransit(t)' \/ \E q \in K : b \in Pages(q),
           Pending(t)' = {}, pc'[t] # "cas", GrowClaim(t)'
    PROVE  MapInv'
<1>1. /\ held'[t] = (held[t] \ {r}) \cup K
      /\ \A u \in Threads \ {t} : held'[u] = held[u] /\ InTransit(u)' = InTransit(u)
  BY OthersFrame, Zenon DEF IInv, TypeOK
<1>12. ASSUME NEW u \in Threads, NEW q \in held'[u]
       PROVE  (q \in held[u] /\ (u # t \/ q # r)) \/ (u = t /\ q \in K)
  <2>1. CASE u = t
    BY <1>1, <1>12, <2>1, Zenon
  <2>2. CASE u # t
    BY <1>1, <1>12, <2>2, Zenon
  <2> QED BY <2>1, <2>2, Zenon
<1>2. \A u \in Threads : \A q \in held[u] :
         u # t \/ q # r => Pages(q) \cap Pages(r) = {}
  BY Zenon DEF MapInv, Disjoint
<1>3. \A u \in Threads : InTransit(u) \cap Pages(r) = {}
  BY Zenon DEF MapInv, Disjoint
<1>4. \A u, v \in Threads : \A p \in held'[u], q \in held'[v] :
         (u # v \/ p # q) => Pages(p) \cap Pages(q) = {}
  <2> SUFFICES ASSUME NEW u \in Threads, NEW v \in Threads, NEW p \in held'[u],
                      NEW q \in held'[v], u # v \/ p # q
               PROVE  Pages(p) \cap Pages(q) = {}
    BY Zenon
  <2>1. (p \in held[u] /\ (u # t \/ p # r)) \/ (u = t /\ p \in K)
    BY <1>12, Zenon
  <2>2. (q \in held[v] /\ (v # t \/ q # r)) \/ (v = t /\ q \in K)
    BY <1>12, Zenon
  <2>3. CASE p \in held[u] /\ q \in held[v]
    BY <2>3, ZenonT(30) DEF MapInv, Disjoint
  <2>4. CASE p \in K /\ q \in K
    BY <1>1, <1>2, <2>1, <2>2, <2>4, ZenonT(30)
  <2>5. CASE p \in K /\ q \in held[v] /\ (v # t \/ q # r)
    BY <1>2, <2>5, Zenon
  <2>6. CASE q \in K /\ p \in held[u] /\ (u # t \/ p # r)
    BY <1>2, <2>6, Zenon
  <2> QED BY <2>1, <2>2, <2>3, <2>4, <2>5, <2>6, ZenonT(30)
<1>5. \A u, v \in Threads : \A q \in held'[v] : Pages(q) \cap InTransit(u)' = {}
  <2> SUFFICES ASSUME NEW u \in Threads, NEW v \in Threads, NEW q \in held'[v]
               PROVE  Pages(q) \cap InTransit(u)' = {}
    BY Zenon
  <2>1. (q \in held[v] /\ (v # t \/ q # r)) \/ (v = t /\ q \in K)
    BY <1>12, Zenon
  <2>2. CASE u = t
    BY <1>2, <2>1, <2>2, Zenon
  <2>3. CASE u # t /\ q \in K
    BY <1>1, <1>3, <2>3
  <2>4. CASE u # t /\ q \in held[v]
    BY <1>1, <2>4, Zenon DEF MapInv, Disjoint
  <2> QED BY <2>1, <2>2, <2>3, <2>4, Zenon
<1>6. \A u, v \in Threads : u # v => InTransit(u)' \cap InTransit(v)' = {}
  BY <1>1, <1>3 DEF MapInv, Disjoint
<1>7. Disjoint'
  BY <1>4, <1>5, <1>6, Zenon DEF Disjoint
<1>8. Accounted'
  <2> SUFFICES ASSUME NEW b
               PROVE  b \in map' <=> \/ \E u \in Threads : \E q \in held'[u] : b \in Pages(q)
                                     \/ \E u \in Threads : b \in InTransit(u)'
    BY Zenon DEF Accounted
  <2>1. b \in map' <=> \/ \E u \in Threads : \E q \in held[u] : b \in Pages(q)
                       \/ \E u \in Threads : b \in InTransit(u)
    BY Zenon DEF MapInv, Accounted
  <2>2. ASSUME NEW u \in Threads, NEW q \in held[u], b \in Pages(q)
        PROVE  \/ \E v \in Threads : \E p \in held'[v] : b \in Pages(p)
               \/ \E v \in Threads : b \in InTransit(v)'
    <3>1. CASE u = t /\ q = r
      BY <1>1, <2>2, <3>1, Zenon
    <3>2. CASE u # t \/ q # r
      <4>1. q \in held'[u]
        BY <1>1, <3>2, Zenon
      <4> QED BY <2>2, <4>1, Zenon
    <3> QED BY <3>1, <3>2, Zenon
  <2>3. ASSUME NEW u \in Threads, b \in InTransit(u)
        PROVE  b \in InTransit(u)'
    BY <1>1, <2>3, Zenon
  <2>4. ASSUME NEW u \in Threads, NEW q \in held'[u], b \in Pages(q)
        PROVE  \E v \in Threads : \E p \in held[v] : b \in Pages(p)
    BY <1>1, <2>4, Zenon
  <2>5. ASSUME NEW u \in Threads, b \in InTransit(u)'
        PROVE  \/ \E v \in Threads : \E p \in held[v] : b \in Pages(p)
               \/ b \in InTransit(u)
    BY <1>1, <2>5, Zenon
  <2> QED BY <2>1, <2>2, <2>3, <2>4, <2>5, Zenon
<1>9. PendingFree'
  BY OthersFrame, Zenon DEF MapInv, PendingFree
<1>10. CasSafe'
  BY OthersFrame, Zenon DEF MapInv, CasSafe
<1>11. \A u \in Threads : GrowClaim(u)'
  BY OthersFrame, Zenon DEF MapInv
<1> QED BY <1>7, <1>8, <1>9, <1>10, <1>11, ZenonT(30) DEF MapInv

(* Giving back begins at the first page. *)
LEMMA ClearStart ==
    ASSUME LocalTypes', NEW t \in Threads, pc'[t] = "clear", clm'[t].done = 0
    PROVE  /\ InTransit(t)' = clm'[t].start .. (clm'[t].start + clm'[t].count - 1)
           /\ Pending(t)' = {} /\ GrowClaim(t)'
<1>1. InTransit(t)' = (clm'[t].start + 0) .. (clm'[t].start + clm'[t].count - 1)
  BY Zenon DEF InTransit
<1>2. clm'[t].start \in Nat
  BY Zenon DEF LocalTypes, Claims
<1>3. Pending(t)' = {} /\ GrowClaim(t)'
  BY Zenon DEF Pending, GrowClaim, ClaimPCs
<1> QED BY <1>1, <1>2, <1>3

(* free: the pages of the run pass from the caller to the call. *)
LEMMA FreeMap ==
    ASSUME IInv, IInv', MapInv, NEW t \in Threads, NEW r \in held[t], Free(t, r)
    PROVE  MapInv'
<1>0. LocalTypes /\ LocalTypes' /\ r \in Runs /\ held[t] \in SUBSET Runs
  BY Zenon DEF IInv, TypeOK, LocalTypes, Scans, Claims
<1>1. /\ Others(t) /\ pc[t] = "idle" /\ pc'[t] = "clear" /\ clm'[t].done = 0
      /\ clm'[t].start = r.start /\ clm'[t].count = r.count
      /\ UNCHANGED <<map, claim>>
  BY <1>0, Zenon DEF Free, Call, LocalTypes, Others
<1>2. held' = [held EXCEPT ![t] = (@ \ {r}) \cup {}]
  <2>1. held' = [held EXCEPT ![t] = @ \ {r}]
    BY Zenon DEF Free
  <2>2. (held[t] \ {r}) \cup {} = held[t] \ {r}
    BY Zenon
  <2> QED BY <2>1, <2>2, Zenon
<1>3. InTransit(t)' = Pages(r) /\ Pending(t)' = {} /\ GrowClaim(t)'
  BY <1>0, <1>1, ClearStart, Zenon DEF Pages
<1>4. InTransit(t) = {}
  BY <1>1, Zenon DEF InTransit
<1> DEFINE K == {}
<1>5. /\ held' = [held EXCEPT ![t] = (@ \ {r}) \cup K]
      /\ \A p, q \in K : p = q
      /\ \A q \in K : Pages(q) \subseteq Pages(r) /\ Pages(q) \cap InTransit(t)' = {}
      /\ \A b \in Pages(r) : b \in InTransit(t)' \/ \E q \in K : b \in Pages(q)
  BY <1>2, <1>3, Zenon
<1> HIDE DEF K
<1>6. InTransit(t)' \subseteq Pages(r) /\ pc'[t] # "cas"
  BY <1>1, <1>3, Zenon
<1>7. Pending(t)' = {} /\ GrowClaim(t)' /\ Others(t) /\ UNCHANGED <<map, claim>>
  BY <1>1, <1>3, Zenon
<1> QED BY <1>4, <1>5, <1>6, <1>7, GiveBack, ZenonT(30)

(* A shrinking realloc_inplace: the tail passes from the caller to the call. *)
LEMMA ShrinkMap ==
    ASSUME IInv, IInv', MapInv, NEW t \in Threads, NEW r \in held[t],
           NEW n \in 1 .. MaxCount, Shrink(t, r, n)
    PROVE  MapInv'
<1> DEFINE q == [r EXCEPT !.count = n]
           K == {q}
<1>0. LocalTypes /\ LocalTypes' /\ r \in Runs /\ n \in Nat
  BY SegmentAssumption DEF IInv, TypeOK, LocalTypes, Scans, Claims
<1>1. /\ Others(t) /\ pc[t] = "idle" /\ pc'[t] = "clear" /\ clm'[t].done = 0
      /\ clm'[t].start = r.start + n /\ clm'[t].count = r.count - n
      /\ UNCHANGED <<map, claim>> /\ n < r.count
  BY <1>0, Zenon DEF Shrink, Call, LocalTypes, Others
<1>2. held' = [held EXCEPT ![t] = (@ \ {r}) \cup K]
  BY Zenon DEF Shrink
<1>3. /\ InTransit(t)' = (r.start + n) .. ((r.start + n) + (r.count - n) - 1)
      /\ Pending(t)' = {} /\ GrowClaim(t)'
  BY <1>0, <1>1, ClearStart, Zenon
<1>4. Pages(q) = r.start .. (r.start + n - 1) /\ Pages(r) = r.start .. (r.start + r.count - 1)
  BY <1>0, Zenon DEF Pages, Runs
<1>5. InTransit(t) = {}
  BY <1>1, Zenon DEF InTransit
<1> HIDE DEF q
<1>6. /\ Pages(q) \subseteq Pages(r) /\ Pages(q) \cap InTransit(t)' = {}
      /\ InTransit(t)' \subseteq Pages(r)
      /\ \A b \in Pages(r) : b \in InTransit(t)' \/ b \in Pages(q)
  BY <1>0, <1>1, <1>3, <1>4, SegmentAssumption, SMTT(30) DEF Runs, Bits
<1>7. /\ \A p, s \in K : p = s
      /\ \A s \in K : Pages(s) \subseteq Pages(r) /\ Pages(s) \cap InTransit(t)' = {}
      /\ \A b \in Pages(r) : b \in InTransit(t)' \/ \E s \in K : b \in Pages(s)
  BY <1>6, Zenon
<1> HIDE DEF K
<1>8. InTransit(t)' \subseteq Pages(r) /\ pc'[t] # "cas"
  BY <1>1, <1>6, Zenon
<1>9. Pending(t)' = {} /\ GrowClaim(t)' /\ Others(t) /\ UNCHANGED <<map, claim>>
  BY <1>1, <1>3, Zenon
<1> QED BY <1>2, <1>5, <1>7, <1>8, <1>9, GiveBack, ZenonT(30)

(* A run passes from one caller to another. *)
LEMMA HandMap ==
    ASSUME IInv, MapInv, NEW t \in Threads, NEW u \in Threads, NEW r \in held[t], Hand(t, u, r)
    PROVE  MapInv'
<1>0. held \in [Threads -> SUBSET Runs]
  BY Zenon DEF IInv, TypeOK
<1>1. /\ t # u /\ held'[t] = held[t] \ {r} /\ held'[u] = held[u] \cup {r}
      /\ \A v \in Threads \ {t, u} : held'[v] = held[v]
  BY <1>0, Zenon DEF Hand
<1>2. UNCHANGED <<map, claim, pc, req, clm>>
  BY Zenon DEF Hand
<1>3. \A v \in Threads : InTransit(v)' = InTransit(v) /\ Pending(v)' = Pending(v)
  BY <1>2, Zenon DEF InTransit, Pending, Pages
<1>4. ASSUME NEW v \in Threads, NEW q \in held'[v]
      PROVE  (q \in held[v] /\ ~(v = t /\ q = r)) \/ (v = u /\ q = r)
  <2>1. CASE v = t
    BY <1>1, <1>4, <2>1, Zenon
  <2>2. CASE v = u
    BY <1>1, <1>4, <2>2, Zenon
  <2>3. CASE v \notin {t, u}
    BY <1>1, <1>4, <2>3, Zenon
  <2> QED BY <2>1, <2>2, <2>3, Zenon
<1>5. \A v, w \in Threads : \A p \in held'[v], q \in held'[w] :
         (v # w \/ p # q) => Pages(p) \cap Pages(q) = {}
  <2> SUFFICES ASSUME NEW v \in Threads, NEW w \in Threads, NEW p \in held'[v],
                      NEW q \in held'[w], v # w \/ p # q
               PROVE  Pages(p) \cap Pages(q) = {}
    BY Zenon
  <2>1. (p \in held[v] /\ ~(v = t /\ p = r)) \/ (v = u /\ p = r)
    BY <1>4, Zenon
  <2>2. (q \in held[w] /\ ~(w = t /\ q = r)) \/ (w = u /\ q = r)
    BY <1>4, Zenon
  <2>3. CASE p \in held[v] /\ q \in held[w]
    BY <2>3, Zenon DEF MapInv, Disjoint
  <2>4. CASE v = u /\ p = r /\ w = u /\ q = r
    BY <2>4, Zenon
  <2>5. CASE v = u /\ p = r /\ q \in held[w] /\ ~(w = t /\ q = r)
    BY <2>5, ZenonT(30) DEF MapInv, Disjoint
  <2>6. CASE w = u /\ q = r /\ p \in held[v] /\ ~(v = t /\ p = r)
    BY <2>6, Zenon DEF MapInv, Disjoint
  <2> QED BY <2>1, <2>2, <2>3, <2>4, <2>5, <2>6, Zenon
<1>6. \A v, w \in Threads : \A q \in held'[w] : Pages(q) \cap InTransit(v)' = {}
  BY <1>3, <1>4 DEF MapInv, Disjoint
<1>7. Disjoint'
  BY <1>3, <1>5, <1>6, Zenon DEF MapInv, Disjoint
<1>8. \A b : (\E v \in Threads : \E q \in held[v] : b \in Pages(q))
               <=> (\E v \in Threads : \E q \in held'[v] : b \in Pages(q))
  <2>1. ASSUME NEW b, NEW v \in Threads, NEW q \in held[v], b \in Pages(q)
        PROVE  \E w \in Threads : \E p \in held'[w] : b \in Pages(p)
    <3>1. CASE v = t /\ q = r
      BY <1>1, <2>1, <3>1, Zenon
    <3>2. CASE v = t /\ q # r
      BY <1>1, <2>1, <3>2, Zenon
    <3>3. CASE v # t
      <4>1. q \in held'[v]
        BY <1>1, <3>3, Zenon
      <4> QED BY <2>1, <4>1, Zenon
    <3> QED BY <3>1, <3>2, <3>3, Zenon
  <2>2. ASSUME NEW b, NEW v \in Threads, NEW q \in held'[v], b \in Pages(q)
        PROVE  \E w \in Threads : \E p \in held[w] : b \in Pages(p)
    BY <1>4, <2>2, Zenon
  <2> QED BY <2>1, <2>2, Zenon
<1>9. Accounted'
  BY <1>2, <1>3, <1>8, Zenon DEF MapInv, Accounted
<1>10. PendingFree' /\ CasSafe'
  BY <1>2, <1>3, Zenon DEF MapInv, PendingFree, CasSafe
<1>11. \A v \in Threads : GrowClaim(v)'
  BY <1>2, Zenon DEF MapInv, GrowClaim
<1> QED BY <1>7, <1>9, <1>10, <1>11, Zenon DEF MapInv

(* Requests move pages between callers and calls, and change no bit. *)
LEMMA RequestMap ==
    ASSUME IInv, IInv', MapInv, NEW t \in Threads, Request(t)
    PROVE  MapInv'
<1>0. LocalTypes /\ LocalTypes'
  BY Zenon DEF IInv, TypeOK, LocalTypes, Scans, Claims
<1>1. CASE AllocSingle(t)
  <2>1. /\ Others(t) /\ UNCHANGED <<map, claim, held>> /\ pc[t] = "idle" /\ pc'[t] = "single"
    BY <1>0, <1>1, Zenon DEF AllocSingle, Call, LocalTypes, Others
  <2> QED BY <2>1, NothingInHand, IdleMap, Zenon DEF ClaimPCs
<1>2. ASSUME NEW n \in 2 .. MaxCount, AllocMulti(t, n) PROVE MapInv'
  <2>1. /\ Others(t) /\ UNCHANGED <<map, claim, held>> /\ pc[t] = "idle" /\ pc'[t] = "multi"
    BY <1>0, <1>2, Zenon DEF AllocMulti, Call, LocalTypes, Others
  <2> QED BY <2>1, NothingInHand, IdleMap, Zenon DEF ClaimPCs
<1>3. ASSUME NEW r \in held[t], NEW n \in 1 .. MaxCount, Grow(t, r, n) PROVE MapInv'
  <2>1. /\ Others(t) /\ UNCHANGED <<map, claim, held>> /\ pc[t] = "idle"
        /\ StartClaim(t, r.start + r.count, n - r.count)
        /\ req'[t] = [op |-> "grow", count |-> n, run |-> r]
    BY <1>0, <1>3, Zenon DEF Grow, Call, StartClaim, LocalTypes, Others
  <2>2. r \in Runs /\ n \in Nat
    BY SegmentAssumption DEF IInv, TypeOK
  <2>3. /\ r.start + r.count = req'[t].run.start + req'[t].run.count
        /\ (r.start + r.count) + (n - r.count) = req'[t].run.start + req'[t].count
    BY <2>1, <2>2, SegmentAssumption DEF Runs, Bits
  <2>4. InTransit(t) = {}
    BY <2>1, Zenon DEF InTransit
  <2> QED BY <1>0, <2>1, <2>3, <2>4, StartMap, Zenon
<1> QED BY <1>1, <1>2, <1>3, FreeMap, ShrinkMap, HandMap, Zenon DEF Request

-----------------------------------------------------------------------------
(* Searches. *)

(* Searches read the bitmaps only. *)
LEMMA SearchMap ==
    ASSUME IInv, IInv', MapInv, NEW t \in Threads, Search(t)
    PROVE  MapInv'
<1>0. LocalTypes /\ LocalTypes' /\ Local(t)
  BY SMTT(20) DEF IInv, TypeOK, LocalTypes, Scans, Claims
<1>1. pc[t] \in {"single", "pick", "multi", "carry"} /\ UNCHANGED <<map, claim, held>>
  BY Zenon DEF Search, LoadWord, PickBit, ScanMulti, EndPass, CarryOver
<1>2. InTransit(t) = {}
  BY <1>1, Zenon DEF InTransit
<1>3. req[t].op # "grow"
  BY <1>0, <1>1, Zenon DEF Local, SingleOK, MultiOK
<1>4. \/ /\ UNCHANGED <<clm, req>>
         /\ \E s : scan' = [scan EXCEPT ![t] = s]
         /\ \E p \in {"single", "pick", "multi", "carry"} : pc' = [pc EXCEPT ![t] = p]
      \/ Return(t)
      \/ /\ \E a, n : StartClaim(t, a, n)
         /\ req' = req /\ \E s : scan' = [scan EXCEPT ![t] = s]
  <2>0. pc = [pc EXCEPT ![t] = pc[t]]
    BY <1>0, Zenon DEF LocalTypes
  <2>1. CASE LoadWord(t)
    BY <2>1, Zenon DEF LoadWord
  <2>2. CASE PickBit(t)
    BY <2>2, Zenon DEF PickBit
  <2>3. CASE ScanMulti(t)
    <3>1. \/ UNCHANGED <<clm, pc>> /\ \E s : scan' = [scan EXCEPT ![t] = s]
          \/ (\E a, n : StartClaim(t, a, n)) /\ \E s : scan' = [scan EXCEPT ![t] = s]
      BY <2>3, Zenon DEF ScanMulti, MoveOn, ClaimRun
    <3>2. req' = req
      BY <2>3, Zenon DEF ScanMulti
    <3> QED BY <1>1, <2>0, <3>1, <3>2, Zenon
  <2>4. CASE EndPass(t)
    <3>1. \/ UNCHANGED <<clm, pc, req>> /\ \E s : scan' = [scan EXCEPT ![t] = s]
          \/ UNCHANGED <<clm, req>> /\ pc' = [pc EXCEPT ![t] = "carry"]
             /\ \E s : scan' = [scan EXCEPT ![t] = s]
          \/ Return(t)
      BY <2>4, Zenon DEF EndPass, MoveOn
    <3> QED BY <1>1, <2>0, <3>1, Zenon
  <2>5. CASE CarryOver(t)
    <3>1. \/ UNCHANGED <<clm, pc, req>> /\ \E s : scan' = [scan EXCEPT ![t] = s]
          \/ (\E a, n : StartClaim(t, a, n)) /\ req' = req
             /\ \E s : scan' = [scan EXCEPT ![t] = s]
          \/ Return(t)
      BY <2>5, Zenon DEF CarryOver, MoveOn
    <3> QED BY <1>1, <2>0, <3>1, Zenon
  <2> QED BY <2>1, <2>2, <2>3, <2>4, <2>5, Zenon DEF Search
<1>5. ASSUME UNCHANGED <<clm, req>>, NEW s, scan' = [scan EXCEPT ![t] = s],
             NEW p \in {"single", "pick", "multi", "carry"}, pc' = [pc EXCEPT ![t] = p]
      PROVE  MapInv'
  <2>1. Others(t) /\ pc'[t] \notin ClaimPCs \cup {"clear"}
    BY <1>0, <1>5, Zenon DEF LocalTypes, Others, ClaimPCs
  <2> QED BY <1>1, <1>2, <2>1, IdleMap, Zenon
<1>6. CASE Return(t)
  <2>1. Others(t) /\ pc'[t] \notin ClaimPCs \cup {"clear"}
    BY <1>0, <1>6, Zenon DEF LocalTypes, Others, ClaimPCs, Return
  <2> QED BY <1>1, <1>2, <2>1, IdleMap, Zenon
<1>7. ASSUME NEW a, NEW n, StartClaim(t, a, n), req' = req,
             NEW s, scan' = [scan EXCEPT ![t] = s]
      PROVE  MapInv'
  <2>1. Others(t)
    BY <1>0, <1>7, Zenon DEF LocalTypes, Others, StartClaim
  <2> QED BY <1>0, <1>1, <1>2, <1>3, <1>7, <2>1, StartMap, Zenon
<1> QED BY <1>4, <1>5, <1>6, <1>7, Zenon

-----------------------------------------------------------------------------
(* try_claim. *)

(* Loading a claim word, or learning it from a failed exchange. *)
LEMMA ClaimLoadMap ==
    ASSUME IInv, IInv', MapInv, NEW t \in Threads,
           pc[t] \in {"load", "cas"}, pc' = [pc EXCEPT ![t] = "check"],
           NEW v, clm' = [clm EXCEPT ![t].val = v],
           UNCHANGED <<map, claim, held, req, scan>>
    PROVE  MapInv'
<1>0. LocalTypes
  BY TypeSplit, Zenon DEF IInv
<1>1. /\ Others(t) /\ pc'[t] = "check" /\ clm'[t].start = clm[t].start
      /\ clm'[t].count = clm[t].count /\ clm'[t].done = clm[t].done
  BY <1>0, Zenon DEF LocalTypes, Others, Claims
<1>2. Pending(t)' = Pending(t) /\ InTransit(t)' = InTransit(t)
  BY <1>1, Zenon DEF Pending, InTransit
<1>3. GrowClaim(t)'
  BY <1>1, Zenon DEF MapInv, GrowClaim, ClaimPCs
<1>4. \A u \in Threads \ {t} : pc[u] = "cas" => Mask(clm[u]) \cap map \subseteq claim'
  BY Zenon DEF MapInv, CasSafe
<1>5. Pending(t)' \cap map = {} /\ pc'[t] # "cas"
  BY <1>1, <1>2, Zenon DEF MapInv, PendingFree
<1> QED BY <1>1, <1>2, <1>3, <1>4, <1>5, KeepMap, ZenonT(30)

(* A thread goes on to its exchange when it saw its pages unused. *)
LEMMA ClaimCheckMap ==
    ASSUME IInv, IInv', MapInv, NEW t \in Threads, ClaimCheck(t)
    PROVE  MapInv'
<1> DEFINE c == clm[t]
<1>0. /\ pc[t] = "check" /\ pc[t] \in ClaimPCs /\ UNCHANGED <<map, claim, held>>
      /\ LocalTypes /\ Local(t) /\ c \in Claims
  BY InClaim, Zenon DEF ClaimCheck, ClaimPCs
<1>1. InTransit(t) = {} /\ Pending(t) = c.start .. c.start + c.done - 1
  BY <1>0, Zenon DEF InTransit, Pending
<1>2. \A u \in Threads \ {t} : pc[u] = "cas" => Mask(clm[u]) \cap map \subseteq claim'
  BY <1>0, Zenon DEF MapInv, CasSafe
<1>3. CASE /\ (c.val \cup map) \cap Mask(c) = {}
           /\ pc' = [pc EXCEPT ![t] = "cas"] /\ UNCHANGED <<req, scan, clm>>
  <2>1. Others(t) /\ pc'[t] = "cas" /\ clm'[t] = c /\ req'[t] = req[t]
    BY <1>0, <1>3, Zenon DEF LocalTypes, Others
  <2>2. Pending(t)' = Pending(t) /\ InTransit(t)' = {}
    BY <1>1, <2>1, Zenon DEF Pending, InTransit
  <2>3. GrowClaim(t)'
    BY <1>0, <2>1, Zenon DEF MapInv, GrowClaim, ClaimPCs
  <2>4. Mask(clm[t])' \cap map = {}
    BY <1>3, Zenon
  <2>5. Pending(t)' \cap map = {}
    BY <2>2, Zenon DEF MapInv, PendingFree
  <2> QED BY <1>0, <1>1, <1>2, <2>1, <2>2, <2>3, <2>4, <2>5, KeepMap, ZenonT(30)
<1>4. CASE ClaimFailed(t)
  <2>1. Others(t)
    BY <1>0, <1>4, ClaimFailedFacts, Zenon
  <2>2. pc'[t] \in {"pick", "multi", "idle"}
    BY <1>0, <1>4, Zenon DEF LocalTypes, ClaimFailed, Return
  <2> QED BY <1>0, <1>1, <2>1, <2>2, IdleMap, Zenon DEF ClaimPCs
<1>5. CASE /\ pc' = [pc EXCEPT ![t] = "rollback"]
           /\ clm' = [clm EXCEPT ![t] = [c EXCEPT !.count = c.done,
                                                  !.done = 0, !.val = {}]]
           /\ UNCHANGED <<req, scan>>
  <2>1. /\ Others(t) /\ pc'[t] = "rollback"
        /\ clm'[t].start = c.start /\ clm'[t].done = 0 /\ clm'[t].count = c.done
    BY <1>0, <1>5, Zenon DEF LocalTypes, Others, Claims
  <2>2. Pending(t)' = (c.start + 0) .. (c.start + c.done - 1) /\ InTransit(t)' = {}
    BY <2>1, Zenon DEF Pending, InTransit
  <2>3. Pending(t)' = Pending(t)
    BY <1>0, <1>1, <2>2 DEF Claims
  <2>4. GrowClaim(t)' /\ pc'[t] # "cas"
    BY <2>1, Zenon DEF GrowClaim
  <2>5. Pending(t)' \cap map = {}
    BY <2>3, Zenon DEF MapInv, PendingFree
  <2> QED BY <1>0, <1>1, <1>2, <2>1, <2>2, <2>4, <2>5, KeepMap, ZenonT(30)
<1> QED BY <1>3, <1>4, <1>5, Zenon DEF ClaimCheck

(* The pages an exchange takes are not in use: those that came into use    *)
(* since the thread looked are claimed, and the exchange sees it.          *)
LEMMA ClaimCasOkMap ==
    ASSUME IInv, IInv', MapInv, NEW t \in Threads, ClaimCasOk(t)
    PROVE  MapInv'
<1> DEFINE c == clm[t]
           k == PieceLen(c)
<1>0. /\ pc[t] = "cas" /\ pc[t] \in ClaimPCs /\ claim' = claim \cup Mask(c)
      /\ UNCHANGED <<map, held, req, scan>>
  BY Zenon DEF ClaimCasOk, ClaimPCs
<1>1. c \in Claims /\ Local(t) /\ c.done < c.count
  BY <1>0, InClaim, Zenon
<1>2. k \in 1 .. c.count - c.done /\ Mask(c) \subseteq WordAt(c.start + c.done)
  BY <1>1, PieceFacts, Zenon
<1>3. Mask(c) \cap map = {}
  <2>1. c.val \cap Mask(c) = {}
    BY <1>0, <1>1, Zenon DEF Local, CasOK
  <2>2. claim \cap WordAt(c.start + c.done) = c.val
    BY Zenon DEF ClaimCasOk
  <2>3. Mask(c) \cap map \subseteq claim
    BY <1>0, Zenon DEF MapInv, CasSafe
  <2> QED BY <1>2, <2>1, <2>2, <2>3, Zenon
<1>4. Mask(c) = (c.start + c.done) .. (c.start + c.done + k - 1)
  BY Zenon DEF Mask
<1>5. Pending(t) = c.start .. c.start + c.done - 1 /\ InTransit(t) = {}
  BY <1>0, Zenon DEF Pending, InTransit
<1>6. Pending(t) \cap map = {}
  BY Zenon DEF MapInv, PendingFree
<1>7. /\ Others(t)
      /\ clm'[t].start = c.start /\ clm'[t].count = c.count
      /\ \/ Complete(c) /\ pc'[t] = "publish" /\ clm'[t].done = 0
         \/ ~ Complete(c) /\ pc'[t] = "load" /\ clm'[t].done = c.done + k
  <2>1. NextWordOr(t, "load", "publish")
    BY Zenon DEF ClaimCasOk
  <2>2. Others(t)
    BY <1>0, <2>1, NextWordFacts, Zenon DEF ClaimPCs
  <2> QED BY <1>0, <2>1, <2>2, NextWordPlace, Zenon
<1>8. InTransit(t)' = {}
  <2>1. CASE pc'[t] = "publish" /\ clm'[t].done = 0
    <3>1. InTransit(t)' = c.start .. c.start + 0 - 1
      BY <1>7, <2>1, Zenon DEF InTransit
    <3> QED BY <1>1, <3>1 DEF Claims
  <2>2. CASE pc'[t] = "load"
    BY <2>2, Zenon DEF InTransit
  <2> QED BY <1>7, <2>1, <2>2, Zenon
<1>9. Pending(t)' \subseteq Pending(t) \cup Mask(c)
  <2>1. CASE Complete(c)
    <3>1. Pending(t)' = (c.start + 0) .. (c.start + c.count - 1)
      BY <1>7, <2>1, Zenon DEF Pending
    <3>2. c.count = c.done + k
      BY <2>1, Zenon DEF Complete
    <3> HIDE DEF k
    <3> QED BY <1>1, <1>2, <1>4, <1>5, <3>1, <3>2, SMTT(30) DEF Claims
  <2>2. CASE ~ Complete(c)
    <3>1. Pending(t)' = c.start .. c.start + (c.done + k) - 1
      BY <1>7, <2>2, Zenon DEF Pending
    <3> HIDE DEF k
    <3> QED BY <1>1, <1>2, <1>4, <1>5, <3>1, SMTT(30) DEF Claims
  <2> QED BY <2>1, <2>2, Zenon
<1>10. GrowClaim(t)'
  BY <1>0, <1>7, Zenon DEF MapInv, GrowClaim, ClaimPCs
<1>11. \A u \in Threads \ {t} : pc[u] = "cas" => Mask(clm[u]) \cap map \subseteq claim'
  BY <1>0, Zenon DEF MapInv, CasSafe
<1>12. Pending(t)' \cap map = {} /\ pc'[t] # "cas"
  BY <1>3, <1>6, <1>7, <1>9, Zenon
<1> QED BY <1>0, <1>5, <1>7, <1>8, <1>10, <1>11, <1>12, KeepMap, ZenonT(30)

-----------------------------------------------------------------------------
(* Steps that take pages into use, or hand them back. *)

(* Whatever a caller owns or a call returns is in the bitmap. *)
LEMMA OwnedInMap ==
    ASSUME MapInv
    PROVE  /\ \A u \in Threads : \A q \in held[u] : Pages(q) \subseteq map
           /\ \A u \in Threads : InTransit(u) \subseteq map
BY Zenon DEF MapInv, Accounted

(* Pages that nobody uses come into use. *)
LEMMA TakeMap ==
    ASSUME IInv, ClaimInv, MapInv, NEW t \in Threads, Others(t), NEW M,
           M \subseteq Claimed(t), M \cap map = {},
           map' = map \cup M, InTransit(t)' = InTransit(t) \cup M,
           UNCHANGED <<claim, held>>, Pending(t)' \cap (map \cup M) = {},
           pc'[t] # "cas", GrowClaim(t)'
    PROVE  MapInv'
<1>1. \A u \in Threads \ {t} : InTransit(u)' = InTransit(u)
  BY OthersFrame, Zenon
<1>2. /\ \A u \in Threads : \A q \in held[u] : Pages(q) \cap M = {}
      /\ \A u \in Threads : InTransit(u) \cap M = {}
  BY OwnedInMap, Zenon
<1>3. \A u \in Threads : \/ InTransit(u)' = InTransit(u)
                         \/ u = t /\ InTransit(u)' = InTransit(u) \cup M
  BY <1>1, Zenon
<1>4. Disjoint'
  <2>1. \A u, v \in Threads : \A q \in held'[v] : Pages(q) \cap InTransit(u)' = {}
    BY <1>2, <1>3, Zenon DEF MapInv, Disjoint
  <2>2. \A u, v \in Threads : u # v => InTransit(u)' \cap InTransit(v)' = {}
    <3> SUFFICES ASSUME NEW u \in Threads, NEW v \in Threads, u # v
                 PROVE  InTransit(u)' \cap InTransit(v)' = {}
      BY Zenon
    <3>1. InTransit(u) \cap InTransit(v) = {}
      BY Zenon DEF MapInv, Disjoint
    <3>2. CASE u = t
      BY <1>1, <1>2, <3>1, <3>2, Zenon
    <3>3. CASE v = t
      BY <1>1, <1>2, <3>1, <3>3, Zenon
    <3>4. CASE u # t /\ v # t
      BY <1>1, <3>1, <3>4, Zenon
    <3> QED BY <3>2, <3>3, <3>4, Zenon
  <2>3. \A u, v \in Threads : \A p \in held'[u], q \in held'[v] :
           (u # v \/ p # q) => Pages(p) \cap Pages(q) = {}
    BY DEF MapInv, Disjoint
  <2> QED BY <2>1, <2>2, <2>3, Zenon DEF Disjoint
<1>5. Accounted'
  <2> SUFFICES ASSUME NEW b
               PROVE  b \in map' <=> \/ \E u \in Threads : \E q \in held'[u] : b \in Pages(q)
                                     \/ \E u \in Threads : b \in InTransit(u)'
    BY Zenon DEF Accounted
  <2>1. b \in map <=> \/ \E u \in Threads : \E q \in held[u] : b \in Pages(q)
                      \/ \E u \in Threads : b \in InTransit(u)
    BY Zenon DEF MapInv, Accounted
  <2>2. (\E u \in Threads : b \in InTransit(u)')
            <=> b \in M \/ \E u \in Threads : b \in InTransit(u)
    BY <1>1, <1>3, Zenon
  <2> QED BY <2>1, <2>2, Zenon
<1>6. PendingFree'
  <2>1. \A u \in Threads \ {t} : Pending(u) \cap M = {}
    BY PendingClaimed, Zenon DEF ClaimInv, ClaimExclusive
  <2>2. \A u \in Threads \ {t} : Pending(u)' = Pending(u) /\ Pending(u) \cap map = {}
    BY OthersFrame, Zenon DEF MapInv, PendingFree
  <2>3. \A u \in Threads \ {t} : Pending(u)' \cap map' = {}
    BY <2>1, <2>2, Zenon
  <2> QED BY <2>3, Zenon DEF PendingFree
<1>7. CasSafe'
  <2>1. M \subseteq claim
    BY Zenon DEF ClaimInv, ClaimAccounted
  <2>2. \A u \in Threads \ {t} : pc[u] = "cas" => Mask(clm[u]) \cap (map \cup M) \subseteq claim
    BY <2>1, Zenon DEF MapInv, CasSafe
  <2> QED BY <2>2, OthersFrame, Zenon DEF CasSafe
<1>8. \A u \in Threads : GrowClaim(u)'
  BY OthersFrame, Zenon DEF MapInv
<1> QED BY <1>4, <1>5, <1>6, <1>7, <1>8, Zenon DEF MapInv

(* Publishing one word of pages that were claimed and unused. *)
LEMMA PublishMap ==
    ASSUME IInv, IInv', ClaimInv, MapInv, NEW t \in Threads, Publish(t)
    PROVE  MapInv'
<1> DEFINE c == clm[t]
           k == PieceLen(c)
           M == Mask(c)
<1>0. /\ pc[t] = "publish" /\ pc[t] \in ClaimPCs /\ map' = map \cup M
      /\ UNCHANGED <<claim, held, req, scan>>
  BY Zenon DEF Publish, ClaimPCs
<1>1. c \in Claims /\ Local(t) /\ c.done < c.count
  BY <1>0, InClaim, Zenon
<1>2. k \in 1 .. c.count - c.done
  BY <1>1, PieceFacts, Zenon
<1>3. M = (c.start + c.done) .. (c.start + c.done + k - 1)
  BY Zenon DEF Mask
<1>4. /\ Pending(t) = (c.start + c.done) .. (c.start + c.count - 1)
      /\ InTransit(t) = c.start .. c.start + c.done - 1
  BY <1>0, Zenon DEF Pending, InTransit
<1>5. /\ Others(t)
      /\ clm'[t].start = c.start /\ clm'[t].count = c.count
      /\ \/ Complete(c) /\ pc'[t] = "release" /\ clm'[t].done = 0
         \/ ~ Complete(c) /\ pc'[t] = "publish" /\ clm'[t].done = c.done + k
  <2>1. NextWordOr(t, "publish", "release")
    BY Zenon DEF Publish
  <2>2. Others(t)
    BY <1>0, <2>1, NextWordFacts, Zenon DEF ClaimPCs
  <2> QED BY <1>0, <2>1, <2>2, NextWordPlace, Zenon
<1>6. GrowClaim(t)' /\ pc'[t] # "cas"
  BY <1>0, <1>5, Zenon DEF MapInv, GrowClaim, ClaimPCs
<1>7. Complete(c) => c.count = c.done + k
  BY Zenon DEF Complete
<1>8. \/ /\ InTransit(t)' = c.start .. (c.start + c.count - 1) /\ Pending(t)' = {}
         /\ c.count = c.done + k
      \/ /\ InTransit(t)' = c.start .. c.start + (c.done + k) - 1
         /\ Pending(t)' = (c.start + (c.done + k)) .. (c.start + c.count - 1)
  BY <1>5, <1>7, Zenon DEF InTransit, Pending, Pages
<1> HIDE DEF k, M
<1>9. M \subseteq Pending(t)
  BY <1>1, <1>2, <1>3, <1>4, SMTT(30) DEF Claims
<1>14. c.start \in Nat /\ c.done \in Nat /\ c.count \in Nat
  BY <1>1, Zenon DEF Claims
<1> HIDE DEF c
<1>10. InTransit(t)' = InTransit(t) \cup M
  <2>1. InTransit(t) \cup M = c.start .. (c.start + c.done + k - 1)
    BY <1>2, <1>3, <1>4, <1>14, SMTT(30)
  <2>2. \/ InTransit(t)' = c.start .. (c.start + c.count - 1) /\ c.count = c.done + k
        \/ InTransit(t)' = c.start .. c.start + (c.done + k) - 1
    BY <1>8, Zenon
  <2>3. InTransit(t)' = c.start .. (c.start + c.done + k - 1)
    BY <1>2, <1>14, <2>2
  <2> QED BY <2>1, <2>3, Zenon
<1>11. Pending(t)' \subseteq Pending(t) \ M
  <2>1. \/ Pending(t)' = {}
        \/ Pending(t)' = (c.start + (c.done + k)) .. (c.start + c.count - 1)
    BY <1>8, Zenon
  <2>2. k \in Int
    BY <1>2, <1>14
  <2>3. \A b \in (c.start + (c.done + k)) .. (c.start + c.count - 1) :
           b \in (c.start + c.done) .. (c.start + c.count - 1)
    BY <1>2, <1>14, <2>2
  <2>4. \A b \in (c.start + (c.done + k)) .. (c.start + c.count - 1) :
           b \notin (c.start + c.done) .. (c.start + c.done + k - 1)
    BY <1>14, <2>2
  <2> QED BY <1>3, <1>4, <2>1, <2>3, <2>4, Zenon
<1>12. Pending(t) \cap map = {} /\ Pending(t) \subseteq Claimed(t)
  BY PendingClaimed, Zenon DEF MapInv, PendingFree
<1>13. M \subseteq Claimed(t) /\ M \cap map = {} /\ Pending(t)' \cap (map \cup M) = {}
  BY <1>9, <1>11, <1>12, Zenon
<1> QED BY <1>0, <1>5, <1>6, <1>10, <1>13, TakeMap, Zenon

(* rollback_claim drops claims on pages that are not in use. *)
LEMMA RollbackMap ==
    ASSUME IInv, IInv', MapInv, NEW t \in Threads, RollbackClaim(t)
    PROVE  MapInv'
<1> DEFINE c == clm[t]
           k == PieceLen(c)
           M == Mask(c)
<1>0. /\ pc[t] = "rollback" /\ pc[t] \in ClaimPCs /\ claim' = claim \ M
      /\ UNCHANGED <<map, held>>
  BY Zenon DEF RollbackClaim, ClaimPCs
<1>1. c \in Claims /\ Local(t) /\ LocalTypes /\ c.done < c.count
  BY <1>0, InClaim, Zenon
<1>2. k \in 1 .. c.count - c.done
  BY <1>1, PieceFacts, Zenon
<1>3. M = (c.start + c.done) .. (c.start + c.done + k - 1)
  BY Zenon DEF Mask
<1>4. Pending(t) = (c.start + c.done) .. (c.start + c.count - 1) /\ InTransit(t) = {}
  BY <1>0, Zenon DEF Pending, InTransit
<1>5. M \cap map = {}
  <2> HIDE DEF k, M
  <2>1. M \subseteq Pending(t)
    BY <1>1, <1>2, <1>3, <1>4 DEF Claims
  <2> QED BY <2>1, Zenon DEF MapInv, PendingFree
<1>6. \A u \in Threads \ {t} : pc[u] = "cas" => Mask(clm[u]) \cap map \subseteq claim'
  BY <1>0, <1>5, Zenon DEF MapInv, CasSafe
<1>7. CASE ClaimFailed(t)
  <2>1. Others(t)
    BY <1>0, <1>1, <1>7, ClaimFailedFacts, Zenon
  <2>2. pc'[t] \in {"pick", "multi", "idle"}
    BY <1>1, <1>7, Zenon DEF LocalTypes, ClaimFailed, Return
  <2>3. InTransit(t)' = {} /\ Pending(t)' = {} /\ GrowClaim(t)' /\ pc'[t] # "cas"
    BY <2>2, NothingInHandNext, Zenon DEF ClaimPCs
  <2> QED BY <1>0, <1>4, <1>6, <2>1, <2>3, KeepMap, ZenonT(30)
<1>8. CASE /\ ~ Complete(c)
           /\ clm' = [clm EXCEPT ![t] = Advance(c)] /\ UNCHANGED <<pc, req, scan>>
  <2>1. /\ Others(t) /\ pc'[t] = "rollback" /\ clm'[t].start = c.start
        /\ clm'[t].count = c.count /\ clm'[t].done = c.done + k
    BY <1>0, <1>1, <1>8, Zenon DEF LocalTypes, Others, Claims, Advance
  <2>2. /\ Pending(t)' = (c.start + (c.done + k)) .. (c.start + c.count - 1)
        /\ InTransit(t)' = {} /\ GrowClaim(t)' /\ pc'[t] # "cas"
    BY <2>1, Zenon DEF Pending, InTransit, GrowClaim
  <2>3. Pending(t)' \subseteq Pending(t)
    <3> HIDE DEF k
    <3> QED BY <1>1, <1>2, <1>4, <2>2 DEF Claims
  <2>4. Pending(t)' \cap map = {}
    BY <2>3, Zenon DEF MapInv, PendingFree
  <2> QED BY <1>0, <1>4, <1>6, <2>1, <2>2, <2>4, KeepMap, ZenonT(30)
<1> QED BY <1>7, <1>8, Zenon DEF RollbackClaim

(* Only a growing call, or one that gives pages back, names a run. *)
NoOldRun(t) == pc[t] # "clear" /\ req[t].op # "grow" => req[t].run = NoRun

(* The pages of a call pass to its caller; a growing call joins them to    *)
(* the run it was given.                                                   *)
LEMMA GainMap ==
    ASSUME IInv, MapInv, NEW t \in Threads, Others(t), map' = map, NEW r, NEW g,
           held' = [held EXCEPT ![t] = (@ \ {r}) \cup {g}],
           \A b : b \in Pages(g) <=> b \in InTransit(t) \/ (r \in held[t] /\ b \in Pages(r)),
           \A u \in Threads \ {t} : pc[u] = "cas" => Mask(clm[u]) \cap map \subseteq claim',
           pc'[t] \notin ClaimPCs \cup {"clear"}
    PROVE  MapInv'
<1>1. /\ held'[t] = (held[t] \ {r}) \cup {g}
      /\ \A u \in Threads \ {t} : held'[u] = held[u] /\ InTransit(u)' = InTransit(u)
  BY OthersFrame, Zenon DEF IInv, TypeOK
<1>2. InTransit(t)' = {} /\ Pending(t)' = {} /\ GrowClaim(t)' /\ pc'[t] # "cas"
  BY NothingInHandNext, Zenon
<1>3. ASSUME NEW u \in Threads, NEW q \in held'[u]
      PROVE  (q \in held[u] /\ (u # t \/ q # r)) \/ (u = t /\ q = g)
  <2>1. CASE u = t
    BY <1>1, <1>3, <2>1, Zenon
  <2>2. CASE u # t
    BY <1>1, <1>3, <2>2, Zenon
  <2> QED BY <2>1, <2>2, Zenon
<1>4. ASSUME NEW u \in Threads, NEW q \in held[u], u # t \/ q # r
      PROVE  Pages(q) \cap Pages(g) = {}
  <2>1. Pages(q) \cap InTransit(t) = {}
    BY Zenon DEF MapInv, Disjoint
  <2>2. r \in held[t] => Pages(q) \cap Pages(r) = {}
    BY <1>4, Zenon DEF MapInv, Disjoint
  <2> QED BY <2>1, <2>2, Zenon
<1>5. \A u, v \in Threads : \A p \in held'[u], q \in held'[v] :
         (u # v \/ p # q) => Pages(p) \cap Pages(q) = {}
  <2> SUFFICES ASSUME NEW u \in Threads, NEW v \in Threads, NEW p \in held'[u],
                      NEW q \in held'[v], u # v \/ p # q
               PROVE  Pages(p) \cap Pages(q) = {}
    BY Zenon
  <2>1. (p \in held[u] /\ (u # t \/ p # r)) \/ (u = t /\ p = g)
    BY <1>3, Zenon
  <2>2. (q \in held[v] /\ (v # t \/ q # r)) \/ (v = t /\ q = g)
    BY <1>3, Zenon
  <2>3. CASE p \in held[u] /\ q \in held[v]
    BY <2>3, Zenon DEF MapInv, Disjoint
  <2>4. CASE u = t /\ p = g /\ v = t /\ q = g
    BY <2>4, Zenon
  <2>5. CASE p = g /\ q \in held[v] /\ (v # t \/ q # r)
    BY <1>4, <2>5, Zenon
  <2>6. CASE q = g /\ p \in held[u] /\ (u # t \/ p # r)
    BY <1>4, <2>6, Zenon
  <2> QED BY <2>1, <2>2, <2>3, <2>4, <2>5, <2>6, Zenon
<1>6. \A u, v \in Threads : \A q \in held'[v] : Pages(q) \cap InTransit(u)' = {}
  <2> SUFFICES ASSUME NEW u \in Threads, NEW v \in Threads, NEW q \in held'[v]
               PROVE  Pages(q) \cap InTransit(u)' = {}
    BY Zenon
  <2>1. CASE u = t
    BY <1>2, <2>1, Zenon
  <2>2. CASE u # t /\ q \in held[v]
    BY <1>1, <2>2, Zenon DEF MapInv, Disjoint
  <2>3. CASE u # t /\ q = g
    <3>1. InTransit(u) \cap InTransit(t) = {}
      BY <2>3, Zenon DEF MapInv, Disjoint
    <3>2. r \in held[t] => Pages(r) \cap InTransit(u) = {}
      BY Zenon DEF MapInv, Disjoint
    <3> QED BY <1>1, <2>3, <3>1, <3>2, Zenon
  <2> QED BY <1>3, <2>1, <2>2, <2>3, Zenon
<1>7. Disjoint'
  <2>1. \A u, v \in Threads : u # v => InTransit(u)' \cap InTransit(v)' = {}
    BY <1>1, <1>2 DEF MapInv, Disjoint
  <2> QED BY <1>5, <1>6, <2>1, Zenon DEF Disjoint
<1>8. Accounted'
  <2> SUFFICES ASSUME NEW b
               PROVE  b \in map' <=> \/ \E u \in Threads : \E q \in held'[u] : b \in Pages(q)
                                     \/ \E u \in Threads : b \in InTransit(u)'
    BY Zenon DEF Accounted
  <2>1. b \in map' <=> \/ \E u \in Threads : \E q \in held[u] : b \in Pages(q)
                       \/ \E u \in Threads : b \in InTransit(u)
    BY Zenon DEF MapInv, Accounted
  <2>2. ASSUME NEW u \in Threads, NEW q \in held[u], b \in Pages(q)
        PROVE  \E v \in Threads : \E p \in held'[v] : b \in Pages(p)
    <3>1. CASE u = t /\ q = r
      BY <1>1, <2>2, <3>1, Zenon
    <3>2. CASE u # t \/ q # r
      <4>1. q \in held'[u]
        BY <1>1, <3>2, Zenon
      <4> QED BY <2>2, <4>1, Zenon
    <3> QED BY <3>1, <3>2, Zenon
  <2>3. ASSUME NEW u \in Threads, b \in InTransit(u)
        PROVE  \/ \E v \in Threads : \E p \in held'[v] : b \in Pages(p)
               \/ b \in InTransit(u)'
    BY <1>1, <2>3, Zenon
  <2>4. ASSUME NEW u \in Threads, NEW q \in held'[u], b \in Pages(q)
        PROVE  \/ \E v \in Threads : \E p \in held[v] : b \in Pages(p)
               \/ b \in InTransit(t)
    BY <1>3, <2>4, Zenon
  <2>5. ASSUME NEW u \in Threads, b \in InTransit(u)'
        PROVE  b \in InTransit(u)
    BY <1>1, <1>2, <2>5, Zenon
  <2> QED BY <2>1, <2>2, <2>3, <2>4, <2>5, Zenon
<1>9. PendingFree'
  BY <1>2, OthersFrame, Zenon DEF MapInv, PendingFree
<1>10. CasSafe'
  BY <1>2, OthersFrame, Zenon DEF CasSafe
<1>11. \A u \in Threads : GrowClaim(u)'
  BY <1>2, OthersFrame, Zenon DEF MapInv
<1> QED BY SMTT(20), <1>7, <1>8, <1>9, <1>10, <1>11 DEF MapInv

(* A run of n pages is its first k pages and the others. *)
LEMMA JoinRuns ==
    ASSUME NEW a \in Nat, NEW k \in Nat, NEW n \in Nat, n > k
    PROVE  a .. (a + n - 1) = (a .. (a + k - 1)) \cup ((a + k) .. (a + n - 1))
OBVIOUS

(* What try_claim returns: a run of its own, or the grown run. *)
LEMMA GainedFacts ==
    ASSUME IInv, MapInv, NEW t \in Threads, NoOldRun(t), pc[t] = "release"
    PROVE  LET r == req[t].run
               g == Gained(t)
           IN  /\ InTransit(t) = Pages(clm[t]) /\ Pages(clm[t]) \subseteq Bits
               /\ \/ /\ req[t].op = "grow" /\ r \in held[t] /\ r \in Runs
                     /\ g = [r EXCEPT !.count = req[t].count]
                     /\ req[t].count \in 1 .. TotalBits /\ req[t].count > r.count
                     /\ Pages(clm[t]) = (r.start + r.count) .. (r.start + req[t].count - 1)
                     /\ Pages(g) = Pages(r) \cup Pages(clm[t])
                  \/ /\ r \notin held[t] /\ g \in Runs /\ Pages(g) = Pages(clm[t])
<1> DEFINE c == clm[t]
           r == req[t].run
           g == Gained(t)
           n == req[t].count
<1>0. pc[t] \in ClaimPCs \ {"rollback"} /\ pc[t] # "clear"
  BY Zenon DEF ClaimPCs
<1>1. /\ LocalTypes /\ Local(t) /\ c \in Claims
      /\ c.done < c.count /\ c.start + c.count <= TotalBits
  BY <1>0, InClaim, Zenon
<1>2. InTransit(t) = Pages(c)
  BY Zenon DEF InTransit
<1>3. /\ c.start \in Nat /\ c.count \in Nat /\ c.done \in Nat
      /\ Pages(c) = c.start .. (c.start + c.count - 1)
  BY <1>1, Zenon DEF Claims, Pages
<1>4. Pages(c) \subseteq Bits
  <2> HIDE DEF c
  <2> QED BY <1>1, <1>3, SegmentAssumption DEF Bits
<1>5. CASE req[t].op = "grow"
  <2>1. r \in held[t] /\ r.start + n <= TotalBits /\ n > 0 /\ n \in Nat
    BY <1>1, <1>5, Zenon DEF Local, GrowOK, LocalTypes
  <2>2. r \in Runs
    BY <2>1, Zenon DEF IInv, TypeOK
  <2>3. g = [r EXCEPT !.count = n]
    BY <1>5, Zenon DEF Gained
  <2>4. c.start = r.start + r.count /\ c.start + c.count = r.start + n
    BY <1>0, <1>5, Zenon DEF MapInv, GrowClaim
  <2>5. r.start \in Nat /\ r.count \in Nat
    BY <2>2, SegmentAssumption DEF Runs, Bits
  <2>6. /\ Pages(g) = r.start .. (r.start + n - 1)
        /\ Pages(r) = r.start .. (r.start + r.count - 1)
    BY <2>2, <2>3, Zenon DEF Runs, Pages
  <2>10. c.count \in Nat \ {0}
    BY <1>1, <1>3
  <2> HIDE DEF c, n, r, g
  <2>13. PICK a \in Nat, k \in Nat, s \in Nat, m \in Nat \ {0} :
            a = r.start /\ k = r.count /\ s = c.start /\ m = c.count
    BY <1>3, <2>5, <2>10, Zenon
  <2>14. s = a + k /\ s + m = a + n
    BY <2>4, <2>13, Zenon
  <2>15. n > k /\ s + m - 1 = a + n - 1
    BY <2>1, <2>14
  <2>11. n > r.count
    BY <2>13, <2>15, Zenon
  <2>12. r.start .. (r.start + n - 1)
           = (r.start .. (r.start + r.count - 1)) \cup ((r.start + r.count) .. (r.start + n - 1))
    BY <2>1, <2>5, <2>11, JoinRuns
  <2>7. n \in 1 .. TotalBits
    BY <2>1, <2>5, SegmentAssumption
  <2>8. Pages(c) = (r.start + r.count) .. (r.start + n - 1)
    BY <1>3, <2>13, <2>14, <2>15, Zenon
  <2>9. Pages(g) = Pages(r) \cup Pages(c)
    BY <2>6, <2>8, <2>12, Zenon
  <2> QED BY SMTT(20), <1>2, <1>4, <1>5, <2>1, <2>2, <2>3, <2>7, <2>8, <2>9, <2>11 DEF c, n, r, g
<1>6. CASE req[t].op # "grow"
  <2>1. r = NoRun
    BY <1>0, <1>6, Zenon DEF NoOldRun
  <2>2. r \notin Runs
    BY <2>1, SegmentAssumption DEF NoRun, Runs
  <2>3. r \notin held[t]
    BY <2>2, Zenon DEF IInv, TypeOK
  <2>4. g = [start |-> c.start, count |-> c.count]
    BY <1>6, Zenon DEF Gained
  <2>5. g \in Runs
    BY <1>1, <1>3, <2>4, SegmentAssumption DEF Runs, Bits
  <2>6. Pages(g) = Pages(c)
    BY <1>3, <2>4 DEF Pages
  <2> QED BY <1>2, <1>4, <2>3, <2>5, <2>6, Zenon
<1> QED BY <1>5, <1>6, Zenon

(* The claim of a published page is dropped when no other thread is about  *)
(* to exchange for that page: its exchange would have to fail.             *)
LEMMA ReleaseMap ==
    ASSUME IInv, IInv', MapInv, NEW t \in Threads, NoOldRun(t), Timely(t), Release(t)
    PROVE  MapInv'
<1> DEFINE c == clm[t]
           M == Mask(c)
<1>0. pc[t] = "release" /\ pc[t] \in ClaimPCs /\ claim' = claim \ M /\ map' = map
  BY Zenon DEF Release, ClaimPCs
<1>1. c \in Claims /\ LocalTypes
  BY <1>0, InClaim, Zenon
<1>2. \A u \in Threads \ {t} : pc[u] = "cas" => Mask(clm[u]) \cap map \subseteq claim'
  <2>1. \A u \in Threads \ {t} : pc[u] = "cas" => Mask(clm[u]) \cap M = {}
    BY Zenon DEF Timely
  <2>2. \A u \in Threads : pc[u] = "cas" => Mask(clm[u]) \cap map \subseteq claim
    BY Zenon DEF MapInv, CasSafe
  <2> HIDE DEF M
  <2> QED BY <1>0, <2>1, <2>2, Zenon
<1>3. CASE /\ clm' = [clm EXCEPT ![t] = Advance(c)]
           /\ UNCHANGED <<hint, held, pc, req, scan>>
  <2>1. /\ Others(t) /\ pc'[t] = "release" /\ clm'[t].start = c.start
        /\ clm'[t].count = c.count
    BY <1>0, <1>1, <1>3, Zenon DEF LocalTypes, Others, Claims, Advance
  <2>2. InTransit(t)' = InTransit(t) /\ Pending(t)' = {} /\ pc'[t] # "cas"
    BY <1>0, <2>1, Zenon DEF InTransit, Pending, Pages
  <2>3. GrowClaim(t)'
    BY <1>0, <1>3, <2>1, Zenon DEF MapInv, GrowClaim, ClaimPCs
  <2> QED BY <1>0, <1>2, <1>3, <2>1, <2>2, <2>3, KeepMap, Zenon
<1>4. CASE held' = [held EXCEPT ![t] = (@ \ {req[t].run}) \cup {Gained(t)}] /\ Return(t)
  <2>1. Others(t)
    BY <1>1, <1>4, ReturnFacts, Zenon
  <2>2. pc'[t] = "idle"
    BY <1>1, <1>4, Zenon DEF LocalTypes, Return
  <2>3. pc'[t] \notin ClaimPCs \cup {"clear"}
    BY <2>2, Zenon DEF ClaimPCs
  <2>4. \A b : b \in Pages(Gained(t)) <=> \/ b \in InTransit(t)
                                          \/ req[t].run \in held[t] /\ b \in Pages(req[t].run)
    BY <1>0, GainedFacts, ZenonT(30)
  <2> QED BY <1>0, <1>2, <1>4, <2>1, <2>3, <2>4, GainMap, Zenon
<1> QED BY <1>3, <1>4, Zenon DEF Release

(* rollback clears one page of those the call is giving back. *)
LEMMA ClearBitMap ==
    ASSUME IInv, IInv', MapInv, NEW t \in Threads, ClearBit(t)
    PROVE  MapInv'
<1> DEFINE c == clm[t]
           x == c.start + c.done
<1>0. pc[t] = "clear" /\ map' = map \ {x} /\ UNCHANGED <<claim, held>>
  BY Zenon DEF ClearBit
<1>1. c \in Claims /\ LocalTypes /\ c.done < c.count
  BY <1>0, InClaim, Zenon
<1>2. InTransit(t) = (c.start + c.done) .. (c.start + c.count - 1)
  BY <1>0, Zenon DEF InTransit
<1>3. /\ Others(t) /\ Pending(t)' = {} /\ pc'[t] # "cas" /\ GrowClaim(t)'
      /\ InTransit(t)' = InTransit(t) \ {x}
  <2>1. CASE c.done + 1 = c.count /\ Return(t)
    <3>1. Others(t)
      BY <1>1, <2>1, ReturnFacts, Zenon
    <3>2. pc'[t] \notin ClaimPCs \cup {"clear"}
      BY <1>1, <2>1, Zenon DEF LocalTypes, Return, ClaimPCs
    <3>3. InTransit(t) \ {x} = {}
      BY <1>1, <1>2, <2>1 DEF Claims
    <3> QED BY <3>1, <3>2, <3>3, NothingInHandNext, Zenon
  <2>2. CASE clm' = [clm EXCEPT ![t].done = @ + 1] /\ UNCHANGED <<hint, pc, req, scan>>
    <3>1. /\ Others(t) /\ pc'[t] = "clear" /\ clm'[t].start = c.start
          /\ clm'[t].count = c.count /\ clm'[t].done = c.done + 1
      BY <1>0, <1>1, <2>2, Zenon DEF LocalTypes, Others, Claims
    <3>2. /\ InTransit(t)' = (c.start + (c.done + 1)) .. (c.start + c.count - 1)
          /\ Pending(t)' = {} /\ pc'[t] # "cas" /\ GrowClaim(t)'
      BY <3>1, Zenon DEF InTransit, Pending, GrowClaim, ClaimPCs
    <3>3. InTransit(t)' = InTransit(t) \ {x}
      BY <1>1, <1>2, <3>2 DEF Claims
    <3> QED BY <3>1, <3>2, <3>3, Zenon
  <2> QED BY <2>1, <2>2, Zenon DEF ClearBit
<1>4. x \in InTransit(t)
  BY <1>1, <1>2 DEF Claims
<1> HIDE DEF x
<1>5. \A u \in Threads \ {t} : InTransit(u)' = InTransit(u) /\ x \notin InTransit(u)
  <2>1. \A u \in Threads \ {t} : InTransit(u)' = InTransit(u)
    BY <1>3, OthersFrame, Zenon
  <2>2. \A u \in Threads \ {t} : x \notin InTransit(u)
    BY <1>4, Zenon DEF MapInv, Disjoint
  <2> QED BY <2>1, <2>2, Zenon
<1>6. \A u \in Threads : \A q \in held[u] : x \notin Pages(q)
  BY <1>4, Zenon DEF MapInv, Disjoint
<1>7. \A u \in Threads : InTransit(u)' = InTransit(u) \ {x}
  BY <1>3, <1>5, Zenon
<1>8. Disjoint'
  BY <1>0, <1>7 DEF MapInv, Disjoint
<1>9. Accounted'
  <2> SUFFICES ASSUME NEW b
               PROVE  b \in map' <=> \/ \E u \in Threads : \E q \in held'[u] : b \in Pages(q)
                                     \/ \E u \in Threads : b \in InTransit(u)'
    BY Zenon DEF Accounted
  <2>1. b \in map <=> \/ \E u \in Threads : \E q \in held[u] : b \in Pages(q)
                      \/ \E u \in Threads : b \in InTransit(u)
    BY Zenon DEF MapInv, Accounted
  <2> QED BY <1>0, <1>6, <1>7, <2>1, Zenon
<1>10. PendingFree'
  BY <1>0, <1>3, OthersFrame, Zenon DEF MapInv, PendingFree
<1>11. CasSafe'
  BY SMTT(20), <1>0, <1>3, OthersFrame DEF MapInv, CasSafe
<1>12. \A u \in Threads : GrowClaim(u)'
  BY <1>3, OthersFrame, Zenon DEF MapInv
<1> QED BY <1>8, <1>9, <1>10, <1>11, <1>12, Zenon DEF MapInv

-----------------------------------------------------------------------------
(* The steps together. *)

FullInv == IInv /\ ClaimInv /\ MapInv /\ \A t \in Threads : NoOldRun(t)

(* Only realloc_inplace and free name a run when they start. *)
LEMMA NoOldRunKept ==
    ASSUME IInv, \A t \in Threads : NoOldRun(t), NEW t \in Threads,
           Request(t) \/ Search(t) \/ TryClaim(t) \/ Release(t) \/ ClearBit(t)
    PROVE  \A u \in Threads : NoOldRun(u)'
<1>0. LocalTypes
  BY TypeSplit, Zenon DEF IInv
<1>1. CASE Return(t)
  BY SMTT(20), <1>0, <1>1 DEF LocalTypes, Return, NoOldRun
<1>2. CASE req' = req /\ ((pc'[t] # "clear" /\ pc[t] # "clear") \/ pc'[t] = pc[t])
           /\ \A u \in Threads \ {t} : pc'[u] = pc[u]
  BY <1>2, Zenon DEF NoOldRun
<1>3. CASE Request(t)
  <2>1. CASE AllocSingle(t)
    BY <1>0, <2>1, Zenon DEF AllocSingle, Call, LocalTypes, NoOldRun
  <2>2. ASSUME NEW n \in 2 .. MaxCount, AllocMulti(t, n) PROVE \A u \in Threads : NoOldRun(u)'
    BY <1>0, <2>2, Zenon DEF AllocMulti, Call, LocalTypes, NoOldRun
  <2>3. ASSUME NEW r \in held[t], NEW n \in 1 .. MaxCount, Grow(t, r, n)
        PROVE \A u \in Threads : NoOldRun(u)'
    <3>1. req'[t].op = "grow" /\ \A u \in Threads \ {t} : req'[u] = req[u] /\ pc'[u] = pc[u]
      BY <1>0, <2>3, Zenon DEF Grow, Call, StartClaim, LocalTypes
    <3> QED BY SMTT(20), <3>1 DEF NoOldRun
  <2>4. ASSUME NEW r \in held[t], NEW n \in 1 .. MaxCount, Shrink(t, r, n)
        PROVE \A u \in Threads : NoOldRun(u)'
    BY <1>0, <2>4, Zenon DEF Shrink, Call, LocalTypes, NoOldRun
  <2>5. ASSUME NEW r \in held[t], Free(t, r) PROVE \A u \in Threads : NoOldRun(u)'
    BY <1>0, <2>5, Zenon DEF Free, Call, LocalTypes, NoOldRun
  <2>6. ASSUME NEW r \in held[t], NEW u \in Threads, Hand(t, u, r)
        PROVE  \A v \in Threads : NoOldRun(v)'
    BY <2>6, Zenon DEF Hand, NoOldRun
  <2> QED BY <1>3, <2>1, <2>2, <2>3, <2>4, <2>5, <2>6, Zenon DEF Request
<1>4. CASE ClaimFailed(t) /\ pc[t] # "clear"
  <2>1. CASE Return(t)
    BY <1>1, <2>1, Zenon
  <2>2. CASE req' = req /\ \E p \in {"pick", "multi"} : pc' = [pc EXCEPT ![t] = p]
    <3>1. pc'[t] # "clear" /\ \A u \in Threads \ {t} : pc'[u] = pc[u]
      BY <1>0, <2>2, Zenon DEF LocalTypes
    <3> QED BY <1>2, <1>4, <2>2, <3>1, Zenon
  <2> QED BY <1>4, <2>1, <2>2, Zenon DEF ClaimFailed
<1>5. ASSUME req' = req, pc[t] # "clear", NEW p \in PCs \ {"clear"},
             pc' = [pc EXCEPT ![t] = p]
      PROVE  \A u \in Threads : NoOldRun(u)'
  <2>1. pc'[t] # "clear" /\ \A u \in Threads \ {t} : pc'[u] = pc[u]
    BY <1>0, <1>5, Zenon DEF LocalTypes
  <2> QED BY <1>2, <1>5, <2>1, Zenon
<1>6. CASE Search(t)
  <2>1. pc[t] \in {"single", "pick", "multi", "carry"}
    BY <1>6, Zenon DEF Search, LoadWord, PickBit, ScanMulti, EndPass, CarryOver
  <2>2. \/ Return(t)
        \/ req' = req /\ pc' = pc
        \/ req' = req /\ \E p \in PCs \ {"clear"} : pc' = [pc EXCEPT ![t] = p]
    <3>1. CASE LoadWord(t)
      BY <3>1, Zenon DEF LoadWord, PCs
    <3>2. CASE PickBit(t)
      BY SMTT(20), <3>2 DEF PickBit, StartClaim, PCs
    <3>3. CASE ScanMulti(t)
      BY <3>3, Zenon DEF ScanMulti, MoveOn, ClaimRun, StartClaim, PCs
    <3>4. CASE EndPass(t)
      BY <3>4, Zenon DEF EndPass, MoveOn, PCs
    <3>5. CASE CarryOver(t)
      BY <3>5, Zenon DEF CarryOver, MoveOn, StartClaim, PCs
    <3> QED BY <1>6, <3>1, <3>2, <3>3, <3>4, <3>5, Zenon DEF Search
  <2> QED BY <1>1, <1>2, <1>5, <2>1, <2>2, Zenon
<1>7. CASE TryClaim(t)
  <2>1. CASE ClaimLoad(t) \/ ClaimCasFail(t)
    BY <1>5, <2>1, Zenon DEF ClaimLoad, ClaimCasFail, PCs
  <2>2. CASE ClaimCheck(t)
    BY <1>4, <1>5, <2>2, Zenon DEF ClaimCheck, PCs
  <2>3. CASE ClaimCasOk(t)
    BY <1>5, <2>3, Zenon DEF ClaimCasOk, NextWordOr, PCs
  <2>4. CASE Publish(t)
    BY <1>5, <2>4, Zenon DEF Publish, NextWordOr, PCs
  <2>5. CASE RollbackClaim(t)
    BY <1>2, <1>4, <2>5, Zenon DEF RollbackClaim
  <2> QED BY <1>7, <2>1, <2>2, <2>3, <2>4, <2>5, Zenon DEF TryClaim
<1>8. CASE Release(t)
  BY Zenon, <1>1, <1>2, <1>8 DEF Release
<1>9. CASE ClearBit(t)
  BY <1>1, <1>2, <1>9, Zenon DEF ClearBit
<1> QED BY <1>3, <1>6, <1>7, <1>8, <1>9, Zenon

(* The steps of try_claim and rollback_claim. *)
LEMMA TryClaimMap ==
    ASSUME IInv, IInv', ClaimInv, MapInv, NEW t \in Threads, TryClaim(t)
    PROVE  MapInv'
<1>1. CASE ClaimLoad(t) \/ ClaimCasFail(t)
  <2> DEFINE v == claim \cap WordAt(clm[t].start + clm[t].done)
  <2>1. /\ pc[t] \in {"load", "cas"} /\ pc' = [pc EXCEPT ![t] = "check"]
        /\ clm' = [clm EXCEPT ![t].val = v]
        /\ UNCHANGED <<map, claim, held, req, scan>>
    BY <1>1, Zenon DEF ClaimLoad, ClaimCasFail
  <2> HIDE DEF v
  <2> QED BY <2>1, ClaimLoadMap, Zenon
<1> QED BY <1>1, ClaimCheckMap, ClaimCasOkMap, PublishMap, RollbackMap, Zenon DEF TryClaim

(* Every step of TimelySpec keeps the invariant. *)
LEMMA NextFull == FullInv /\ [TimelyNext]_vars => FullInv'
<1> SUFFICES ASSUME FullInv, [TimelyNext]_vars PROVE FullInv'
  BY Zenon
<1>1. [Next]_vars
  BY Zenon DEF TimelyNext, Next
<1>2. IInv'
  BY <1>1, NextIInv, Zenon DEF FullInv
<1>3. ClaimInv'
  BY <1>1, <1>2, NextClaims, Zenon DEF FullInv
<1>4. CASE UNCHANGED vars
  <2>1. MapInv'
    BY <1>4 DEF FullInv, vars, MapInv, Disjoint, Accounted, PendingFree, CasSafe,
                GrowClaim, InTransit, Pending, Pages, Mask, PieceLen, Shift
  <2>2. \A t \in Threads : NoOldRun(t)'
    BY <1>4, Zenon DEF FullInv, vars, NoOldRun
  <2> QED BY <1>2, <1>3, <2>1, <2>2, ZenonT(30) DEF FullInv
<1>5. ASSUME NEW t \in Threads,
             \/ Request(t) \/ Search(t) \/ TryClaim(t) \/ ClearBit(t)
             \/ (Timely(t) /\ Release(t))
      PROVE  FullInv'
  <2>1. \A u \in Threads : NoOldRun(u)'
    BY <1>5, NoOldRunKept, Zenon DEF FullInv
  <2>2. MapInv'
    BY <1>2, <1>5, RequestMap, SearchMap, TryClaimMap, ClearBitMap, ReleaseMap, Zenon DEF FullInv
  <2> QED BY <1>2, <1>3, <2>1, <2>2, Zenon DEF FullInv
<1> QED BY <1>4, <1>5, Zenon DEF TimelyNext

(* Nothing is mapped, claimed or held at first. *)
LEMMA InitFull == Init => FullInv
<1> SUFFICES ASSUME Init PROVE FullInv
  BY Zenon
<1>1. MapInv
  BY Zenon DEF Init, MapInv, Disjoint, Accounted, PendingFree, CasSafe, GrowClaim, InTransit,
         Pending, ClaimPCs
<1>2. \A t \in Threads : NoOldRun(t)
  BY Zenon DEF Init, NoOldRun
<1> QED BY <1>1, <1>2, InitIInv, InitClaims, Zenon DEF FullInv

-----------------------------------------------------------------------------
(* No two allocations share a page: whatever the number of threads, the    *)
(* word size and the segment length, the runs that alloc_single,           *)
(* alloc_multi and realloc_inplace return and free gives back are disjoint,*)
(* as long as releases are timely.                                         *)
THEOREM AllocationsAreDisjoint == TimelySpec => []HeldDisjoint
<1>1. FullInv => HeldDisjoint
  BY Zenon DEF FullInv, MapInv, Disjoint, HeldDisjoint
<1> QED BY <1>1, InitFull, NextFull, PTL DEF TimelySpec

(* The map bitmap has exactly the bits of the allocations and of the calls *)
(* that are publishing or clearing theirs: none leaks, none is missing.    *)
THEOREM BitmapIsAccounted == TimelySpec => []MapAccounted
<1>1. FullInv => MapAccounted
  <2> SUFFICES ASSUME FullInv PROVE MapAccounted
    BY Zenon
  <2>1. \A b : b \in HeldPages <=> \E t \in Threads : \E r \in held[t] : b \in Pages(r)
    BY Zenon DEF HeldPages
  <2>2. \A b : b \in UNION {InTransit(t) : t \in Threads}
                   <=> \E t \in Threads : b \in InTransit(t)
    BY Zenon
  <2>3. \A b : b \in map <=> b \in HeldPages \cup UNION {InTransit(t) : t \in Threads}
    BY <2>1, <2>2, Zenon DEF FullInv, MapInv, Accounted
  <2> QED BY <2>3, Zenon DEF MapAccounted
<1> QED BY <1>1, InitFull, NextFull, PTL DEF TimelySpec

(* What is in transit is owned by no caller. *)
LEMMA TransitNotOwned ==
    ASSUME FullInv, NEW t \in Threads
    PROVE  InTransit(t) \cap Promise!Owned = {}
BY Zenon DEF FullInv, MapInv, Disjoint, Promise!Owned, Promise!Pages, Pages

(* Every step is one of PageAllocator, or invisible to the callers. *)
LEMMA StepImplements == FullInv /\ [TimelyNext]_vars => [Promise!Next]_held
<1> SUFFICES ASSUME FullInv, [TimelyNext]_vars PROVE Promise!Next \/ held' = held
  BY Zenon
<1>0. held \in [Threads -> SUBSET Runs] /\ TotalBits \in Nat /\ LocalTypes
  BY TypeSplit, SegmentAssumption, Zenon DEF FullInv, IInv
<1>1. CASE UNCHANGED vars
  BY <1>1, Zenon DEF vars
<1>2. ASSUME NEW t \in Threads, Search(t) \/ TryClaim(t) \/ ClearBit(t)
      PROVE  held' = held
  BY <1>2, Zenon DEF Search, LoadWord, PickBit, ScanMulti, EndPass, CarryOver, TryClaim, ClaimLoad,
              ClaimCheck, ClaimCasOk, ClaimCasFail, Publish, RollbackClaim, ClearBit
<1>3. ASSUME NEW t \in Threads, Release(t)
      PROVE  Promise!Next \/ held' = held
  <2> DEFINE r == req[t].run
             n == req[t].count
             g == Gained(t)
  <2>0. pc[t] = "release" /\ NoOldRun(t) /\ IInv /\ MapInv
    BY <1>3, Zenon DEF Release, FullInv
  <2>1. /\ InTransit(t) = Pages(clm[t]) /\ Pages(clm[t]) \subseteq Bits
        /\ \/ /\ r \in held[t] /\ r \in Runs /\ g = [r EXCEPT !.count = n]
              /\ n \in 1 .. TotalBits /\ n > r.count
              /\ Pages(clm[t]) = (r.start + r.count) .. (r.start + n - 1)
           \/ /\ r \notin held[t] /\ g \in Runs /\ Pages(g) = Pages(clm[t])
    BY <2>0, GainedFacts, Zenon
  <2>2. Pages(clm[t]) \subseteq (0 .. TotalBits - 1) \ Promise!Owned
    BY <2>1, TransitNotOwned, Zenon DEF Bits
  <2>3. CASE held' = [held EXCEPT ![t] = (@ \ {r}) \cup {g}]
    <3>1. CASE /\ r \in held[t] /\ g = [r EXCEPT !.count = n]
               /\ n \in 1 .. TotalBits /\ n > r.count
               /\ Pages(clm[t]) = (r.start + r.count) .. (r.start + n - 1)
      <4> HIDE DEF r, n, g
      <4>1. Promise!Extend(t, r, n)
        BY SMTT(20), <2>2, <2>3, <3>1 DEF Promise!Extend
      <4> QED BY <3>1, <4>1, Zenon DEF Promise!Next
    <3>2. CASE r \notin held[t] /\ g \in Runs /\ Pages(g) = Pages(clm[t])
      <4> HIDE DEF r, n, g
      <4>1. held' = [held EXCEPT ![t] = @ \cup {g}]
        BY <2>3, <3>2, Zenon
      <4>2. Promise!Pages(g) = Pages(g) /\ g \in Promise!Runs
        BY <3>2, Zenon DEF Promise!Pages, Pages, Promise!Runs, Runs, Bits
      <4>3. Promise!Alloc(t, g)
        BY <2>2, <3>2, <4>1, <4>2, Zenon DEF Promise!Alloc
      <4> QED BY <4>2, <4>3, Zenon DEF Promise!Next
    <3> QED BY <2>1, <3>1, <3>2, Zenon
  <2> QED BY SMTT(20), <1>3, <2>3 DEF Release
<1>4. ASSUME NEW t \in Threads, Request(t)
      PROVE  Promise!Next \/ held' = held
  <2>1. CASE AllocSingle(t) \/ \E n \in 2 .. MaxCount : AllocMulti(t, n)
    BY <2>1, Zenon DEF AllocSingle, AllocMulti
  <2>2. ASSUME NEW r \in held[t], NEW n \in 1 .. MaxCount, Grow(t, r, n) PROVE held' = held
    BY <2>2, Zenon DEF Grow
  <2>3. ASSUME NEW r \in held[t], Free(t, r) PROVE Promise!Next
    BY <2>3, Zenon DEF Free, Promise!Next, Promise!Free
  <2>4. ASSUME NEW r \in held[t], NEW n \in 1 .. MaxCount, Shrink(t, r, n)
        PROVE  Promise!Next
    <3>1. n < r.count /\ held' = [held EXCEPT ![t] = (@ \ {r}) \cup {[r EXCEPT !.count = n]}]
      BY <2>4, Zenon DEF Shrink
    <3>2. r \in Runs /\ n \in Nat
      BY <1>0, SegmentAssumption
    <3>3. n \in 1 .. TotalBits
      BY <1>0, <3>1, <3>2 DEF Runs
    <3>4. Promise!Shrink(t, r, n)
      BY <3>1, Zenon DEF Promise!Shrink
    <3> QED BY <3>3, <3>4, Zenon DEF Promise!Next
  <2>5. ASSUME NEW r \in held[t], NEW u \in Threads, Hand(t, u, r) PROVE Promise!Next
    BY <2>5, Zenon DEF Hand, Promise!Next, Promise!Hand
  <2> QED BY <1>4, <2>1, <2>2, <2>3, <2>4, <2>5, Zenon DEF Request
<1> QED BY <1>1, <1>2, <1>3, <1>4, Zenon DEF TimelyNext

(* A segment of the VA bitmap is a page allocator: every step of a thread  *)
(* is invisible to the callers, or creates, extends, shrinks, hands over   *)
(* or frees one allocation, from pages that nobody owns.                   *)
THEOREM SegmentIsPageAllocator == TimelySpec => ImplementsPageAllocator
<1>1. Init => Promise!Init
  BY Zenon DEF Init, Promise!Init
<1> QED BY <1>1, InitFull, NextFull, StepImplements, PTL
        DEF TimelySpec, ImplementsPageAllocator, Promise!Spec
=============================================================================
