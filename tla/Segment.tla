------------------------------- MODULE Segment -------------------------------
(***************************************************************************)
(* One segment of the VA bitmap (va/bitmap.rs, impl Segment): two bitmaps  *)
(* of 64-bit words, `map' (pages in use) and `claim' (pages some thread is *)
(* in the middle of taking), that threads change with single-word atomic   *)
(* operations and no lock.  Every atomic load, compare-exchange, fetch_or  *)
(* and fetch_and of a bitmap word is one step here; everything between two *)
(* of them is local to the thread and belongs to the step before it.       *)
(*                                                                         *)
(* A bitmap is the set of its one bits.  Sizes and addresses are counted   *)
(* in pages.  `held' is not in the code: it records which runs the callers *)
(* of the segment own, so that the properties can speak of them.  The      *)
(* flags full and failed_trys are handled by the caller, VaBitmap::alloc.  *)
(***************************************************************************)
EXTENDS Integers, FiniteSets, FiniteSetsExt

CONSTANTS Threads,
          WordBits,         \* bits in a bitmap word: 64 in the code
          TotalBits,        \* max_bits(): pages in the segment
          RandomBlocks,     \* MAX_RANDOM_BLOCKS: reach of the random offset
          MaxCount,         \* bound: the largest request, in pages
          MaxHeld,          \* bound: the runs one thread owns at a time
          SpuriousFailures  \* may compare_exchange_weak fail for no reason?

ASSUME SegmentAssumption ==
    /\ WordBits \in Nat \ {0}
    /\ TotalBits \in Nat \ {0}
    /\ RandomBlocks \in Nat \ {0}
    /\ MaxCount \in Nat \ {0}
    /\ MaxHeld \in Nat \ {0}
    /\ SpuriousFailures \in BOOLEAN

VARIABLES map,    \* map[]: the pages in use
          claim,  \* claim[]: the pages being taken
          hint,   \* hint: the word where the next search starts
          held,   \* held[t]: the runs thread t owns
          pc,     \* where each thread is
          req,    \* the call in progress: its kind, its size, its old run
          scan,   \* the locals of alloc_single and alloc_multi
          clm     \* the locals of try_claim, rollback_claim and rollback

vars == <<map, claim, hint, held, pc, req, scan, clm>>

Bits == 0 .. TotalBits - 1

Chunks == (TotalBits + WordBits - 1) \div WordBits

(* The place of bit b in its word. *)
Shift(b) == b % WordBits

(* The word that holds bit b. *)
WordAt(b) == (b - Shift(b)) .. (b - Shift(b) + WordBits - 1)

Runs == [start : Bits, count : 1 .. TotalBits]

Pages(r) == r.start .. (r.start + r.count - 1)

(* The bits of the run [start, start + count) that lie in the word of its  *)
(* bit start + done: bits_in_this_chunk, and the mask that goes with it.   *)
PieceLen(c) ==
    LET room == WordBits - Shift(c.start + c.done)
        left == c.count - c.done
    IN  IF room < left THEN room ELSE left

Mask(c) == (c.start + c.done) .. (c.start + c.done + PieceLen(c) - 1)

Advance(c) == [c EXCEPT !.done = @ + PieceLen(c)]

Complete(c) == c.done + PieceLen(c) = c.count

NoRun == [start |-> 0, count |-> 0]

NoScan == [first |-> 0, pass |-> 1, bit |-> 0, run |-> 0, from |-> 0,
           ext |-> 0, chunk |-> {}]

NoClaim == [start |-> 0, count |-> 0, done |-> 0, val |-> {}]

Init ==
    /\ map = {}
    /\ claim = {}
    /\ hint \in 0 .. Chunks - 1
    /\ held = [t \in Threads |-> {}]
    /\ pc = [t \in Threads |-> "idle"]
    /\ req = [t \in Threads |-> [op |-> "none", count |-> 0, run |-> NoRun]]
    /\ scan = [t \in Threads |-> NoScan]
    /\ clm = [t \in Threads |-> NoClaim]

-----------------------------------------------------------------------------
(* Calls and returns. *)

Call(t, op, n, r) ==
    req' = [req EXCEPT ![t] = [op |-> op, count |-> n, run |-> r]]

(* The thread's locals die with the call. *)
Return(t) ==
    /\ pc' = [pc EXCEPT ![t] = "idle"]
    /\ req' = [req EXCEPT ![t] = [op |-> "none", count |-> 0, run |-> NoRun]]
    /\ scan' = [scan EXCEPT ![t] = NoScan]
    /\ clm' = [clm EXCEPT ![t] = NoClaim]

(* Enter try_claim(start, count). *)
StartClaim(t, start, n) ==
    /\ pc' = [pc EXCEPT ![t] = "load"]
    /\ clm' = [clm EXCEPT ![t] =
                   [start |-> start, count |-> n, done |-> 0, val |-> {}]]

(* alloc_single: the search starts in the hinted word, moved on by a random *)
(* number of pages.                                                        *)
AllocSingle(t) ==
    /\ pc[t] = "idle"
    /\ \E r \in 0 .. RandomBlocks - 1 :
          scan' = [scan EXCEPT ![t] = [NoScan EXCEPT
                      !.first = ((hint * WordBits + r) \div WordBits) % Chunks]]
    /\ Call(t, "single", 1, NoRun)
    /\ pc' = [pc EXCEPT ![t] = "single"]
    /\ UNCHANGED <<map, claim, hint, held, clm>>

(* alloc_multi: the search starts at any page; a request larger than the   *)
(* segment returns None at once and changes nothing.                       *)
AllocMulti(t, n) ==
    /\ pc[t] = "idle"
    /\ n <= TotalBits
    /\ \E r \in 0 .. RandomBlocks - 1 :
          LET s == (hint * WordBits + r) % TotalBits
          IN  scan' = [scan EXCEPT ![t] = [NoScan EXCEPT !.first = s, !.bit = s]]
    /\ Call(t, "multi", n, NoRun)
    /\ pc' = [pc EXCEPT ![t] = "multi"]
    /\ UNCHANGED <<map, claim, hint, held, clm>>

(* free: the caller gives the run up; rollback clears its bits one by one. *)
Free(t, r) ==
    /\ pc[t] = "idle"
    /\ held' = [held EXCEPT ![t] = @ \ {r}]
    /\ Call(t, "free", r.count, NoRun)
    /\ pc' = [pc EXCEPT ![t] = "clear"]
    /\ clm' = [clm EXCEPT ![t] = [start |-> r.start, count |-> r.count,
                                  done |-> 0, val |-> {}]]
    /\ UNCHANGED <<map, claim, hint, scan>>

(* Mutant: the first page given up is not cleared. *)
Shrink_OffByOne(t, r, n) ==
    /\ pc[t] = "idle"
    /\ n + 1 < r.count
    /\ held' = [held EXCEPT ![t] = (@ \ {r}) \cup {[r EXCEPT !.count = n]}]
    /\ Call(t, "shrink", n, NoRun)
    /\ pc' = [pc EXCEPT ![t] = "clear"]
    /\ clm' = [clm EXCEPT ![t] = [start |-> r.start + n + 1, done |-> 0,
                                  count |-> r.count - n - 1, val |-> {}]]
    /\ UNCHANGED <<map, claim, hint, scan>>

(* realloc_inplace to n < r.count pages: the tail is given up and cleared. *)
Shrink(t, r, n) ==
    /\ pc[t] = "idle"
    /\ n < r.count
    /\ held' = [held EXCEPT ![t] = (@ \ {r}) \cup {[r EXCEPT !.count = n]}]
    /\ Call(t, "shrink", n, NoRun)
    /\ pc' = [pc EXCEPT ![t] = "clear"]
    /\ clm' = [clm EXCEPT ![t] = [start |-> r.start + n, count |-> r.count - n,
                                  done |-> 0, val |-> {}]]
    /\ UNCHANGED <<map, claim, hint, scan>>

(* Mutant: the growth is not checked against the end of the segment. *)
Grow_Unchecked(t, r, n) ==
    /\ pc[t] = "idle"
    /\ n > r.count
    /\ Call(t, "grow", n, r)
    /\ StartClaim(t, r.start + r.count, n - r.count)
    /\ UNCHANGED <<map, claim, hint, held, scan>>

(* realloc_inplace to n > r.count pages: claim the pages behind the run,   *)
(* unless they would reach beyond the segment (None, no change).           *)
Grow(t, r, n) ==
    /\ pc[t] = "idle"
    /\ n > r.count
    /\ r.start + n <= TotalBits
    /\ Call(t, "grow", n, r)
    /\ StartClaim(t, r.start + r.count, n - r.count)
    /\ UNCHANGED <<map, claim, hint, held, scan>>

(* The program passes a pointer on: any thread may free or resize what     *)
(* another one allocated.                                                  *)
Hand(t, u, r) ==
    /\ pc[t] = "idle"
    /\ t # u
    /\ held' = [held EXCEPT ![t] = @ \ {r}, ![u] = @ \cup {r}]
    /\ UNCHANGED <<map, claim, hint, pc, req, scan, clm>>

-----------------------------------------------------------------------------
(* alloc_single: the words from the first to the last and round to the     *)
(* first again; `bit' counts the words visited.                            *)

WordStart(s) == ((s.first + s.bit) % Chunks) * WordBits

(* Load the word; the bits beyond the segment count as used. *)
LoadWord(t) ==
    /\ pc[t] = "single"
    /\ LET w == WordAt(WordStart(scan[t]))
       IN  scan' = [scan EXCEPT ![t].chunk = (map \cap w) \cup (w \ Bits)]
    /\ pc' = [pc EXCEPT ![t] = "pick"]
    /\ UNCHANGED <<map, claim, hint, held, req, clm>>

(* Try the lowest page of the loaded word that looks free and was not      *)
(* tried before; when there is none, go on to the next word or give up.    *)
PickBit(t) ==
    /\ pc[t] = "pick"
    /\ LET free == WordAt(WordStart(scan[t])) \ scan[t].chunk
       IN  \/ /\ free # {}
              /\ StartClaim(t, Min(free), 1)
              /\ scan' = [scan EXCEPT ![t].chunk = @ \cup {Min(free)}]
              /\ UNCHANGED req
           \/ /\ free = {}
              /\ scan[t].bit + 1 < Chunks
              /\ scan' = [scan EXCEPT ![t].bit = @ + 1]
              /\ pc' = [pc EXCEPT ![t] = "single"]
              /\ UNCHANGED <<req, clm>>
           \/ /\ free = {}
              /\ scan[t].bit + 1 = Chunks
              /\ Return(t)
    /\ UNCHANGED <<map, claim, hint, held>>

-----------------------------------------------------------------------------
(* alloc_multi: two passes, [first, TotalBits) and [0, first).             *)

RangeEnd(s) == IF s.pass = 1 THEN TotalBits ELSE s.first

(* A free stretch of k pages at s.bit joins the current run; `from' is     *)
(* where that run starts.                                                  *)
Extended(s, k) ==
    [s EXCEPT !.run = @ + k, !.from = IF s.run = 0 THEN s.bit ELSE @]

(* The run is long enough: claim its first pages.  If the claim fails the  *)
(* search goes on behind s.bit with an empty run.                          *)
ClaimRun(t, s) ==
    /\ StartClaim(t, s.from, req[t].count)
    /\ scan' = [scan EXCEPT ![t] = [s EXCEPT !.run = 0, !.bit = @ + 1]]

MoveOn(t, s) ==
    /\ scan' = [scan EXCEPT ![t] = s]
    /\ UNCHANGED <<pc, clm>>

(* One turn of the scanning loop: one load of a map word. *)
ScanMulti(t) ==
    LET s    == scan[t]
        w    == WordAt(s.bit)
        rest == RangeEnd(s) - s.bit
        skip == IF rest < WordBits THEN rest ELSE WordBits
        step == IF Shift(s.bit) = 0 /\ map \cap w = {} THEN skip ELSE 1
        e    == Extended(s, step)
    IN  /\ pc[t] = "multi"
        /\ s.bit < RangeEnd(s)
        /\ \/ /\ w \subseteq map
              /\ MoveOn(t, [s EXCEPT !.run = 0, !.bit = Max(w) + 1])
           \/ /\ ~ (w \subseteq map)
              /\ s.bit \in map
              /\ MoveOn(t, [s EXCEPT !.run = 0, !.bit = @ + 1])
           \/ /\ s.bit \notin map
              /\ e.run >= req[t].count
              /\ ClaimRun(t, e)
           \/ /\ s.bit \notin map
              /\ e.run < req[t].count
              /\ MoveOn(t, [e EXCEPT !.bit = @ + step])
        /\ UNCHANGED <<map, claim, hint, held, req>>

(* Mutant: the run left open at the end of the second pass is dropped. *)
EndPass_NoCarry(t) ==
    LET s == scan[t]
    IN  /\ pc[t] = "multi"
        /\ s.bit >= RangeEnd(s)
        /\ \/ /\ s.pass = 1
              /\ MoveOn(t, [s EXCEPT !.pass = 2, !.bit = 0, !.run = 0])
              /\ UNCHANGED req
           \/ /\ s.pass = 2
              /\ Return(t)
        /\ UNCHANGED <<map, claim, hint, held>>

(* The end of a pass: on to the second one, or to the run that the second  *)
(* pass left open at `first', or None.                                     *)
EndPass(t) ==
    LET s == scan[t]
    IN  /\ pc[t] = "multi"
        /\ s.bit >= RangeEnd(s)
        /\ \/ /\ s.pass = 1
              /\ MoveOn(t, [s EXCEPT !.pass = 2, !.bit = 0, !.run = 0])
              /\ UNCHANGED req
           \/ /\ s.pass = 2
              /\ s.run > 0
              /\ scan' = [scan EXCEPT ![t].bit = s.first]
              /\ pc' = [pc EXCEPT ![t] = "carry"]
              /\ UNCHANGED <<req, clm>>
           \/ /\ s.pass = 2
              /\ s.run = 0
              /\ Return(t)
        /\ UNCHANGED <<map, claim, hint, held>>

(* The run left open is extended beyond `first' page by page; pass 3 marks *)
(* that a failed claim ends the search.                                    *)
CarryOver(t) ==
    LET s == scan[t]
        more == s.bit < TotalBits /\ s.bit \notin map
        full == s.run + s.ext + 1 >= req[t].count
    IN  /\ pc[t] = "carry"
        /\ \/ /\ more
              /\ full
              /\ StartClaim(t, s.from, req[t].count)
              /\ scan' = [scan EXCEPT ![t].pass = 3]
              /\ UNCHANGED req
           \/ /\ more
              /\ ~ full
              /\ MoveOn(t, [s EXCEPT !.ext = @ + 1, !.bit = @ + 1])
              /\ UNCHANGED req
           \/ /\ ~ more
              /\ Return(t)
        /\ UNCHANGED <<map, claim, hint, held>>

-----------------------------------------------------------------------------
(* try_claim. *)

(* What a failed try_claim means to its caller: the next page, the next    *)
(* run, or None.                                                           *)
ClaimFailed(t) ==
    \/ /\ req[t].op = "single"
       /\ pc' = [pc EXCEPT ![t] = "pick"]
       /\ clm' = [clm EXCEPT ![t] = NoClaim]
       /\ UNCHANGED <<req, scan>>
    \/ /\ req[t].op = "multi"
       /\ scan[t].pass < 3
       /\ pc' = [pc EXCEPT ![t] = "multi"]
       /\ clm' = [clm EXCEPT ![t] = NoClaim]
       /\ UNCHANGED <<req, scan>>
    \/ /\ req[t].op = "grow" \/ scan[t].pass = 3
       /\ Return(t)

ClaimLoad(t) ==
    /\ pc[t] = "load"
    /\ LET c == clm[t]
       IN  clm' = [clm EXCEPT ![t].val = claim \cap WordAt(c.start + c.done)]
    /\ pc' = [pc EXCEPT ![t] = "check"]
    /\ UNCHANGED <<map, claim, hint, held, req, scan>>

(* Mutant: only the claim word is looked at. *)
ClaimCheck_ClaimOnly(t) ==
    /\ pc[t] = "check"
    /\ LET c == clm[t]
           busy == c.val \cap Mask(c) # {}
       IN  \/ /\ ~ busy
              /\ pc' = [pc EXCEPT ![t] = "cas"]
              /\ UNCHANGED <<req, scan, clm>>
           \/ busy /\ c.done = 0 /\ ClaimFailed(t)
           \/ /\ busy
              /\ c.done > 0
              /\ pc' = [pc EXCEPT ![t] = "rollback"]
              /\ clm' = [clm EXCEPT ![t] = [c EXCEPT !.count = c.done,
                                                     !.done = 0, !.val = {}]]
              /\ UNCHANGED <<req, scan>>
    /\ UNCHANGED <<map, claim, hint, held>>

(* Mutant: the attempt ends without the rollback. *)
ClaimCheck_NoRollback(t) ==
    /\ pc[t] = "check"
    /\ LET c == clm[t]
           busy == (c.val \cup map) \cap Mask(c) # {}
       IN  \/ /\ ~ busy
              /\ pc' = [pc EXCEPT ![t] = "cas"]
              /\ UNCHANGED <<req, scan, clm>>
           \/ busy /\ ClaimFailed(t)
    /\ UNCHANGED <<map, claim, hint, held>>

(* Load the map word.  A page that is claimed or in use ends the attempt;  *)
(* the words claimed so far, done bits of them, are rolled back.           *)
ClaimCheck(t) ==
    /\ pc[t] = "check"
    /\ LET c == clm[t]
           busy == (c.val \cup map) \cap Mask(c) # {}
       IN  \/ /\ ~ busy
              /\ pc' = [pc EXCEPT ![t] = "cas"]
              /\ UNCHANGED <<req, scan, clm>>
           \/ /\ busy
              /\ c.done = 0
              /\ ClaimFailed(t)
           \/ /\ busy
              /\ c.done > 0
              /\ pc' = [pc EXCEPT ![t] = "rollback"]
              /\ clm' = [clm EXCEPT ![t] = [c EXCEPT !.count = c.done,
                                                     !.done = 0, !.val = {}]]
              /\ UNCHANGED <<req, scan>>
    /\ UNCHANGED <<map, claim, hint, held>>

(* Go to the next word of the run, or, when it is complete, to phase p     *)
(* from its first word.                                                    *)
NextWordOr(t, here, p) ==
    LET c == clm[t]
    IN  /\ clm' = [clm EXCEPT ![t] = [c EXCEPT
                      !.done = IF Complete(c) THEN 0 ELSE Advance(c).done,
                      !.val = {}]]
        /\ pc' = [pc EXCEPT ![t] = IF Complete(c) THEN p ELSE here]

(* Mutant: the claim bits are or-ed in without the comparison. *)
ClaimCasOk_Blind(t) ==
    /\ pc[t] = "cas"
    /\ claim' = claim \cup Mask(clm[t])
    /\ NextWordOr(t, "load", "publish")
    /\ UNCHANGED <<map, hint, held, req, scan>>

ClaimCasOk(t) ==
    LET c == clm[t]
    IN  /\ pc[t] = "cas"
        /\ claim \cap WordAt(c.start + c.done) = c.val
        /\ claim' = claim \cup Mask(c)
        /\ NextWordOr(t, "load", "publish")
        /\ UNCHANGED <<map, hint, held, req, scan>>

(* Mutant: the failed exchange does not refresh the expected value. *)
ClaimCasFail_Stale(t) ==
    LET c == clm[t]
    IN  /\ pc[t] = "cas"
        /\ claim \cap WordAt(c.start + c.done) # c.val \/ SpuriousFailures
        /\ pc' = [pc EXCEPT ![t] = "check"]
        /\ UNCHANGED <<map, claim, hint, held, req, scan, clm>>

ClaimCasFail(t) ==
    LET c == clm[t]
        actual == claim \cap WordAt(c.start + c.done)
    IN  /\ pc[t] = "cas"
        /\ actual # c.val \/ SpuriousFailures
        /\ clm' = [clm EXCEPT ![t].val = actual]
        /\ pc' = [pc EXCEPT ![t] = "check"]
        /\ UNCHANGED <<map, claim, hint, held, req, scan>>

(* All words are claimed: set the map bits, word by word. *)
Publish(t) ==
    /\ pc[t] = "publish"
    /\ map' = map \cup Mask(clm[t])
    /\ NextWordOr(t, "publish", "release")
    /\ UNCHANGED <<claim, hint, held, req, scan>>

(* The run the call has gained when try_claim returns true. *)
Gained(t) ==
    IF req[t].op = "grow" THEN [req[t].run EXCEPT !.count = req[t].count]
    ELSE [start |-> clm[t].start, count |-> clm[t].count]

(* Then drop the claims, word by word.  With the last one the call returns *)
(* its pages; alloc_single and alloc_multi leave the hint at their word.   *)
Release(t) ==
    LET c == clm[t]
    IN  /\ pc[t] = "release"
        /\ claim' = claim \ Mask(c)
        /\ \/ /\ ~ Complete(c)
              /\ clm' = [clm EXCEPT ![t] = Advance(c)]
              /\ UNCHANGED <<hint, held, pc, req, scan>>
           \/ /\ Complete(c)
              /\ held' = [held EXCEPT ![t] = (@ \ {req[t].run}) \cup {Gained(t)}]
              /\ hint' = IF req[t].op = "grow" THEN hint
                         ELSE c.start \div WordBits
              /\ Return(t)
        /\ UNCHANGED map

(* rollback_claim: drop the claims of the words already claimed. *)
RollbackClaim(t) ==
    LET c == clm[t]
    IN  /\ pc[t] = "rollback"
        /\ claim' = claim \ Mask(c)
        /\ \/ /\ ~ Complete(c)
              /\ clm' = [clm EXCEPT ![t] = Advance(c)]
              /\ UNCHANGED <<pc, req, scan>>
           \/ /\ Complete(c)
              /\ ClaimFailed(t)
        /\ UNCHANGED <<map, hint, held>>

(* rollback: clear the map bits of a freed run one page at a time; free    *)
(* then moves the hint back to its word if that is lower.                  *)
ClearBit(t) ==
    LET c == clm[t]
    IN  /\ pc[t] = "clear"
        /\ map' = map \ {c.start + c.done}
        /\ \/ /\ c.done + 1 < c.count
              /\ clm' = [clm EXCEPT ![t].done = @ + 1]
              /\ UNCHANGED <<hint, pc, req, scan>>
           \/ /\ c.done + 1 = c.count
              /\ hint' = IF req[t].op = "free" /\ c.start \div WordBits < hint
                         THEN c.start \div WordBits ELSE hint
              /\ Return(t)
        /\ UNCHANGED <<claim, held>>

-----------------------------------------------------------------------------
(* What the program asks for, and the steps of a call in progress. *)

MayHold(t) == Cardinality(held[t]) < MaxHeld

Request(t) ==
    \/ MayHold(t) /\ AllocSingle(t)
    \/ \E n \in 2 .. MaxCount : MayHold(t) /\ AllocMulti(t, n)
    \/ \E r \in held[t] :
          \/ Free(t, r)
          \/ \E n \in 1 .. MaxCount : Shrink(t, r, n) \/ Grow(t, r, n)
          \/ \E u \in Threads : MayHold(u) /\ Hand(t, u, r)

Search(t) ==
    LoadWord(t) \/ PickBit(t) \/ ScanMulti(t) \/ EndPass(t) \/ CarryOver(t)

TryClaim(t) ==
    \/ ClaimLoad(t) \/ ClaimCheck(t) \/ ClaimCasOk(t) \/ ClaimCasFail(t)
    \/ Publish(t) \/ RollbackClaim(t)

Next == \E t \in Threads :
            Request(t) \/ Search(t) \/ TryClaim(t) \/ Release(t) \/ ClearBit(t)

Spec == Init /\ [][Next]_vars

-----------------------------------------------------------------------------
(* try_claim reads the map word before the compare-exchange and not again  *)
(* after it.  The exchange compares the claim word only, so a thread that  *)
(* pauses between the two steps does not notice another one that claimed,  *)
(* published AND released the same pages meanwhile.  TimelySpec leaves     *)
(* those schedules out: no thread drops a claim on a page that another one *)
(* has just checked and is about to claim.                                 *)

Timely(t) == \A u \in Threads \ {t} :
                 pc[u] = "cas" => Mask(clm[u]) \cap Mask(clm[t]) = {}

TimelyNext ==
    \E t \in Threads :
        \/ Request(t) \/ Search(t) \/ TryClaim(t) \/ ClearBit(t)
        \/ Timely(t) /\ Release(t)

TimelySpec == Init /\ [][TimelyNext]_vars
-----------------------------------------------------------------------------
(* Fairness: every thread in a call keeps running.  Callers need not call. *)

Step(t) == Search(t) \/ TryClaim(t) \/ ClearBit(t) \/ (Timely(t) /\ Release(t))

FairSpec == TimelySpec /\ \A t \in Threads : WF_vars(Step(t))

-----------------------------------------------------------------------------
(* Properties. *)

PCs == {"idle", "single", "pick", "multi", "carry", "load", "check", "cas",
        "publish", "release", "rollback", "clear"}

Ops == {"none", "single", "multi", "grow", "free", "shrink"}

(* The type invariant: the bitmaps hold bits of the segment, what threads  *)
(* own are runs of its pages, and the locals stay in range.                *)
TypeOK ==
    /\ map \subseteq Bits
    /\ claim \subseteq Bits
    /\ hint \in Nat
    /\ held \in [Threads -> SUBSET Runs]
    /\ pc \in [Threads -> PCs]
    /\ req \in [Threads -> [op : Ops, count : Nat, run : [start : Nat, count : Nat]]]
    /\ scan \in [Threads -> [first : Nat, pass : 1 .. 3, bit : Nat, run : Nat,
                             from : Nat, ext : Nat, chunk : SUBSET Nat]]
    /\ clm \in [Threads -> [start : Nat, count : Nat, done : Nat,
                            val : SUBSET Bits]]

(* The bits of the claim bitmap that thread t has set and not yet cleared. *)
Claimed(t) ==
    LET c == clm[t]
    IN  CASE pc[t] \in {"load", "check", "cas"} -> c.start .. c.start + c.done - 1
          [] pc[t] = "publish" -> Pages(c)
          [] pc[t] \in {"release", "rollback"} ->
                 (c.start + c.done) .. (c.start + c.count - 1)
          [] OTHER -> {}

(* No two threads hold the claim of one page: the compare-exchange of      *)
(* try_claim admits one thread to a page at a time, whatever the others    *)
(* do between its load and its exchange, and the release and the rollback  *)
(* of one thread never drop a claim of another.                            *)
ClaimExclusive ==
    \A t, u \in Threads : t # u => Claimed(t) \cap Claimed(u) = {}

(* The claim bitmap holds the claims of the calls in progress and nothing  *)
(* else: a try_claim that fails half way leaves no bit behind that would   *)
(* make its pages unusable for ever.                                       *)
ClaimAccounted == claim = UNION {Claimed(t) : t \in Threads}

(* No page is part of two live allocations: alloc_single, alloc_multi and  *)
(* realloc_inplace return pages nobody owns.                               *)
HeldDisjoint ==
    \A t, u \in Threads : \A r \in held[t], q \in held[u] :
        (t # u \/ r # q) => Pages(r) \cap Pages(q) = {}

HeldPages == UNION {Pages(r) : r \in UNION {held[t] : t \in Threads}}

(* The pages whose map bit a call in progress has set but not returned, or *)
(* has been given back but not cleared.                                    *)
InTransit(t) ==
    LET c == clm[t]
    IN  CASE pc[t] = "publish" -> c.start .. c.start + c.done - 1
          [] pc[t] = "release" -> Pages(c)
          [] pc[t] = "clear" -> (c.start + c.done) .. (c.start + c.count - 1)
          [] OTHER -> {}

(* The map bitmap holds exactly the pages of live allocations and of calls *)
(* in progress: free and the shrinking realloc_inplace lose no page, and   *)
(* no live page ever looks free to a search.                               *)
MapAccounted == map = HeldPages \cup UNION {InTransit(t) : t \in Threads}

(* A search that nobody disturbs is complete: alloc_single and alloc_multi *)
(* return None only when no run of the requested length is free, wherever  *)
(* the hint and the random offset let the two passes start.                *)
Searching(t) == pc[t] \in {"single", "pick", "multi", "carry"}

FreeRun(n) == \E s \in Bits : s + n <= TotalBits /\ s .. (s + n - 1) \subseteq Bits \ map

NoneOnlyWhenFull ==
    [][\A t \in Threads :
          Searching(t) /\ pc'[t] = "idle" => ~ FreeRun(req[t].count)]_vars

(* What the segment promises: module PageAllocator. *)
Promise == INSTANCE PageAllocator

(* Seen from its callers the segment is an allocator of disjoint runs of   *)
(* pages: every step of try_claim, release, free and realloc_inplace is an *)
(* allocation from unowned pages, a return, a resize, or invisible.        *)
ImplementsPageAllocator == Promise!Spec

(* Lock-freedom: some threads being inside calls of the segment, it never  *)
(* stays that way: one of them returns or another one calls.  Failed       *)
(* claims and lost compare-exchanges never keep a thread that runs alone,  *)
(* or all the threads together, in try_claim or in a search for ever.      *)
Active == {t \in Threads : pc[t] # "idle"}

LockFree == \A S \in SUBSET Threads : S # {} => (Active = S ~> Active # S)
=============================================================================
