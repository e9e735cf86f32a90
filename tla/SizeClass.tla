------------------------------ MODULE SizeClass ------------------------------
(***************************************************************************)
(* Size classes (slab/mod.rs) and the layout of the regions their blocks   *)
(* are cut from (slab/bulk_allocation.rs).  The tables are those of the    *)
(* code.  A model may use a first part of them, with its last class as the *)
(* largest one, so that blocks above it stay small.  Classes are numbered  *)
(* from 1, not from 0.                                                     *)
(***************************************************************************)
EXTENDS Integers, Sequences

CONSTANT NUM_SIZE_CLASSES  \* how many classes are in use: 34 in the code

SIZE_CLASSES ==
    <<16, 32, 48, 64, 80, 96, 128, 160, 192, 256, 320, 384, 512, 768, 1024,
      1280, 1536, 1792, 2048, 2560, 3072, 3840, 4096, 8192, 12288, 16384,
      24576, 32768, 65536, 131072, 262144, 524288, 1048576, 2097152>>

ITERATIONS ==
    <<409, 341, 292, 255, 227, 153, 170, 36, 31, 25, 21, 18, 14, 9, 7,
      6, 2, 4, 3, 1, 2, 1, 1, 1, 1, 1,
      1, 1, 1, 1, 1, 1, 1, 1>>

Classes == 1 .. NUM_SIZE_CLASSES

(* The class of blocks above the largest size class. *)
BIG == 100

LUT_MAX == 4096

MAX_CLASS_SIZE == SIZE_CLASSES[NUM_SIZE_CLASSES]

PAGE == 4096

HEADER_SIZE == 16

META_SIZE == 32

(* The look-up table covers all sizes up to LUT_MAX, and is right because  *)
(* the sizes grow and those it covers are multiples of its step.  Header   *)
(* and metadata never take a block to one page more.                       *)
ASSUME SizeClassAssumption ==
    /\ NUM_SIZE_CLASSES \in 23 .. 34
    /\ SIZE_CLASSES \in [1 .. 34 -> Nat] /\ ITERATIONS \in [1 .. 34 -> Nat \ {0}]
    /\ \A c, d \in 1 .. 34 : c < d => SIZE_CLASSES[c] < SIZE_CLASSES[d]
    /\ \A c \in 1 .. 34 : SIZE_CLASSES[c] % 16 = 0
    /\ SIZE_CLASSES[23] = LUT_MAX
    /\ \A c \in 1 .. 34 : SIZE_CLASSES[c] % PAGE <= PAGE - HEADER_SIZE - META_SIZE

align_to(size, align) == ((size + align - 1) \div align) * align

(* The first class from the front that is not smaller than size. *)
FirstAtLeast(size) ==
    CHOOSE c \in Classes : /\ SIZE_CLASSES[c] >= size
                           /\ \A d \in Classes : SIZE_CLASSES[d] >= size => c <= d

SIZE_LUT == [i \in 0 .. 255 |-> FirstAtLeast((i + 1) * 16)]

match_size_class(size) ==
    IF size = 0 \/ size > MAX_CLASS_SIZE THEN BIG
    ELSE IF size <= LUT_MAX THEN SIZE_LUT[(size - 1) \div 16]
    ELSE FirstAtLeast(size)

-----------------------------------------------------------------------------
(* Layout. *)

(* Mutant: blocks are laid out without room for their headers. *)
BlockSize_NoHeader(c) == align_to(SIZE_CLASSES[c], 16)

BlockSize(c) == align_to(SIZE_CLASSES[c] + HEADER_SIZE, 16)

RegionSize(c) == META_SIZE + BlockSize(c) * ITERATIONS[c]

(* Where the header of block i of a region at address a is. *)
BlockAt(a, c, i) == a + META_SIZE + i * BlockSize(c)
=============================================================================
