----------------------------- MODULE RunGeometry -----------------------------
(***************************************************************************)
(* The arithmetic of memflux-preload: size classes, the layout of a run    *)
(* (header, free bitmap, data) and the page scan of the purge.  Everything *)
(* is a function of the constants of preload.cpp, so the same operators    *)
(* serve the real table and the scaled-down ones TLC explores.             *)
(*                                                                         *)
(* A class is numbered from 1, as Run::cls is.  A block of a run is named  *)
(* by its index 0 .. Elems(c) - 1.  All sizes are in the same unit.        *)
(***************************************************************************)
EXTENDS Integers, Sequences

CONSTANTS
  kSizes,      \* block size of every class, in increasing order
  kRunSize,    \* alignment of a run and nominal size of its data (2 MiB)
  kMaxElems,   \* most blocks a run may hold (65536)
  PageSize,    \* 4096
  RunHdr,      \* sizeof(Run) without the bitmap
  WordBits,    \* blocks per bitmap word (64)
  WordBytes    \* size of a bitmap word (8)

ASSUME GeometryAssumption ==
  /\ kSizes \in Seq(Nat \ {0})
  /\ kRunSize \in Nat \ {0}
  /\ kMaxElems \in Nat \ {0}
  /\ PageSize \in Nat \ {0}
  /\ RunHdr \in Nat
  /\ WordBits \in Nat \ {0}
  /\ WordBytes \in Nat
  /\ \A c \in 1 .. Len(kSizes) : kSizes[c] <= kRunSize

kNumClasses == Len(kSizes)
Classes == 1 .. kNumClasses

RoundUp(x, a) == ((x + a - 1) \div a) * a

Elem(c) == kSizes[c]

\* Blocks carved from a run of class c (run_new).
Elems(c) ==
  IF kRunSize \div Elem(c) > kMaxElems THEN kMaxElems ELSE kRunSize \div Elem(c)

Idx(c) == 0 .. Elems(c) - 1

bits_words(e) == (e + WordBits - 1) \div WordBits

data_offset_padded(e) == RoundUp(RunHdr + bits_words(e) * WordBytes, PageSize)

data_len(c) == Elems(c) * Elem(c)

run_bytes(c) == data_offset_padded(Elems(c)) + data_len(c)

\* Bytes mapped for a run.
run_map(c) == RoundUp(run_bytes(c), PageSize)

\* Where block i starts, counted from the run's (kRunSize-aligned) base.
block_offset(c, i) == data_offset_padded(Elems(c)) + i * Elem(c)

\* MUTANT of run_of_finds: run_of assumes runs of a smaller alignment.
run_of_finds_SmallMask(c, i) == block_offset(c, i) < PageSize

\* run_of clears the low bits of the pointer: it yields the base of the run
\* only for the blocks that start in the run's first kRunSize bytes.
run_of_finds(c, i) == block_offset(c, i) < kRunSize
-----------------------------------------------------------------------------
(* The page scan of purge_run.  Page k of a run is the k-th page of its    *)
(* data area.                                                              *)

\* The pages the loop looks at: only whole pages of the data area.
Pages(c) == 0 .. (data_len(c) \div PageSize) - 1

\* MUTANT of PageBlocks: the last block of the page is not looked at.
PageBlocks_OffByOne(c, k) ==
  LET b0 == (k * PageSize) \div Elem(c)
      b1 == ((k + 1) * PageSize) \div Elem(c)
  IN  b0 .. (IF b1 > Elems(c) THEN Elems(c) ELSE b1) - 2

\* The blocks b0 .. b1 - 1 the loop takes for the blocks of page k.
PageBlocks(c, k) ==
  LET b0 == (k * PageSize) \div Elem(c)
      b1 == ((k + 1) * PageSize) \div Elem(c)
  IN  b0 .. (IF b1 > Elems(c) THEN Elems(c) ELSE b1) - 1

\* Classes the purge leaves alone.
Unpurged(c) == Elem(c) >= PageSize /\ Elem(c) % PageSize # 0

\* The pages returned by madvise(MADV_DONTNEED) when `free` is the bitmap: the
\* loop ends at the first page for which it finds no block.
purge_pages(c, free) ==
  IF Unpurged(c)
  THEN {}
  ELSE {k \in Pages(c) : /\ \A j \in 0 .. k : PageBlocks(c, j) # {}
                         /\ PageBlocks(c, k) \subseteq free}

\* Block b really has bytes on page k.
Overlaps(c, b, k) ==
  /\ b * Elem(c) < (k + 1) * PageSize
  /\ (b + 1) * Elem(c) > k * PageSize

\* Block b is smaller than a page and continues on the page after the one it starts on.
Straddles(c, b) ==
  /\ Elem(c) < PageSize
  /\ \E k \in Pages(c) :
       b * Elem(c) < (k + 1) * PageSize /\ (k + 1) * PageSize < (b + 1) * Elem(c)
=============================================================================
