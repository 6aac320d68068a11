----------------------------- MODULE MCAllocator -----------------------------
(***************************************************************************)
(* Scaled-down instances of Allocator.  A page is 4 units; the block sizes *)
(* are given per instance.                                                 *)
(***************************************************************************)
EXTENDS Allocator, TLC

\* One class, two blocks per page.
MCOneClass == <<2>>

\* One class, one block per page.
MCPageClass == <<4>>

\* Two blocks per page, and blocks of which the second crosses a page boundary.
MCTwoClasses == <<2, 3>>

\* Blocks that straddle pages.
MCStraddle == <<3>>

MCSymmetry == Permutations(Threads)
=============================================================================
