----------------------------- MODULE MCBigalloc -----------------------------
(* Bigalloc on a few table entries and pages of two address units, so that *)
(* an allocation may begin or end in the middle of a page.  The operations *)
(* only compare allocators with each other, so these may be permuted.      *)
EXTENDS Bigalloc, TLC

AllocatorSymmetry == Permutations(Allocators)
=============================================================================
