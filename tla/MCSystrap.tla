----------------------------- MODULE MCSystrap -----------------------------
(***************************************************************************)
(* Three threads over three pages; threads and pages are interchangeable.  *)
(***************************************************************************)
EXTENDS Systrap, TLC
CONSTANTS t1, t2, t3, p1, p2, p3

ThreeThreads == {t1, t2, t3}
TwoThreads == {t1, t2}
ThreePages == {p1, p2, p3}
Serialised == {"no_reuse_in_flight"}
OwnPages == {"own_pages"}
Interchangeable == Permutations(ThreeThreads) \cup Permutations(ThreePages)
=============================================================================
