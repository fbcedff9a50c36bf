--------------------------- MODULE MCMallocIndex ---------------------------
(***************************************************************************)
(* MallocIndex in two regimes: without promoted chunks, and with them.     *)
(* The arena does not begin at a boundary of the bitmap's words, which     *)
(* have two bits; the malloc aligns to two units of the size of an insert. *)
(***************************************************************************)
EXTENDS MallocIndex, TLC

Unpromoting == {"nonzero", "none_promoted"}
Promoting == {"nonzero", "promoted_not_shrunk", "promoted_grow", "shrunk_no_larger"}
MCRegimes == {Unpromoting, Promoting}

Interchangeable == Permutations(Threads)
=============================================================================
