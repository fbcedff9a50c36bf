---------------------------- MODULE SmallObjects ----------------------------
(***************************************************************************)
(* What the generic small-object index promises to its clients: a set of   *)
(* disjoint objects inside one chunk.  Indexing an object silently forgets *)
(* whatever it overlaps ("a HACK to deal with GCs that don't notify us on  *)
(* free", generic_small.c); unindexing an address forgets the object that  *)
(* contains it.  GenericSmall is shown to implement this module.           *)
(***************************************************************************)
EXTENDS Naturals

CONSTANT ChunkSize

VARIABLE objects

Extent == {o \in [start : 0 .. ChunkSize - 1, size : 1 .. ChunkSize] :
              o.start + o.size <= ChunkSize}

Overlap(o, q) == o.start < q.start + q.size /\ q.start < o.start + o.size

Covers(o, addr) == o.start <= addr /\ addr < o.start + o.size

Init == objects = {}

Index(o) == objects' = {q \in objects : ~Overlap(o, q)} \cup {o}

Unindex(addr) ==
    \E o \in objects : Covers(o, addr) /\ objects' = objects \ {o}

Next == \/ \E o \in Extent : Index(o)
        \/ \E addr \in 0 .. ChunkSize - 1 : Unindex(addr)

Spec == Init /\ [][Next]_objects
=============================================================================
