---------------------------- MODULE RecentRanges ----------------------------
(***************************************************************************)
(* What the memory range cache promises, without its links: the most       *)
(* recently used ranges, newest first, at most Slots of them.              *)
(***************************************************************************)
EXTENDS Naturals, Sequences

CONSTANTS Slots, Ranges     \* Ranges: what may be cached

VARIABLE recent

Init == recent = <<>>

\* The range at place k in front, and a new one in front of s, which loses the
\* range used longest ago when there is no room.
Fronted(k) == <<recent[k]>> \o (SubSeq(recent, 1, k - 1) \o SubSeq(recent, k + 1, Len(recent)))
Added(r, s) == <<r>> \o (IF Len(s) < Slots THEN s ELSE SubSeq(s, 1, Len(s) - 1))

Use(k) == recent' = Fronted(k)
Insert(r) == recent' = Added(r, recent)
\* Everything that begins in [lo, hi) is forgotten; the rest keep their order.
Kept(lo, hi) == {k \in DOMAIN recent : ~(lo <= recent[k].obj_base /\ recent[k].obj_base < hi)}
Forget(lo, hi) ==
    \E place \in [DOMAIN recent' -> DOMAIN recent] :
        /\ \A j, k \in DOMAIN recent' : j < k => place[j] < place[k]
        /\ {place[k] : k \in DOMAIN recent'} = Kept(lo, hi)
        /\ \A k \in DOMAIN recent' : recent'[k] = recent[place[k]]

\* A query that finds a range at the wrong depth uses it and inserts its own.
UseAndInsert(k, r) == recent' = Added(r, Fronted(k))

Next ==
    \/ \E k \in DOMAIN recent : Use(k) \/ (\E r \in Ranges : UseAndInsert(k, r))
    \/ \E r \in Ranges : Insert(r)
    \/ \E r \in Ranges : Forget(r.obj_base, r.obj_limit)

Spec == Init /\ [][Next]_recent
=============================================================================
