-------------------------- MODULE MappingSequence --------------------------
(***************************************************************************)
(* struct mapping_sequence (src/liballocs_private.h) and the operations on *)
(* it in src/allocators/mmap.c: a run of abutting memory mappings that the *)
(* mmap allocator treats as one allocation, at most one file among them.   *)
(* A sequence is a value; nused is the length of mappings.  An entry keeps *)
(* of the mmap flags only MAP_FIXED, and no file offset; of a caller only  *)
(* the loaded object it belongs to (get_highest_loaded_object_below).      *)
(***************************************************************************)
EXTENDS Naturals, FiniteSetsExt, SequencesExt

CONSTANTS MaxLen,       \* MAPPING_SEQUENCE_MAX_LEN
          NoFile,       \* a NULL filename: the mapping is anonymous
          NoCaller      \* a NULL caller

ASSUME MaxLenAssumption == MaxLen \in Nat \ {0}

EmptySequence ==
    [begin |-> 0, end |-> 0, filename |-> NoFile, mappings |-> <<>>]

\* A request r: what mmap was asked for.  The entry that records it.
EntryFor(r) ==
    [begin |-> r.begin, end |-> r.end, prot |-> r.prot, fixed |-> r.fixed,
     is_anon |-> r.file = NoFile, caller |-> r.caller]

\* Bounds that merely touch on the left count as overlapping.
OVERLAPS(b1, e1, b2, e2) == b1 < e2 /\ e1 >= b2

\* The entry that holds an address, as a set: find_entry's NULL is {}.
find_entry(addr, seq) ==
    {e \in Range(seq.mappings) : e.begin <= addr /\ addr < e.end}

\* What check_mapping_sequence_sanity asserts.
check_mapping_sequence_sanity(seq) ==
    LET m == seq.mappings
    IN  m # <<>> =>
          /\ seq.begin = m[1].begin /\ seq.end = m[Len(m)].end
          /\ \A i \in DOMAIN m : 0 < m[i].begin /\ m[i].begin < m[i].end
          /\ \A i \in DOMAIN m \ {1} : m[i-1].end = m[i].begin
-----------------------------------------------------------------------------
is_clean_extension(seq, r) == seq.end = 0 \/ seq.end = r.begin

\* The first filename_is_consistent: r follows the end of the sequence.
MayFollow(seq, r) ==
    \/ r.file = NoFile /\ seq.filename = NoFile
    \/ seq.mappings = <<>>
    \/ r.file = NoFile /\ r.prot = "none"
    \/ /\ r.file = NoFile /\ seq.filename # NoFile
       /\ ~Last(seq.mappings).is_anon
       /\ r.caller = Last(seq.mappings).caller
    \/ r.file # NoFile /\ r.file = seq.filename

Extended(seq, r) ==
    [begin    |-> IF seq.begin = 0 THEN r.begin ELSE seq.begin,
     end      |-> r.end,
     filename |-> IF seq.filename = NoFile THEN r.file ELSE seq.filename,
     mappings |-> Append(seq.mappings, EntryFor(r))]

Overlapped(seq, r) ==
    {i \in DOMAIN seq.mappings :
        OVERLAPS(seq.mappings[i].begin, seq.mappings[i].end, r.begin, r.end)}
first_overlapped(seq, r) == Min(Overlapped(seq, r))
last_overlapped(seq, r) == Max(Overlapped(seq, r))
begin_overlap_is_partial(seq, r) ==
    seq.mappings[first_overlapped(seq, r)].begin # r.begin
end_overlap_is_partial(seq, r) ==
    seq.mappings[last_overlapped(seq, r)].end # r.end

\* The second filename_is_consistent: r replaces part of the sequence.  No
\* anonymous entry may come to precede one of a file ("rising edge").
MayReplace(seq, r) ==
    LET m == seq.mappings
        first == first_overlapped(seq, r)
        preceding == IF begin_overlap_is_partial(seq, r) THEN first ELSE first - 1
        following == last_overlapped(seq, r)
                       + (IF end_overlap_is_partial(seq, r) THEN 0 ELSE 1)
    IN  \/ r.file = NoFile /\ seq.filename = NoFile
        \/ /\ r.file = NoFile \/ seq.filename = NoFile \/ r.file = seq.filename
           /\ preceding # 0 => ~(m[preceding].is_anon /\ r.file # NoFile)
           /\ following <= Len(m) => ~(r.file = NoFile /\ ~m[following].is_anon)
           /\ NoCaller \in {r.caller, m[first].caller} \/ r.caller = m[first].caller

HasRoom(seq, r) ==
    MaxLen - Len(seq.mappings) >=
        (IF begin_overlap_is_partial(seq, r) THEN 1 ELSE 0)
      + (IF end_overlap_is_partial(seq, r) THEN 1 ELSE 0)

\* What the overlapped entries leave on either side of r.
RemnantBefore(seq, r) ==
    IF begin_overlap_is_partial(seq, r)
    THEN <<[seq.mappings[first_overlapped(seq, r)] EXCEPT !.end = r.begin]>>
    ELSE <<>>
RemnantAfter_Dropped(seq, r) == <<>>
RemnantAfter(seq, r) ==
    IF end_overlap_is_partial(seq, r)
    THEN <<[seq.mappings[last_overlapped(seq, r)] EXCEPT !.begin = r.end]>>
    ELSE <<>>

\* The bounds of the sequence are not touched in this case.
Replaced(seq, r) ==
    [seq EXCEPT !.mappings =
        SubSeq(@, 1, first_overlapped(seq, r) - 1)
          \o RemnantBefore(seq, r) \o <<EntryFor(r)>> \o RemnantAfter(seq, r)
          \o SubSeq(@, last_overlapped(seq, r) + 1, Len(@))]

\* Whether augment_sequence succeeds, and the sequence when it does.
CanAugment(seq, r) ==
    /\ Len(seq.mappings) # MaxLen
    /\ seq.begin <= r.begin
    /\ IF is_clean_extension(seq, r) THEN MayFollow(seq, r)
       ELSE /\ OVERLAPS(seq.begin, seq.end, r.begin, r.end)
            /\ MayReplace(seq, r)
            /\ HasRoom(seq, r)
augment_sequence(seq, r) ==
    IF is_clean_extension(seq, r) THEN Extended(seq, r) ELSE Replaced(seq, r)
-----------------------------------------------------------------------------
\* One entry after [lo, hi) is deleted: nothing, or what is left on one side.
EntryWithoutSpan(e, lo, hi) ==
    IF ~(e.begin <= hi /\ lo < e.end) THEN <<e>>
    ELSE IF lo <= e.begin /\ e.end <= hi THEN <<>>
    ELSE IF lo <= e.begin THEN <<[e EXCEPT !.begin = hi]>>
    ELSE <<[e EXCEPT !.end = lo]>>

\* A span that lies strictly within one entry aborts ("we can't punch
\* holes, yet"): no caller in mmap.c passes one.
delete_mapping_sequence_span(seq, lo, hi) ==
    [seq EXCEPT
       !.mappings = FlattenSeq([i \in DOMAIN @ |-> EntryWithoutSpan(@[i], lo, hi)]),
       !.begin = IF lo <= @ /\ @ < hi THEN hi ELSE @,
       !.end = IF lo < @ /\ @ <= hi THEN lo ELSE @]
=============================================================================
