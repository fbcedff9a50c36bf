-------------------------------- MODULE Mmap --------------------------------
(***************************************************************************)
(* The mmap allocator (src/allocators/mmap.c): what it does when told that *)
(* the kernel has carried out an mmap, munmap or mremap.  kernel is what   *)
(* is really mapped; bigallocs is the record of it, the top-level big      *)
(* allocations of this allocator, each with its mapping sequence.  A call  *)
(* and its notification are one step here (for the gap between them, see   *)
(* module Systrap).  aborted holds after an abort().                       *)
(*                                                                         *)
(* Contracts names the restrictions on the program's calls under which the *)
(* record is right; a run drops one of them to show what the code does     *)
(* without it.                                                             *)
(***************************************************************************)
EXTENDS MappingSequence

CONSTANTS PageSize, NPages,     \* pages 1..NPages: page 0 is never mapped
          Lengths,              \* the lengths of a call, in address units
          Files, Prots, Callers,
          Unmapped,             \* a page of the kernel with no mapping
          Contracts

ASSUME GeometryAssumption == PageSize \in Nat \ {0} /\ NPages \in Nat \ {0}
ASSUME ContractsAssumption ==
    Contracts \subseteq {"fixed_within", "remap_free", "remap_same_size",
                         "remap_aligned", "remap_named"}

Page == 1..NPages
ROUND_UP(n) == ((n + PageSize - 1) \div PageSize) * PageSize
PagesOf(lo, hi) == {p \in Page : lo <= p * PageSize /\ p * PageSize < hi}
Aligned == {p * PageSize : p \in Page}
Limit == (NPages + 1) * PageSize
Disjoint(b, lo, hi) == b.end <= lo \/ hi <= b.begin

VARIABLES bigallocs, kernel, aborted

vars == <<bigallocs, kernel, aborted>>

Init ==
    /\ bigallocs = {}
    /\ kernel = [p \in Page |-> Unmapped]
    /\ aborted = FALSE

Free(lo, hi) == \A p \in PagesOf(lo, hi) : kernel[p] = Unmapped
KernelMaps(pages, what) == [p \in Page |-> IF p \in pages THEN what ELSE kernel[p]]

\* __lookup_bigalloc_from_root for this allocator.
Lookup(B, addr) == {b \in B : b.begin <= addr /\ addr < b.end}
-----------------------------------------------------------------------------
Overlapping(B, r) == {b \in B : ~Disjoint(b, r.begin, r.end)}

\* do_mmap aborts on an overlap with what is recorded, unless MAP_FIXED.
OverlapsUnasked(B, r) == Overlapping(B, r) # {} /\ ~r.fixed

\* The sequence to try to extend: the one that abuts the mapping, or the only
\* one under it.
bigalloc_before(B, r) ==
    LET below == Lookup(B, r.begin - 1)
        first == Lookup(B, r.begin)
        last == Lookup(B, r.end - 1)
    IN  IF below # {} THEN below
        ELSE IF last = {} \/ first = last THEN first ELSE {}

Augmentable(B, r) == {b \in bigalloc_before(B, r) : CanAugment(b.seq, r)}

do_mmap(B, r) ==
    LET extended == Augmentable(B, r)
    IN  IF extended # {}
        THEN (B \ extended) \cup
               {[begin |-> b.begin,
                 end   |-> IF r.end > b.end THEN r.end ELSE b.end,
                 seq   |-> augment_sequence(b.seq, r)] : b \in extended}
        ELSE B \cup {[begin |-> r.begin, end |-> r.end,
                      seq |-> augment_sequence(EmptySequence, r)]}

Remnants(b, lo, hi) ==
    IF Disjoint(b, lo, hi) THEN {b}
    ELSE {c \in {[begin |-> b.begin, end |-> lo,
                  seq |-> delete_mapping_sequence_span(b.seq, lo, b.end)],
                 [begin |-> hi, end |-> b.end,
                  seq |-> delete_mapping_sequence_span(b.seq, b.begin, hi)]} :
            c.begin < c.end}

\* The loop of do_munmap visits, in address order, each sequence under the span.
do_munmap(B, addr, requested_length) ==
    IF requested_length = 0 THEN B
    ELSE UNION {Remnants(b, addr, addr + ROUND_UP(requested_length)) : b \in B}
-----------------------------------------------------------------------------
\* MAP_FIXED over recorded mappings is within one sequence, which accepts it.
FixedWithin(B, r) ==
    \A b \in Overlapping(B, r) :
        b \in Augmentable(B, r) /\ b.begin <= r.begin /\ r.end <= b.end

\* A sequence that does not accept a mapping made over it leads to a nested
\* allocation, which this module does not represent.
NewOnlyOnFree(B, r) == Overlapping(B, r) # {} => Augmentable(B, r) # {}

notify_mmap(addr, length, file, prot, fixed, caller) ==
    LET r == [begin |-> addr, end |-> addr + ROUND_UP(length), file |-> file,
              prot |-> prot, fixed |-> fixed, caller |-> caller]
    IN  /\ r.end <= Limit
        /\ fixed \/ Free(r.begin, r.end)
        /\ kernel' = KernelMaps(PagesOf(r.begin, r.end), [file |-> file, prot |-> prot])
        /\ IF OverlapsUnasked(bigallocs, r)
           THEN aborted' = TRUE /\ UNCHANGED bigallocs
           ELSE /\ NewOnlyOnFree(bigallocs, r)
                /\ "fixed_within" \in Contracts => FixedWithin(bigallocs, r)
                /\ bigallocs' = do_mmap(bigallocs, r)
                /\ UNCHANGED aborted

notify_munmap(addr, length) ==
    /\ addr + ROUND_UP(length) <= Limit
    /\ kernel' = KernelMaps(PagesOf(addr, addr + ROUND_UP(length)), Unmapped)
    /\ bigallocs' = do_munmap(bigallocs, addr, length)
    /\ UNCHANGED aborted
-----------------------------------------------------------------------------
\* The kernel remaps one mapping, within one recorded sequence; what mremap
\* leaves mapped at the old place is [old, old + kept).
RemapSource(old, old_size, b) ==
    /\ old + old_size <= b.end
    /\ kernel[old \div PageSize] # Unmapped
    /\ \A p \in PagesOf(old, old + old_size) : kernel[p] = kernel[old \div PageSize]

KernelRemaps(new, new_size, old, old_size, kept) ==
    kernel' = [p \in Page |->
        IF p \in PagesOf(new, new + ROUND_UP(new_size)) THEN kernel[old \div PageSize]
        ELSE IF p \in PagesOf(old + kept, old + old_size) THEN Unmapped
        ELSE kernel[p]]

\* The request made for memory at [lo, hi) with the attributes of an entry: the
\* file is the sequence's, anonymous though the entry may be.
RequestLike(e, seq, lo, hi, caller) ==
    [begin |-> lo, end |-> hi, file |-> seq.filename, prot |-> e.prot,
     fixed |-> e.fixed, caller |-> caller]

\* The requests one after the other, then the unmapping of the old place.
Perform(requests, old, unmapped) ==
    IF \E i \in DOMAIN requests : OverlapsUnasked(bigallocs, requests[i])
    THEN aborted' = TRUE /\ UNCHANGED bigallocs
    ELSE /\ bigallocs' = do_munmap(FoldLeft(do_mmap, bigallocs, requests), old, unmapped)
         /\ UNCHANGED aborted

RemapContract(new, new_size, old, old_size, seq) ==
    /\ "remap_aligned" \in Contracts => new_size % PageSize = 0
    /\ "remap_free" \in Contracts /\ new # old => Free(new, new + ROUND_UP(new_size))
    /\ "remap_same_size" \in Contracts /\ new # old /\ old_size # 0 =>
          ROUND_UP(new_size) = old_size
    /\ "remap_named" \in Contracts => seq.filename = kernel[old \div PageSize].file

\* In place and smaller: like unmapping the end.
mremap_shrink(old, old_size, new_size) ==
    /\ new_size < old_size
    /\ \E b \in Lookup(bigallocs, old) :
         /\ RemapSource(old, old_size, b)
         /\ RemapContract(old, new_size, old, old_size, b.seq)
         /\ KernelRemaps(old, new_size, old, old_size, ROUND_UP(new_size))
         /\ bigallocs' = do_munmap(bigallocs, old + new_size, old_size - new_size)
         /\ UNCHANGED aborted

\* In place and larger: like a new mapping at the end.
mremap_grow(old, old_size, new_size, caller) ==
    /\ 0 < old_size /\ old_size < new_size
    /\ old + ROUND_UP(new_size) <= Limit
    /\ \E b \in Lookup(bigallocs, old) :
         /\ RemapSource(old, old_size, b)
         /\ RemapContract(old, new_size, old, old_size, b.seq)
         /\ Free(old + old_size, old + ROUND_UP(new_size))
         /\ KernelRemaps(old, new_size, old, old_size, old_size)
         /\ \E e \in find_entry(old, b.seq) :
              Perform(<<RequestLike(e, b.seq, old + old_size,
                                    old + old_size + ROUND_UP(new_size - old_size),
                                    caller)>>, old, 0)

\* The part of each entry that lies in the old place is mapped at the new one,
\* whatever the new size; memory beyond the old size is described by the slot
\* after the last entry, whose content is unknown.
MoveRequests(seq, new, new_size, old, old_size, caller) ==
    LET ent(i) == seq.mappings[i]
        lo(i) == IF ent(i).begin > old THEN ent(i).begin ELSE old
        hi(i) == IF ent(i).end < old + old_size THEN ent(i).end ELSE old + old_size
        moved == SelectSeq([i \in DOMAIN seq.mappings |-> i],
                           LAMBDA i : lo(i) < hi(i))
        requests == [k \in DOMAIN moved |->
            RequestLike(ent(moved[k]), seq, new + lo(moved[k]) - old,
                        new + hi(moved[k]) - old, caller)]
    IN  IF new_size > old_size
        THEN {Append(requests,
                     RequestLike([prot |-> p, fixed |-> f], seq, new + old_size,
                                 new + old_size + ROUND_UP(new_size - old_size), caller)) :
                p \in Prots, f \in BOOLEAN}
        ELSE {requests}

OldPlaceUnmapped(old_size, dontunmap) == IF dontunmap THEN 0 ELSE old_size

mremap_move(new, new_size, old, old_size, dontunmap, caller) ==
    /\ old_size # 0
    /\ new + ROUND_UP(new_size) <= old \/ old + old_size <= new
    /\ new + ROUND_UP(new_size) <= Limit
    /\ dontunmap => ROUND_UP(new_size) = old_size
    /\ \E b \in Lookup(bigallocs, old) :
         /\ RemapSource(old, old_size, b)
         /\ RemapContract(new, new_size, old, old_size, b.seq)
         /\ KernelRemaps(new, new_size, old, old_size, IF dontunmap THEN old_size ELSE 0)
         /\ \E requests \in MoveRequests(b.seq, new, new_size, old, old_size, caller) :
              Perform(requests, old, OldPlaceUnmapped(old_size, dontunmap))

\* An old size of zero: a second mapping of the same (shared) pages.
mremap_duplicate(new, new_size, old, caller) ==
    /\ new # old /\ new + ROUND_UP(new_size) <= Limit
    /\ \E b \in Lookup(bigallocs, old) :
         /\ RemapSource(old, 0, b)
         /\ RemapContract(new, new_size, old, 0, b.seq)
         /\ KernelRemaps(new, new_size, old, 0, 0)
         /\ \E e \in find_entry(old, b.seq) :
              Perform(<<RequestLike(e, b.seq, new, new + ROUND_UP(new_size), caller)>>, old, 0)
-----------------------------------------------------------------------------
Next ==
    /\ ~aborted
    /\ \E addr \in Aligned, length \in Lengths :
         \/ notify_munmap(addr, length)
         \/ \E caller \in Callers :
              \/ \E file \in Files \cup {NoFile}, prot \in Prots, fixed \in BOOLEAN :
                    notify_mmap(addr, length, file, prot, fixed, caller)
              \/ \E new_size \in Lengths :
                    \/ mremap_grow(addr, ROUND_UP(length), new_size, caller)
                    \/ \E new \in Aligned, dontunmap \in BOOLEAN :
                         mremap_move(new, new_size, addr, ROUND_UP(length), dontunmap, caller)
              \/ \E new \in Aligned : mremap_duplicate(new, length, addr, caller)
         \/ \E new_size \in Lengths : mremap_shrink(addr, ROUND_UP(length), new_size)

Spec == Init /\ [][Next]_vars
-----------------------------------------------------------------------------
\* A sequence passes check_mapping_sequence_sanity (its entries abut, none is
\* empty), has no more of them than its array holds, and its bounds are those of
\* its big allocation, as do_mmap asserts after extending one.
SequencesSane ==
    \A b \in bigallocs :
        /\ check_mapping_sequence_sanity(b.seq)
        /\ Len(b.seq.mappings) \in 1..MaxLen
        /\ b.seq.begin = b.begin /\ b.seq.end = b.end

EntryAgrees(e, b, what) ==
    /\ e.prot = what.prot
    /\ e.is_anon = (what.file = NoFile)
    /\ ~e.is_anon /\ b.seq.filename # NoFile => b.seq.filename = what.file

\* After every notification the record describes what is mapped: a page is in
\* a big allocation exactly when it is mapped, in one only, and the one entry
\* for it in the mapping sequence says how.
MirrorsKernel ==
    ~aborted => \A p \in Page :
      LET owners == Lookup(bigallocs, p * PageSize)
      IN  IF kernel[p] = Unmapped THEN owners = {}
          ELSE \E b \in owners :
                 /\ owners = {b}
                 /\ \E e \in find_entry(p * PageSize, b.seq) :
                       /\ find_entry(p * PageSize, b.seq) = {e}
                       /\ EntryAgrees(e, b, kernel[p])

\* No call the kernel accepts makes the allocator abort: "As with any mapping,
\* it may (if MAP_FIXED/MREMAP_FIXED is set) replace something at the mapped
\* address" (the comment on __mmap_allocator_notify_mremap).
NeverAborts == ~aborted

\* "the invariant that all the anonymous mappings are at the end" of a sequence
\* (the comment in augment_sequence).
AnonymousAtEnd ==
    \A b \in bigallocs : \A i, j \in DOMAIN b.seq.mappings :
        i < j /\ b.seq.mappings[i].is_anon => b.seq.mappings[j].is_anon

\* "It's never okay to involve more than one filename" (augment_sequence).
OneFile ==
    \A b \in bigallocs : \A p, q \in PagesOf(b.begin, b.end) :
        NoFile \in {kernel[p].file, kernel[q].file} \/ kernel[p].file = kernel[q].file
=============================================================================
