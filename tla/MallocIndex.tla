---------------------------- MODULE MallocIndex ----------------------------
(***************************************************************************)
(* The index of a malloc's chunks (include/generic_malloc_index.h) and the *)
(* event hooks that keep it (tools/stubgen.h), for one arena [Begin, End). *)
(* A bitmap has one bit per MallocAlign bytes, set where a chunk begins;   *)
(* each chunk's last InsertSize bytes hold its insert; a chunk of more     *)
(* than Threshold usable bytes is promoted to a big allocation as well.    *)
(* The hooks run before or after the real call, and other threads run      *)
(* between the two.  chunks is the malloc's own state; contracts is what   *)
(* the program and the malloc are assumed to do, one of the Regimes.       *)
(***************************************************************************)
EXTENDS Integers, FiniteSets, FiniteSetsExt, Functions

CONSTANTS Begin, End, MallocAlign, WordBits, InsertSize, Threshold,
          Sizes,        \* the sizes that are requested
          Slack,        \* how much more than asked the malloc may make usable
          Threads, None,
          Regimes       \* sets of contracts

\* A chunk's alignment is no less than the size of an insert (malloc-meta.h).
ASSUME MallocIndexAssumption ==
    /\ {Begin, End, Threshold} \cup Sizes \cup Slack \subseteq Nat
    /\ {MallocAlign, WordBits, InsertSize} \subseteq Nat \ {0} /\ InsertSize <= MallocAlign
    /\ None \notin Nat
    /\ \A r \in Regimes : r \subseteq {"nonzero", "none_promoted", "promoted_not_shrunk",
                                      "promoted_grow", "shrunk_no_larger"}

VARIABLES
    chunks,     \* usable size of each live chunk, by address
    bitmap,     \* struct arena_bitmap_info: nwords, bits, biggest_unpromoted_object
    promoted,   \* the big allocations of this allocator: begin, end
    inserts,    \* where memory holds the insert of which chunk
    pending,    \* what each thread's hook has still to do
    contracts   \* the regime, which never changes

vars == <<chunks, bitmap, promoted, inserts, pending, contracts>>

Addrs == Begin..(End - 1)
Bases == {a \in Addrs : a % MallocAlign = 0}
Idle == [op |-> "none", base |-> None, usable |-> 0, requested |-> 0, new |-> None]

InFlight == {IF pending[t].new = None THEN pending[t].base ELSE pending[t].new : t \in Threads}
-----------------------------------------------------------------------------
\* The shape of the bitmap.
WordBytes == MallocAlign * WordBits
ROUND_DOWN(a) == (a \div WordBytes) * WordBytes
ROUND_UP(a) == ROUND_DOWN(a + WordBytes - 1)
bitmap_base_addr == ROUND_DOWN(Begin)
BitOf(a) == (a - bitmap_base_addr) \div MallocAlign

TotalWords_RoundedDown(end) == (ROUND_DOWN(end) - bitmap_base_addr) \div WordBytes
TotalWords(end) == (ROUND_UP(end) - bitmap_base_addr) \div WordBytes

ensure_has_bitmap_to(I, end) ==
    [I EXCEPT !.nwords = IF @ < TotalWords(end) THEN TotalWords(end) ELSE @]

\* The part of the bitmap that a search from mem skips: it lies further below
\* than the biggest object that is not promoted.
nbits_hidden_Word(I, mem) ==
    LET fake == ROUND_UP(mem - I.biggest_unpromoted)
    IN  IF fake > bitmap_base_addr THEN BitOf(fake) ELSE 0
nbits_hidden(I, mem) ==
    LET fake == ROUND_DOWN(mem - I.biggest_unpromoted)
    IN  IF fake > bitmap_base_addr THEN BitOf(fake) ELSE 0

\* bitmap_rfind_first_set_leq_l over the words that are not hidden.
rfind_first_set_leq(I, from, idx) ==
    LET set == {i \in I.bits : from <= i /\ i <= idx}
    IN  IF set = {} THEN {} ELSE {Max(set)}

\* The objects lookup_object_info_via_bitmap finds for mem: at most one.
lookup_object_info(I, mem) ==
    {bitmap_base_addr + MallocAlign * i :
       i \in rfind_first_set_leq(I, nbits_hidden(I, mem), BitOf(mem))}
-----------------------------------------------------------------------------
caller_usable_size(usable) == usable - InsertSize
insert_for_chunk(b, usable) == b + caller_usable_size(usable)
SHOULD_PROMOTE(usable) == usable > Threshold

\* The size given to the big allocation of a promoted chunk.
PromotedSize_Usable(requested, usable) == usable
PromotedSize(requested, usable) == requested

\* __generic_malloc_index_insert for a chunk the malloc says has usable bytes.
Inserted(I, b, requested, usable) ==
    LET J == ensure_has_bitmap_to(I, b + requested)
        biggest == IF caller_usable_size(usable) > J.biggest_unpromoted
                   THEN caller_usable_size(usable) ELSE J.biggest_unpromoted
    IN  [J EXCEPT !.bits = @ \cup {BitOf(b)},
                  !.biggest_unpromoted = IF SHOULD_PROMOTE(usable) THEN @ ELSE biggest]

Promoted(P, b, requested, usable) ==
    IF SHOULD_PROMOTE(usable)
    THEN P \cup {[begin |-> b, end |-> b + PromotedSize(requested, usable)]}
    ELSE P

\* __generic_malloc_index_delete: a promoted chunk loses its big allocation,
\* any other its bit.
PromotedAt(P, b) == {p \in P : p.begin <= b /\ b < p.end}
Deleted(I, P, b) ==
    IF PromotedAt(P, b) # {} THEN I ELSE [I EXCEPT !.bits = @ \ {BitOf(b)}]

\* What is left of the inserts when [lo, hi) is written by the malloc or by
\* the program.
Trashed(lo, hi) == {i \in inserts : i.at < lo \/ i.at >= hi}
InsertWritten(b, usable) ==
    LET at == insert_for_chunk(b, usable)
    IN  Trashed(at, at + InsertSize) \cup {[at |-> at, of |-> b]}

\* __generic_malloc_get_info: base, size and the place its insert is read from.
get_info(I, P, mem) ==
    IF PromotedAt(P, mem) # {}
    THEN {[base |-> p.begin, size |-> p.end - p.begin, insert |-> p.end + InsertSize] :
            p \in PromotedAt(P, mem)}
    ELSE {[base |-> b, size |-> caller_usable_size(caller_usable_size(chunks[b])),
           insert |-> insert_for_chunk(b, chunks[b])] : b \in lookup_object_info(I, mem)}
-----------------------------------------------------------------------------
Init ==
    /\ chunks = [b \in {} |-> 0]
    /\ bitmap = [nwords |-> 0, bits |-> {}, biggest_unpromoted |-> 0]
    /\ promoted = {}
    /\ inserts = {}
    /\ pending = [t \in Threads |-> Idle]
    /\ contracts \in Regimes

\* The malloc may place a chunk where no other one is.
MayPlace(b, usable, others) ==
    /\ b + usable <= End
    /\ \A c \in others : c + chunks[c] <= b \/ b + usable <= c

\* How much the malloc makes usable when asked for a size that pre_alloc has
\* enlarged by the insert.
UsableFor(requested) == {requested + InsertSize + s : s \in Slack}

SizeContract(requested, usable) ==
    /\ "nonzero" \in contracts => requested > 0
    /\ "none_promoted" \in contracts => ~SHOULD_PROMOTE(usable)

Become(t, told) == pending' = [pending EXCEPT ![t] = told]
With(b, usable) == [c \in DOMAIN chunks \cup {b} |-> IF c = b THEN usable ELSE chunks[c]]

real_malloc(t, b, requested, usable) ==
    /\ pending[t] = Idle
    /\ MayPlace(b, usable, DOMAIN chunks)
    /\ SizeContract(requested, usable)
    /\ chunks' = With(b, usable)
    /\ inserts' = Trashed(b, b + usable)
    /\ Become(t, [Idle EXCEPT !.op = "insert", !.base = b, !.requested = requested])
    /\ UNCHANGED <<bitmap, promoted>>

post_successful_alloc(t) ==
    LET told == pending[t]
        b    == told.base
    IN  /\ told.op = "insert"
        /\ bitmap' = Inserted(bitmap, b, told.requested, chunks[b])
        /\ promoted' = Promoted(promoted, b, told.requested, chunks[b])
        /\ inserts' = InsertWritten(b, chunks[b])
        /\ Become(t, Idle)
        /\ UNCHANGED chunks

index_delete(b) ==
    /\ bitmap' = Deleted(bitmap, promoted, b)
    /\ promoted' = promoted \ PromotedAt(promoted, b)

\* The program frees or resizes a live chunk that no other thread is at.
pre_nonnull_free(t, b) ==
    /\ pending[t] = Idle /\ b \notin InFlight
    /\ index_delete(b)
    /\ Become(t, [Idle EXCEPT !.op = "free", !.base = b])
    /\ UNCHANGED <<chunks, inserts>>

real_free(t) ==
    LET b == pending[t].base
    IN  /\ pending[t].op = "free"
        /\ chunks' = Restrict(chunks, DOMAIN chunks \ {b})
        /\ inserts' = Trashed(b, b + chunks[b])
        /\ Become(t, Idle)
        /\ UNCHANGED <<bitmap, promoted>>

pre_nonnull_nonzero_realloc(t, b, requested) ==
    /\ pending[t] = Idle /\ b \notin InFlight
    /\ requested > 0
    /\ "promoted_not_shrunk" \in contracts =>
         (SHOULD_PROMOTE(chunks[b]) => requested + InsertSize >= chunks[b])
    /\ index_delete(b)
    /\ Become(t, [Idle EXCEPT !.op = "resize", !.base = b, !.usable = chunks[b],
                              !.requested = requested])
    /\ UNCHANGED <<chunks, inserts>>

\* The real realloc resizes in place, moves the chunk, or fails.
real_realloc_in_place(t, usable) ==
    LET b == pending[t].base
    IN  /\ pending[t].op = "resize"
        /\ usable \in UsableFor(pending[t].requested)
        /\ MayPlace(b, usable, DOMAIN chunks \ {b})
        /\ SizeContract(pending[t].requested, usable)
        /\ "shrunk_no_larger" \in contracts =>
             (pending[t].requested + InsertSize <= chunks[b] => usable <= chunks[b])
        /\ chunks' = With(b, usable)
        /\ inserts' = Trashed(b, b + IF usable > chunks[b] THEN usable ELSE chunks[b])
        /\ Become(t, [pending[t] EXCEPT !.op = "reinsert", !.new = b])
        /\ UNCHANGED <<bitmap, promoted>>

real_realloc_move(t, new, usable) ==
    LET b == pending[t].base
    IN  /\ pending[t].op = "resize"
        /\ usable \in UsableFor(pending[t].requested)
        /\ MayPlace(new, usable, DOMAIN chunks)
        /\ SizeContract(pending[t].requested, usable)
        /\ chunks' = Restrict(With(new, usable), (DOMAIN chunks \cup {new}) \ {b})
        /\ inserts' = {i \in Trashed(b, b + chunks[b]) : i.at < new \/ i.at >= new + usable}
        /\ Become(t, [pending[t] EXCEPT !.op = "reinsert", !.new = new])
        /\ UNCHANGED <<bitmap, promoted>>

real_realloc_fail(t) ==
    /\ pending[t].op = "resize"
    /\ "promoted_grow" \in contracts => ~SHOULD_PROMOTE(pending[t].usable)
    /\ Become(t, [pending[t] EXCEPT !.op = "reinsert"])
    /\ UNCHANGED <<chunks, bitmap, promoted, inserts>>

\* The tail of __generic_malloc_index_reinsert_after_resize: a big allocation
\* resized in place to less than it had gets the modified size.
TruncatedAfterResize(P, told) ==
    LET modified_size == told.requested + InsertSize
    IN  {IF p.begin = told.base /\ told.new = told.base /\ modified_size < told.usable
         THEN [p EXCEPT !.end = told.base + modified_size] ELSE p : p \in P}

\* The address that is indexed again: the old one when the realloc failed.
ReinsertedAt(told) == IF told.new = None THEN told.base ELSE told.new

post_nonnull_nonzero_realloc(t) ==
    LET told == pending[t]
        at   == ReinsertedAt(told)
    IN  /\ told.op = "reinsert"
        /\ bitmap' = Inserted(bitmap, at, told.requested, chunks[at])
        /\ promoted' = TruncatedAfterResize(
                         Promoted(promoted, at, told.requested, chunks[at]), told)
        /\ inserts' = InsertWritten(at, chunks[at])
        /\ Become(t, Idle)
        /\ UNCHANGED chunks

ThreadStep(t) ==
    \/ \E b \in Bases, requested \in Sizes : \E usable \in UsableFor(requested) :
         real_malloc(t, b, requested, usable)
    \/ post_successful_alloc(t)
    \/ \E b \in DOMAIN chunks :
         \/ pre_nonnull_free(t, b)
         \/ \E requested \in Sizes : pre_nonnull_nonzero_realloc(t, b, requested)
    \/ real_free(t)
    \/ \E usable \in UsableFor(pending[t].requested) :
         \/ real_realloc_in_place(t, usable)
         \/ \E new \in Bases : real_realloc_move(t, new, usable)
    \/ real_realloc_fail(t)
    \/ post_nonnull_nonzero_realloc(t)

Next == UNCHANGED contracts /\ \E t \in Threads : ThreadStep(t)

Spec == Init /\ [][Next]_vars
-----------------------------------------------------------------------------
Settled == DOMAIN chunks \ InFlight
Indexed == {b \in DOMAIN chunks : BitOf(b) \in bitmap.bits}
NonePromoted == "none_promoted" \in contracts

\* Every bit is within the words that were allocated: "The address *must* be in
\* our tracked range" (__generic_malloc_index_insert).
BitmapCovers == \A i \in bitmap.bits : i < bitmap.nwords * WordBits

\* Every bit is the start of a live chunk, and a live chunk that no hook is at
\* has its bit and its insert, whatever happened to it and to its neighbours.
IndexExact ==
    /\ \A i \in bitmap.bits : \E b \in DOMAIN chunks : BitOf(b) = i
    /\ \A b \in Settled :
         b \in Indexed /\ [at |-> insert_for_chunk(b, chunks[b]), of |-> b] \in inserts

\* The big allocations are those of the live chunks that are big enough: none
\* outlives its chunk, however often chunks are freed, moved and resized.
PromotedExact ==
    /\ \A p \in promoted : p.begin \in DOMAIN chunks /\ SHOULD_PROMOTE(chunks[p.begin])
    /\ \A b \in Settled : SHOULD_PROMOTE(chunks[b]) => \E p \in promoted : p.begin = b

\* The index has exactly the live chunks.  Every bit lies in the bitmap as far
\* as it was allocated, and the big allocations are those of the live chunks
\* that are big enough: __generic_malloc_index_delete leaves none behind.  Where
\* no chunk is promoted, every bit is the start of a live chunk, and a live
\* chunk that no hook is at has its bit and its insert.
ChunksIndexed == BitmapCovers /\ PromotedExact /\ (NonePromoted => IndexExact)

\* Where no chunk is promoted, an address anywhere in an indexed chunk, its
\* insert included, is attributed to that chunk: the part of the bitmap that the
\* search skips never hides it.
UnpromotedFound ==
    NonePromoted =>
        \A b \in Indexed : \A mem \in b..(b + chunks[b] - 1) : lookup_object_info(bitmap, mem) = {b}

\* The big allocation of a promoted chunk leaves the insert out: "bigallocs
\* already have the size adjusted to exclude the insert".
BigExcludesInsert ==
    \A p \in promoted :
        p.begin \in DOMAIN chunks => p.end <= insert_for_chunk(p.begin, chunks[p.begin])

\* Whatever address is looked up, the chunk that is found is live and has an
\* insert: "assert(!found_ins || INSERT_DESCRIBES_OBJECT(found_ins))"
\* (lookup_object_info).
FoundHasInsert ==
    \A mem \in Addrs : \A b \in lookup_object_info(bitmap, mem) :
        /\ b \in DOMAIN chunks
        /\ \/ [at |-> insert_for_chunk(b, chunks[b]), of |-> b] \in inserts
           \/ b \in InFlight

\* The insert of a promoted chunk is read where it was written: "the actual
\* insert is always at base + malloc_usable - sizeof insert".
PromotedInsertFound ==
    \A b \in Settled : SHOULD_PROMOTE(chunks[b]) =>
        \A i \in get_info(bitmap, promoted, b) : [at |-> i.insert, of |-> b] \in inserts

\* The size reported of a chunk is what its caller may use, which is never less
\* than it requested: "requested size <= caller-usable size".
SizeIsCallerUsable ==
    \A b \in Settled : ~SHOULD_PROMOTE(chunks[b]) =>
        \A i \in get_info(bitmap, promoted, b) : i.size = caller_usable_size(chunks[b])
=============================================================================
