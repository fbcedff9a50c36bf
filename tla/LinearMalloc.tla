---------------------------- MODULE LinearMalloc ----------------------------
(***************************************************************************)
(* The index of the dynamic linker's own malloc (allocsld/allocinstr.c,    *)
(* include/linear_malloc_index.h) and the big allocations that make its    *)
(* chunks reachable from a query once liballocs has started                *)
(* (src/allocators/ld-so-malloc.c).  The index is a sorted array of        *)
(* records, kept by the detours of the __minimal_ functions, since that    *)
(* malloc does not store sizes; liballocs then chains functions that       *)
(* create the big allocation of an arena onto the originals.  The malloc   *)
(* itself, a bump allocator over mappings, is external.                    *)
(***************************************************************************)
EXTENDS Integers, Sequences, FiniteSets, FiniteSetsExt, Functions

CONSTANTS
    Word,           \* the alignment of a trailer
    InsertSize,
    Requests,       \* the sizes ld.so asks for
    Regions,        \* what the kernel may map for it: pairs of bounds
    LdSoFile,       \* the mapping of ld.so: lo, hi and the end of the file in it
    IntRange,       \* an int holds -IntRange..IntRange - 1
    MAX_LINEAR_MALLOCS,
    HeapContracts

ASSUME LinearMallocAssumption ==
    /\ {Word, InsertSize, IntRange} \subseteq Nat \ {0}
    /\ Requests \subseteq Nat /\ MAX_LINEAR_MALLOCS \in Nat
    /\ \A r \in Regions : /\ r = <<r[1], r[2]>> /\ {r[1], r[2]} \subseteq Nat \ {0}
                          /\ r[1] < r[2] /\ r[2] % Word = 0
    /\ LdSoFile = [lo |-> LdSoFile.lo, hi |-> LdSoFile.hi, file |-> LdSoFile.file]
    /\ {LdSoFile.lo, LdSoFile.hi, LdSoFile.file} \subseteq Nat \ {0}
    /\ LdSoFile.lo < LdSoFile.hi /\ LdSoFile.file \in LdSoFile.lo..LdSoFile.hi
    /\ LdSoFile.hi - LdSoFile.lo < IntRange /\ LdSoFile.hi % Word = 0
    /\ HeapContracts \subseteq {"nonzero", "arenas_near", "arena_not_extended",
                                "records_fit", "realloc_succeeds"}

VARIABLES
    recs,       \* the nrecs_used records
    mappings,   \* top-level mappings: lo, hi and the end of the file (0: anonymous)
    arenas,     \* the big allocations whose suballocator is this malloc: lo, hi
    chunks,     \* what ld.so holds: address, requested size, size from the malloc
    bump,       \* the malloc's alloc_ptr, alloc_end and alloc_last_block
    started,    \* the originals have been replaced by the functions that create arenas
    failed      \* an abort, a null record dereferenced, or a record past the end

linearVars == <<recs, mappings, arenas, chunks, bump, started, failed>>
-----------------------------------------------------------------------------
PAD_TO_ALIGN(n) == IF n % Word = 0 THEN n ELSE n + Word - (n % Word)
CHUNK_SIZE_WITH_TRAILER(n) == PAD_TO_ALIGN(n + InsertSize)

\* compare_linear_mallocs: the difference of the addresses, as an int; a null
\* address is greater than any other.
ToInt(d) == ((d + IntRange) % (2 * IntRange)) - IntRange
compare_NullFirst(r1, r2) == ToInt(r1.addr - r2.addr)
compare(r1, r2) ==
    IF r1.addr = 0 /\ r2.addr = 0 THEN 0
    ELSE IF r1.addr = 0 THEN 1
    ELSE IF r2.addr = 0 THEN -1
    ELSE ToInt(r1.addr - r2.addr)

\* The results of qsort: what agrees with the comparison, or anything when the
\* comparison is not an order.
qsort(s) ==
    LET all == {[i \in DOMAIN s |-> s[p[i]]] : p \in Bijection(DOMAIN s, DOMAIN s)}
        ordered == {r \in all : \A i, j \in DOMAIN s : i < j => compare(r[i], r[j]) <= 0}
    IN  IF s = <<>> THEN {s} ELSE IF ordered = {} THEN all ELSE ordered

\* find_linear_malloc_rec: the last record at or below addr, if it spans addr.
Spanning(r, addr) == addr < r.addr + r.requested
find_linear_malloc_rec(s, addr) ==
    LET leq == {i \in DOMAIN s : s[i].addr <= addr}
    IN  {i \in leq : i = Max(leq) /\ Spanning(s[i], addr)}

Sorted(s) == \A i, j \in DOMAIN s : i < j => s[i].addr < s[j].addr
linear_malloc_index_insert(s, addr, requested) ==
    LET usable == CHUNK_SIZE_WITH_TRAILER(requested) - InsertSize
        n == Len(s) + 1
        longer == Append(s, [addr |-> addr, requested |-> requested,
                             padding |-> usable - requested])
    IN  IF n > 1 /\ longer[n].addr < longer[n - 1].addr THEN qsort(longer) ELSE {longer}

\* The record found is zeroed, and is the last after the sort.
linear_malloc_index_delete(s, i) ==
    {SubSeq(r, 1, Len(r) - 1) : r \in qsort([s EXCEPT ![i].addr = 0])}
linear_malloc_usable_size(s, addr) ==
    {s[i].requested + s[i].padding :
        i \in {j \in find_linear_malloc_rec(s, addr) : s[j].addr = addr}}
-----------------------------------------------------------------------------
\* ensure_bigalloc_for_userptr, on the arenas A and the mappings M: those after
\* it, or none if it aborts.  A new arena must not overlap another.
MappingOf(M, addr) == {m \in M : m.lo <= addr /\ addr < m.hi}
NewArena(m) == [lo |-> IF m.file = 0 THEN m.lo ELSE m.file, hi |-> m.hi]
ensure_bigalloc(A, M, addr) ==
    IF \E a \in A : a.lo <= addr /\ addr < a.hi THEN {A}
    ELSE {A \cup {NewArena(m)} :
            m \in {n \in MappingOf(M, addr) :
                     /\ n.file <= addr
                     /\ \A a \in A : a.hi <= NewArena(n).lo \/ NewArena(n).hi <= a.lo}}

\* __ld_so_malloc_allocator_init: the originals are swapped, then each record's
\* arena is created.
EnsureAll(s, M) ==
    LET upTo[n \in 0..Len(s)] ==
          IF n = 0 THEN {{}}
          ELSE UNION {ensure_bigalloc(A, M, s[n].addr) : A \in upTo[n - 1]}
    IN  upTo[Len(s)]
ld_so_malloc_allocator_init ==
    /\ ~started /\ ~failed
    /\ started' = TRUE
    /\ arenas' \in IF EnsureAll(recs, mappings) = {} THEN {arenas}
                   ELSE EnsureAll(recs, mappings)
    /\ failed' = (EnsureAll(recs, mappings) = {})
    /\ UNCHANGED <<recs, mappings, chunks, bump>>

\* The chained functions: the original's result has an arena.
Chained(M, addr) ==
    IF started THEN ensure_bigalloc(arenas, M, addr) ELSE {arenas}
-----------------------------------------------------------------------------
\* The malloc of ld.so: a place for n bytes, in what is left, or in a region
\* that the kernel maps.  mmap.c lumps a region with the mapping just below it.
WithRegion(M, r) ==
    IF \E m \in M : m.hi = r[1]
    THEN {IF m.hi = r[1] THEN [m EXCEPT !.hi = r[2]] ELSE m : m \in M}
    ELSE M \cup {[lo |-> r[1], hi |-> r[2], file |-> 0]}
RegionContract(r) ==
    /\ "arena_not_extended" \in HeapContracts => \A a \in arenas : a.hi # r[1]
    /\ "arenas_near" \in HeapContracts =>
         \A m \in mappings : m.hi - r[1] < IntRange /\ r[2] - m.lo < IntRange
Placements(from, n) ==
    LET at == PAD_TO_ALIGN(from)
    IN  IF at + n <= bump[2]
        THEN {[at |-> at, end |-> bump[2], maps |-> mappings]}
        ELSE {[at |-> IF r[1] = bump[2] THEN at ELSE r[1], end |-> r[2],
               maps |-> WithRegion(mappings, r)] :
                r \in {s \in Regions :
                         /\ \A m \in mappings : m.hi <= s[1] \/ s[2] <= m.lo
                         /\ n <= s[2] - s[1] /\ RegionContract(s)}}

\* The malloc may be out of memory.
NoPlace == IF "realloc_succeeds" \in HeapContracts THEN {} ELSE {[at |-> 0]}

\* __minimal_malloc or calloc through the detour.
detour_malloc(requested) ==
    LET n == CHUNK_SIZE_WITH_TRAILER(requested)
    IN  /\ ~failed
        /\ "nonzero" \in HeapContracts => requested > 0
        /\ "records_fit" \in HeapContracts => Len(recs) < MAX_LINEAR_MALLOCS
        /\ \E p \in Placements(bump[1], n) :
             /\ bump' = <<p.at + n, p.end, p.at>>
             /\ mappings' = p.maps
             /\ chunks' = chunks \cup {[addr |-> p.at, requested |-> requested, size |-> n]}
             /\ recs' \in linear_malloc_index_insert(recs, p.at, requested)
             /\ arenas' \in IF Chained(p.maps, p.at) = {} THEN {arenas}
                            ELSE Chained(p.maps, p.at)
             /\ failed' = (Chained(p.maps, p.at) = {} \/ Len(recs) = MAX_LINEAR_MALLOCS)
        /\ UNCHANGED started

\* __minimal_free: only the last block is really freed.
detour_free(c) ==
    LET found == find_linear_malloc_rec(recs, c.addr)
    IN  /\ ~failed
        /\ chunks' = chunks \ {c}
        /\ IF found = {}
           THEN failed' = TRUE /\ UNCHANGED <<recs, arenas, bump>>
           ELSE /\ \E i \in found : recs' \in linear_malloc_index_delete(recs, i)
                /\ arenas' \in Chained(mappings, c.addr)
                /\ bump' = IF c.addr = bump[3] THEN [bump EXCEPT ![1] = c.addr] ELSE bump
                /\ UNCHANGED failed
        /\ UNCHANGED <<mappings, started>>

\* __minimal_realloc of the last block: the record is deleted first, and the new
\* one has the padded size for the requested one.
ReinsertedSize(n) == n - InsertSize
detour_realloc(c, requested) ==
    LET n == CHUNK_SIZE_WITH_TRAILER(requested)
        found == find_linear_malloc_rec(recs, c.addr)
    IN  /\ ~failed /\ requested > 0
        /\ c.addr = bump[3]
        /\ found # {}
        /\ \E i \in found : \E s \in linear_malloc_index_delete(recs, i) :
             \E p \in Placements(c.addr, n) \cup NoPlace :
               IF p.at = 0
               THEN recs' = s /\ UNCHANGED <<mappings, chunks, bump, arenas>>
               ELSE /\ bump' = <<p.at + n, p.end, p.at>>
                    /\ mappings' = p.maps
                    /\ chunks' = (chunks \ {c})
                         \cup {[addr |-> p.at, requested |-> requested, size |-> n]}
                    /\ recs' \in linear_malloc_index_insert(s, p.at, ReinsertedSize(n))
                    /\ arenas' \in Chained(p.maps, p.at)
        /\ UNCHANGED <<started, failed>>

LinearInit ==
    /\ recs = <<>> /\ arenas = {} /\ chunks = {}
    /\ mappings = {LdSoFile}
    /\ bump = <<LdSoFile.file, LdSoFile.hi, 0>>
    /\ started = FALSE /\ failed = FALSE
LinearNext ==
    \/ ld_so_malloc_allocator_init
    \/ \E n \in Requests : detour_malloc(n)
    \/ \E c \in chunks : detour_free(c) \/ \E n \in Requests : detour_realloc(c, n)

LinearSpec == LinearInit /\ [][LinearNext]_linearVars
-----------------------------------------------------------------------------
\* linear_malloc_get_info, through the deepest big allocation: the base found.
get_info(obj) ==
    IF \E a \in arenas : a.lo <= obj /\ obj < a.hi
    THEN {recs[i].addr : i \in find_linear_malloc_rec(recs, obj)} ELSE {}

\* The records are sorted and are exactly the chunks that ld.so holds; each has
\* room for its insert inside what the malloc gave; and once liballocs has
\* started, a query about any requested byte of any chunk, made before or since,
\* finds its base.
LinearIndexExact ==
    /\ ~failed
    /\ Sorted(recs)
    /\ {recs[i].addr : i \in DOMAIN recs} = {c.addr : c \in chunks}
    /\ \A i \in DOMAIN recs : \E c \in chunks :
         /\ c.addr = recs[i].addr
         /\ c.requested <= recs[i].requested
         /\ recs[i].requested + recs[i].padding + InsertSize = c.size
    /\ started => \A c \in chunks : \A obj \in c.addr..(c.addr + c.requested - 1) :
                     get_info(obj) = {c.addr}
=============================================================================
