---------------------------- MODULE GenericSmall ----------------------------
(***************************************************************************)
(* The generic small-object index (src/allocators/generic_small.c) of one  *)
(* chunk: a rectangular table.  Each bucket covers `pitch` bytes of the    *)
(* chunk and holds a list of entries, one per layer.  An object has a      *)
(* start entry in the bucket where it begins and, if it runs over, a       *)
(* continuation entry in the next bucket (and nowhere else, however long   *)
(* it is); only the continuation records the whole size.                   *)
(*                                                                         *)
(* Addresses are offsets from the chunk's beginning.  The pitch is chosen  *)
(* when the first object is indexed.  MaxPitch is both MAX_PITCH and the   *)
(* number of values of the 8-bit thisbucket_size field (256 in the code);  *)
(* MinBuckets is the number of entries in a page (512 in the code).        *)
(***************************************************************************)
EXTENDS Naturals, SequencesExt, FiniteSetsExt

CONSTANTS ChunkSize, MaxPitch, MinBuckets, SmallContracts

IsPowerOfTwo(n) == \E k \in 0 .. n : n = 2^k

ASSUME GeometryAssumption ==
    /\ ChunkSize \in Nat \ {0}
    /\ IsPowerOfTwo(MaxPitch) /\ IsPowerOfTwo(MinBuckets)
    /\ MinBuckets <= ChunkSize
    /\ SmallContracts \subseteq {"spare_layer"}

VARIABLES pitch,           \* 0 until the chunk is suballocated
          bucket,          \* bucket number -> entries, by layer
          biggest_object

smallVars == <<pitch, bucket, biggest_object>>

Offset == 0 .. ChunkSize - 1
Extent == {o \in [start : Offset, size : 1 .. ChunkSize] :
              o.start + o.size <= ChunkSize}

StartEntry(off, thisbucket) ==
    [kind |-> "start", off |-> off, thisbucket_size |-> thisbucket % MaxPitch]

\* The offset field of a continuation is unused and reads as zero.
Continuation(size) == [kind |-> "continuation", off |-> 0, size |-> size]

Layers(T, k) == DOMAIN T[k]
IsStart(T, k, l) == T[k][l].kind = "start"

BucketOf(addr) == addr \div pitch
BucketBase(k) == k * pitch
BucketEnd(k) == BucketBase(k) + pitch

\* The walks read layers until a null entry: a bucket with an entry in every
\* layer has none.
NLAYERS == pitch
-----------------------------------------------------------------------------
next_power_of_two_ge(n) ==
    Min({m \in 1 .. 2 * n : IsPowerOfTwo(m) /\ n <= m})

\* make_suballocated_chunk: a small chunk has its pitch reduced so that one
\* layer fills a page.
ChunkPitch(guessed) ==
    LET size == next_power_of_two_ge(ChunkSize)
        wanted == next_power_of_two_ge(Min({guessed, MaxPitch}))
    IN  IF size \div wanted < MinBuckets THEN size \div MinBuckets ELSE wanted

\* get_start_from_continuation: the layer in the bucket before k of the start
\* entry with the biggest offset, as a set that is empty if there is none.
LastStart(T, k) ==
    LET starts == {l \in Layers(T, k) : IsStart(T, k, l)}
        last == {l \in starts : \A j \in starts : T[k][j].off <= T[k][l].off}
    IN  IF last = {} THEN {} ELSE {Min(last)}

\* What one entry says of addr.  A continuation stands for the last object of
\* the bucket before it.
EntryHits(T, k, l, addr) ==
    IF IsStart(T, k, l)
    THEN LET start == BucketBase(k) + T[k][l].off
         IN  start <= addr /\ addr < start + T[k][l].thisbucket_size
    ELSE \E j \in LastStart(T, k - 1) :
            addr < BucketBase(k - 1) + T[k - 1][j].off + T[k][l].size

\* The start entry an entry leads to, as <<bucket, layer>>.
StartEntryFor(T, k, l) ==
    IF IsStart(T, k, l) THEN <<k, l>>
    ELSE <<k - 1, CHOOSE j \in LastStart(T, k - 1) : TRUE>>

NotFound == <<>>

\* lookup_small_alloc: walk the buckets back from addr's own to the first
\* entry that hits.  Once out of that bucket, a continuation that does not
\* reach addr ends the search.
HitEntry(T, addr) ==
    LET first == BucketOf(addr)
        decisive(k) == {l \in Layers(T, k) : \/ EntryHits(T, k, l, addr)
                                             \/ k # first /\ ~IsStart(T, k, l)}
        worthwhile(k) == BucketEnd(k) + biggest_object > addr
        walk[k \in 0 .. first] ==
            IF decisive(k) # {}
            THEN LET l == Min(decisive(k))
                 IN  IF EntryHits(T, k, l, addr) THEN <<k, l>> ELSE NotFound
            ELSE IF k > 0 /\ worthwhile(k - 1) THEN walk[k - 1]
            ELSE NotFound
    IN  walk[first]

lookup_small_alloc(T, addr) ==
    LET hit == HitEntry(T, addr)
    IN  IF hit = NotFound THEN NotFound ELSE StartEntryFor(T, hit[1], hit[2])

\* The sizes that *out_object_size may hold after a successful lookup: a hit
\* on a continuation leaves the caller's variable as it was.
out_object_size(T, addr) ==
    LET hit == HitEntry(T, addr)
    IN  IF IsStart(T, hit[1], hit[2]) THEN {T[hit[1]][hit[2]].thisbucket_size}
        ELSE 0 .. ChunkSize
-----------------------------------------------------------------------------
RemoveStart(T, k, l) ==
    LET biggest == \A j \in Layers(T, k) : T[k][j].off <= T[k][l].off
        following == IF k + 1 \in DOMAIN T
                     THEN {j \in Layers(T, k + 1) : ~IsStart(T, k + 1, j)} ELSE {}
        without == [T EXCEPT ![k] = RemoveAt(@, l)]
    IN  IF biggest /\ following # {}
        THEN [without EXCEPT ![k + 1] = RemoveAt(@, Min(following))]
        ELSE without

\* "if it overlaps us at all, it must overlap us in this bucket"
OverlapsInBucket_Touching(T, k, l, lo, hi) ==
    LET start == BucketBase(k) + T[k][l].off
    IN  start <= hi /\ start + T[k][l].thisbucket_size > lo
OverlapsInBucket(T, k, l, lo, hi) ==
    LET start == BucketBase(k) + T[k][l].off
    IN  start < hi /\ start + T[k][l].thisbucket_size > lo

\* The loop of unindex_all_overlapping over the buckets that begin below hi,
\* from layer l of bucket k.
RECURSIVE UnindexStartsFrom(_, _, _, _, _)
UnindexStartsFrom(T, k, l, lo, hi) ==
    IF k \notin DOMAIN T \/ BucketBase(k) >= hi THEN T
    ELSE IF l \notin Layers(T, k) THEN UnindexStartsFrom(T, k + 1, 1, lo, hi)
    ELSE IF IsStart(T, k, l) /\ OverlapsInBucket(T, k, l, lo, hi)
         THEN UnindexStartsFrom(RemoveStart(T, k, l), k, l, lo, hi)
         ELSE UnindexStartsFrom(T, k, l + 1, lo, hi)

\* unindex_all_overlapping: first the object that covers lo, then those that
\* begin between lo and hi.
unindex_all_overlapping(T, lo, hi) ==
    LET earlier == lookup_small_alloc(T, lo)
        rest == IF earlier = NotFound THEN T
                ELSE RemoveStart(T, earlier[1], earlier[2])
    IN  UnindexStartsFrom(rest, BucketOf(lo), 1, lo, hi)

\* The part of an object that lies in the bucket where it begins.
InFirstBucket(start, size) ==
    IF BucketOf(start + size) = BucketOf(start) THEN size
    ELSE pitch - (start % pitch)

\* index_small_alloc_internal.
Insert(T, start, size) ==
    LET k == BucketOf(start)
        entry == StartEntry(start % pitch, InFirstBucket(start, size))
        with == [T EXCEPT ![k] = Append(@, entry)]
    IN  IF BucketEnd(k) < start + size
        THEN [with EXCEPT ![k + 1] = Append(@, Continuation(size))]
        ELSE with
-----------------------------------------------------------------------------
SmallInit == pitch = 0 /\ bucket = <<>> /\ biggest_object = 0

\* The first object indexed makes the chunk suballocated.
make_suballocated_chunk(start, size) ==
    /\ pitch = 0
    /\ pitch' = ChunkPitch(size)
    /\ bucket' = Insert([k \in 0 .. (ChunkSize - 1) \div pitch |-> <<>>],
                        start, size)'

\* __index_small_alloc.
IndexUnchecked(start, size) ==
    /\ \/ make_suballocated_chunk(start, size)
       \/ /\ pitch # 0
          /\ bucket' = Insert(unindex_all_overlapping(bucket, start, start + size),
                              start, size)
          /\ UNCHANGED pitch
    /\ biggest_object' = Max({biggest_object, size})

\* The assertion on the layers: every bucket keeps a null entry to end the
\* walks.  It is the clients' to keep: the code only notices when it fails.
SpareLayer(T) == \A k \in DOMAIN T : Len(T[k]) < NLAYERS

index_small_alloc(start, size) ==
    /\ IndexUnchecked(start, size)
    /\ "spare_layer" \in SmallContracts => SpareLayer(bucket)'

\* The address need not be the object's first.
unindex_small_alloc(addr) ==
    /\ pitch # 0
    /\ LET found == lookup_small_alloc(bucket, addr)
       IN  /\ found # NotFound
           /\ bucket' = RemoveStart(bucket, found[1], found[2])
    /\ UNCHANGED <<pitch, biggest_object>>

SmallNext == \/ \E o \in Extent : index_small_alloc(o.start, o.size)
        \/ \E addr \in Offset : unindex_small_alloc(addr)
-----------------------------------------------------------------------------
\* The object that a start entry stands for.  "size 0 means 256".
ObjectAt(k, l) ==
    LET spills == IF k + 1 \in DOMAIN bucket /\ l \in LastStart(bucket, k)
                  THEN {bucket[k + 1][j].size :
                          j \in {i \in Layers(bucket, k + 1) :
                                   ~IsStart(bucket, k + 1, i)}} ELSE {}
        own == bucket[k][l].thisbucket_size
    IN  [start |-> BucketBase(k) + bucket[k][l].off,
         size |-> IF spills # {} THEN CHOOSE n \in spills : TRUE
                  ELSE IF own = 0 THEN MaxPitch ELSE own]

StartEntries ==
    {e \in UNION {{k} \X Layers(bucket, k) : k \in DOMAIN bucket} :
        IsStart(bucket, e[1], e[2])}

Objects == {ObjectAt(e[1], e[2]) : e \in StartEntries}

Promised == INSTANCE SmallObjects WITH objects <- Objects


\* The bound that "we should never need to go beyond the last layer" states
\* of every walk (generic_small.c): a walk of a bucket ends at a null entry,
\* so every bucket must have one.
NeverBeyondLastLayer == SpareLayer(bucket)

\* "We also need to represent the object's size somehow. We choose to use
\* continuation entries" (generic_small.c): a lookup reports the object's
\* size from any of its addresses.
SizeReported ==
    \A e \in StartEntries :
      LET o == ObjectAt(e[1], e[2])
      IN  \A addr \in o.start .. o.start + o.size - 1 :
            lookup_small_alloc(bucket, addr) = e =>
              out_object_size(bucket, addr) = {o.size}

\* Indexing and unindexing change the set of objects that the table stands
\* for exactly as SmallObjects says: overlapped objects go, every other one
\* keeps its beginning and its size.
ImplementsObjects == Promised!Spec
=============================================================================
