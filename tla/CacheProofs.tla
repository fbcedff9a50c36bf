---------------------------- MODULE CacheProofs ----------------------------
(***************************************************************************)
(* That the memory range cache answers truthfully and implements a list of *)
(* recently used ranges, for any number of slots, threads, allocations and *)
(* periods: HitsAreTrue and ImplementsRecentRanges of MemRangeCache.       *)
(***************************************************************************)
EXTENDS CacheListProofs

\* What has to be assumed of the program: one thread at a time is in the cache,
\* and nothing cached is unmapped or turned into an arena.
AllCacheContracts == {"one_thread", "unmap_uncached", "arena_uncached"} \subseteq CacheContracts

-----------------------------------------------------------------------------
(* The actions. *)

FineSet(B, C) == {e \in Entry : Fine(e, B, C)}

\* r2 is r without what begins in [lo, hi).
Forgotten(r, r2, lo, hi) ==
    \E place \in [1..Len(r2) -> 1..Len(r)] :
        /\ \A j, k \in 1..Len(r2) : j < k => place[j] < place[k]
        /\ \A k \in 1..Len(r) : (\E j \in 1..Len(r2) : place[j] = k) <=> ~Doomed(r[k], lo, hi)
        /\ \A j \in 1..Len(r2) : r2[j] = r[place[j]]

\* A step of RecentRanges from r to r2, or none.
Recency(r, r2) ==
    \/ r2 = r
    \/ \E k \in 1..Len(r) :
         \/ r2 = WithHead(r[k], Without(r, k))
         \/ \E e \in Entry : r2 = WithHead(e, KeptOf(WithHead(r[k], Without(r, k))))
    \/ \E e \in Entry : r2 = WithHead(e, KeptOf(r))
    \/ \E e \in Entry : Forgotten(r, r2, e.obj_base, e.obj_limit)

\* What the proof of an action shows.
Kept(c, d, B, C, c2, d2, B2, C2) ==
    /\ ListInv(c2, B2, C2) /\ DoingInv(d2, c2, B2, C2)
    /\ RecentOf(c2, TransitOf(d2)) \in Seq(Entry)
    /\ Recency(RecentOf(c, TransitOf(d)), RecentOf(c2, TransitOf(d2)))

\* No thread is in the middle of anything when another may start.
LEMMA StartsQuiet ==
    ASSUME AllCacheContracts, NEW t \in Threads, MayStart(t),
           DoingInv(doing, cache, big, chunks)
    PROVE  doing = Quiet
<1>1. \A u \in Threads : doing[u] = Idle
  BY DEF MayStart, AllCacheContracts
<1>2. ASSUME NEW u \in Threads, doing = [v \in Threads |-> IF v = u THEN doing[u] ELSE Idle]
      PROVE  doing = Quiet
  BY <1>1, <1>2, Zenon DEF Quiet
<1> QED BY <1>2 DEF DoingInv, Quiet

\* The cache between operations.
LEMMA QuietIs ==
    ASSUME NEW c, NEW B, NEW C, ListInv(c, B, C), NEW s, s = MruOrder(c)
    PROVE  /\ CacheOK(c) /\ IsList(c, s) /\ s \in Seq(Slot)
           /\ Ordered(c, Quiet, s)
           /\ RecentOf(c, TransitOf(Quiet)) = View(c.entries, s)
           /\ View(c.entries, s) \in Seq(FineSet(B, C))
<1>1. CacheOK(c) /\ IsList(c, s)
  BY DEF ListInv
<1>2. s \in Seq(Slot) /\ Len(s) \in Nat
  BY <1>1, ListSlots
<1>3. Ordered(c, Quiet, s)
  BY <1>1 DEF Ordered
<1>4. RecentOf(c, TransitOf(Quiet)) = View(c.entries, s)
  BY <1>3, OrderedView
<1>5. ASSUME NEW j \in 1..Len(s) PROVE c.entries[s[j]] \in FineSet(B, C)
  <2>1. s[j] \in c.validity
    BY <1>1, ListValid
  <2>2. Fine(c.entries[s[j]], B, C)
    BY <2>1 DEF ListInv
  <2> QED BY <2>2 DEF FineSet, Fine
<1>6. View(c.entries, s) \in [1..Len(s) -> FineSet(B, C)]
  BY <1>5 DEF View
<1> QED BY <1>1, <1>2, <1>3, <1>4, <1>6, SeqForm

LEMMA FineSeq ==
    ASSUME NEW B, NEW C, NEW r \in Seq(FineSet(B, C))
    PROVE  r \in Seq(Entry)
<1>1. FineSet(B, C) \subseteq Entry
  BY DEF FineSet
<1> QED BY <1>1

\* An action whose ranges in order of use are fine again keeps the invariant.
LEMMA OrderedKept ==
    ASSUME NEW c, NEW d, NEW B, NEW C, NEW c2, NEW d2, NEW B2, NEW C2, NEW a, NEW r,
           Ordered(c2, d2, a), View(c2.entries, a) = r, r \in Seq(FineSet(B2, C2)),
           Recency(RecentOf(c, TransitOf(d)), r)
    PROVE  Kept(c, d, B, C, c2, d2, B2, C2)
<1>1. a \in Seq(Slot) /\ Len(a) \in Nat
  BY OrderedSlots
<1>2. Len(r) = Len(a) /\ \A j \in 1..Len(a) : r[j] = c2.entries[a[j]]
  BY <1>1, ViewIs
<1>3. ASSUME NEW j \in 1..Len(a) PROVE Fine(c2.entries[a[j]], B2, C2)
  <2>1. r[j] \in FineSet(B2, C2)
    BY <1>1, <1>2
  <2> QED BY <1>2, <2>1 DEF FineSet
<1>4. ListInv(c2, B2, C2) /\ DoingInv(d2, c2, B2, C2)
  BY <1>3, OrderedInv
<1>5. RecentOf(c2, TransitOf(d2)) = r
  BY OrderedView
<1>6. r \in Seq(Entry)
  BY FineSeq
<1> QED BY <1>4, <1>5, <1>6 DEF Kept

\* The use of one range: a hit.
LEMMA UseKept ==
    ASSUME ListInv(cache, big, chunks), NEW t \in Threads, doing = Quiet,
           NEW k \in 1..Len(MruOrder(cache)), BeginBump(t, cache, MruOrder(cache)[k], "hit"),
           UNCHANGED <<big, chunks>>
    PROVE  Kept(cache, doing, big, chunks, cache', doing', big', chunks')
<1>1. PICK s : s = MruOrder(cache)
  OBVIOUS
<1>2. PICK E : E = cache.entries
  OBVIOUS
<1>3. PICK r : r = View(E, s)
  OBVIOUS
<1>4. /\ CacheOK(cache) /\ IsList(cache, s) /\ s \in Seq(Slot)
      /\ RecentOf(cache, TransitOf(Quiet)) = r /\ r \in Seq(FineSet(big, chunks))
  BY <1>1, <1>2, <1>3, QuietIs
<1>5. PICK i \in Slot : i = s[k]
  BY <1>1, <1>4
<1>6. PICK a : a = WithHead(s[k], Without(s, k))
  OBVIOUS
<1>7. Fronted(a, s, i) /\ View(E, a) = WithHead(r[k], Without(r, k))
  BY <1>1, <1>3, <1>4, <1>5, <1>6, ViewUsed
<1>8. Ordered(cache', doing', a) /\ cache'.entries = E
  <2>1. BeginBump(t, cache, i, "hit")
    BY <1>1, <1>5
  <2> QED BY <1>2, <1>4, <1>7, <2>1, Begins
<1>9. k \in 1..Len(r) /\ WithHead(r[k], Without(r, k)) \in Seq(FineSet(big, chunks))
  <2>1. k \in 1..Len(r)
    BY <1>1, <1>3, <1>4, ViewIs
  <2>2. Without(r, k) \in Seq(FineSet(big, chunks)) /\ r[k] \in FineSet(big, chunks)
    BY <1>4, <2>1, WithoutIs
  <2> QED BY <2>1, <2>2, WithHeadIs
<1>10. Recency(r, WithHead(r[k], Without(r, k)))
  BY <1>9 DEF Recency
<1> QED BY <1>4, <1>7, <1>8, <1>9, <1>10, OrderedKept

\* A new range, in a cache c whose ranges in order of use are those of s.
LEMMA InsertKept ==
    ASSUME NEW t \in Threads, doing = Quiet, UNCHANGED <<big, chunks>>,
           NEW c, CacheOK(c), NEW s, IsList(c, s),
           View(c.entries, s) \in Seq(FineSet(big, chunks)),
           NEW e \in FineSet(big, chunks), cache_with_type(t, c, e),
           Recency(RecentOf(cache, TransitOf(doing)), WithHead(e, KeptOf(View(c.entries, s))))
    PROVE  Kept(cache, doing, big, chunks, cache', doing', big', chunks')
<1>1. PICK r : r = View(c.entries, s)
  OBVIOUS
<1>2. PICK a : Ordered(cache', doing', a) /\ View(cache'.entries, a) = WithHead(e, KeptOf(r))
  BY <1>1, Inserts
<1>3. WithHead(e, KeptOf(r)) \in Seq(FineSet(big, chunks))
  <2>1. r \in Seq(FineSet(big, chunks))
    BY <1>1
  <2> QED BY <2>1, AddedIs
<1>4. big' = big /\ chunks' = chunks
  OBVIOUS
<1>5. Recency(RecentOf(cache, TransitOf(doing)), WithHead(e, KeptOf(r)))
  BY <1>1
<1> QED BY <1>2, <1>3, <1>4, <1>5, OrderedKept

LEMMA HitKept ==
    ASSUME AllCacheContracts, CacheInv, NEW t \in Threads, NEW obj, get_base_hit(t, obj)
    PROVE  Kept(cache, doing, big, chunks, cache', doing', big', chunks')
<1>1. MayStart(t) /\ UNCHANGED <<big, chunks>>
  BY DEF get_base_hit
<1>2. PICK i : i = lookup_notype(cache, obj, 0)
  OBVIOUS
<1>3. i # 0 /\ BeginBump(t, cache, i, "hit")
  BY <1>2 DEF get_base_hit
<1>4. doing = Quiet /\ ListInv(cache, big, chunks)
  BY <1>1, StartsQuiet DEF CacheInv
<1>5. CacheOK(cache) /\ IsList(cache, MruOrder(cache))
  BY <1>4 DEF ListInv
<1>6. PICK k \in 1..Len(MruOrder(cache)) : MruOrder(cache)[k] = i
  BY <1>2, <1>3, <1>5, NotypeFinds
<1> QED BY <1>1, <1>3, <1>4, <1>6, UseKept

LEMMA ClientHitKept ==
    ASSUME AllCacheContracts, CacheInv, NEW t \in Threads, NEW obj, NEW p, client_lookup(t, obj, p)
    PROVE  Kept(cache, doing, big, chunks, cache', doing', big', chunks')
<1>1. MayStart(t) /\ UNCHANGED <<big, chunks>>
  BY DEF client_lookup
<1>2. PICK i : i = lookup(cache, obj, 1, p)
  OBVIOUS
<1>3. i # 0 /\ BeginBump(t, cache, i, "hit")
  BY <1>2 DEF client_lookup
<1>4. doing = Quiet /\ ListInv(cache, big, chunks)
  BY <1>1, StartsQuiet DEF CacheInv
<1>5. CacheOK(cache) /\ IsList(cache, MruOrder(cache))
  BY <1>4 DEF ListInv
<1>6. PICK k \in 1..Len(MruOrder(cache)) : MruOrder(cache)[k] = i
  BY <1>2, <1>3, <1>5, TypedFinds
<1> QED BY <1>1, <1>3, <1>4, <1>6, UseKept

\* What the full query finds, if it may be cached, is an allocation.
LEMMA QueryFine ==
    ASSUME MemoryInv(big, chunks), NEW obj \in 0..(Limit - 1), NEW found \in get_alloc_info(obj),
           \A a \in leaf_allocator_for(obj) : is_cacheable(a)
    PROVE  [obj_base |-> found.base, obj_limit |-> found.limit, depth |-> 0, period |-> 1]
             \in FineSet(big, chunks)
<1>1. PICK from : from = IF "malloc" \in leaf_allocator_for(obj) THEN chunks ELSE big
  OBVIOUS
<1>2. PICK r \in from : /\ r.lo <= obj /\ obj < r.hi
                        /\ found = [base |-> r.lo, limit |-> r.hi]
  BY <1>1 DEF get_alloc_info
<1>3. found.base = r.lo /\ found.limit = r.hi
  BY <1>2
<1>4. PICK e : e = [obj_base |-> r.lo, obj_limit |-> r.hi, depth |-> 0, period |-> 1]
  OBVIOUS
<1>5. e.obj_base = r.lo /\ e.obj_limit = r.hi /\ e.depth = 0 /\ e.period = 1
  BY <1>4
<1>6. r.lo \in 0..Limit /\ r.hi \in 0..Limit /\ r.lo < r.hi
  BY <1>1, <1>2 DEF MemoryInv, IsBig, IsChunk
<1>7. e \in Entry
  BY <1>4, <1>5, <1>6 DEF Entry
<1>8. Truthful(e, big, chunks)
  <2>1. CASE "malloc" \in leaf_allocator_for(obj)
    BY <1>1, <1>2, <1>5, <2>1 DEF Truthful
  <2>2. CASE "malloc" \notin leaf_allocator_for(obj)
    <3>1. r \in big
      BY <1>1, <2>2
    <3>2. (IF r.sub THEN "malloc" ELSE r.by) \in leaf_allocator_for(obj)
      BY <1>2, <3>1 DEF leaf_allocator_for
    <3>3. ~r.sub
      BY <2>2, <3>2
    <3>4. r.by # "stack"
      BY <3>2, <3>3 DEF is_cacheable
    <3> QED BY <1>5, <3>1, <3>3, <3>4 DEF Truthful
  <2> QED BY <2>1, <2>2
<1> QED BY <1>3, <1>4, <1>7, <1>8 DEF FineSet, Fine

LEMMA QueryKept ==
    ASSUME AllCacheContracts, CacheInv, NEW t \in Threads, NEW obj \in 0..(Limit - 1),
           get_base_query(t, obj)
    PROVE  Kept(cache, doing, big, chunks, cache', doing', big', chunks')
<1>1. MayStart(t) /\ UNCHANGED <<big, chunks>>
  BY DEF get_base_query
<1>2. PICK i : i = lookup_notype(cache, obj, 0)
  OBVIOUS
<1>3. PICK c : c = IF i = 0 THEN cache ELSE bump_mru(cache, i)
  OBVIOUS
<1>4. PICK found \in get_alloc_info(obj) :
        IF \A a \in leaf_allocator_for(obj) : is_cacheable(a)
        THEN cache_with_type(t, c, [obj_base |-> found.base, obj_limit |-> found.limit,
                                    depth |-> 0, period |-> 1])
        ELSE cache' = c /\ UNCHANGED doing
  BY <1>2, <1>3 DEF get_base_query
<1>5. doing = Quiet /\ ListInv(cache, big, chunks) /\ MemoryInv(big, chunks)
  BY <1>1, StartsQuiet DEF CacheInv
<1>6. PICK s : s = MruOrder(cache)
  OBVIOUS
<1>7. PICK E : E = cache.entries
  OBVIOUS
<1>8. PICK r : r = View(E, s)
  OBVIOUS
<1>9. /\ CacheOK(cache) /\ IsList(cache, s) /\ s \in Seq(Slot) /\ Ordered(cache, Quiet, s)
      /\ RecentOf(cache, TransitOf(Quiet)) = r /\ r \in Seq(FineSet(big, chunks))
  BY <1>5, <1>6, <1>7, <1>8, QuietIs
\* The cache after the use of the range found, if one was, and its order.
<1>10. ASSUME NEW x, CacheOK(c), IsList(c, x), c.entries = E,
              View(E, x) \in Seq(FineSet(big, chunks)), Recency(r, View(E, x)),
              \A e \in Entry : Recency(r, WithHead(e, KeptOf(View(E, x))))
       PROVE  Kept(cache, doing, big, chunks, cache', doing', big', chunks')
  <2>1. CASE \A a \in leaf_allocator_for(obj) : is_cacheable(a)
    <3>1. PICK e : e = [obj_base |-> found.base, obj_limit |-> found.limit, depth |-> 0, period |-> 1]
      OBVIOUS
    <3>2. e \in FineSet(big, chunks)
      BY <1>5, <2>1, <3>1, QueryFine
    <3>3. cache_with_type(t, c, e)
      BY <1>4, <2>1, <3>1
    <3>4. e \in Entry
      BY <3>2 DEF FineSet
    <3>5. Recency(RecentOf(cache, TransitOf(doing)), WithHead(e, KeptOf(View(c.entries, x))))
      BY <1>5, <1>9, <1>10, <3>4
    <3>6. View(c.entries, x) \in Seq(FineSet(big, chunks))
      BY <1>10
    <3> QED BY <1>1, <1>5, <1>10, <3>2, <3>3, <3>5, <3>6, InsertKept
  <2>2. CASE ~(\A a \in leaf_allocator_for(obj) : is_cacheable(a))
    <3>1. cache' = c /\ doing' = Quiet
      BY <1>4, <1>5, <2>2
    <3>2. Ordered(cache', doing', x) /\ View(cache'.entries, x) = View(E, x)
      BY <1>10, <3>1 DEF Ordered
    <3>3. Recency(RecentOf(cache, TransitOf(doing)), View(E, x))
      BY <1>5, <1>9, <1>10
    <3>4. View(E, x) \in Seq(FineSet(big', chunks'))
      BY <1>1, <1>10
    <3> QED BY <3>2, <3>3, <3>4, OrderedKept
  <2> QED BY <2>1, <2>2
<1>11. CASE i = 0
  <2>1. c = cache
    BY <1>3, <1>11
  <2>2. Recency(r, r) /\ \A e \in Entry : Recency(r, WithHead(e, KeptOf(r)))
    BY DEF Recency
  <2> QED BY <1>7, <1>8, <1>9, <1>10, <2>1, <2>2
<1>12. CASE i # 0
  <2>1. PICK k \in 1..Len(s) : s[k] = i
    BY <1>2, <1>9, <1>12, NotypeFinds
  <2>2. i \in Slot
    BY <1>9, <2>1
  <2>3. PICK a : a = WithHead(s[k], Without(s, k))
    OBVIOUS
  <2>4. Fronted(a, s, i) /\ View(E, a) = WithHead(r[k], Without(r, k))
    BY <1>8, <1>9, <2>1, <2>3, ViewUsed
  <2>5. CacheOK(c) /\ IsList(c, a) /\ c.entries = E
    <3>1. CacheOK(bump_mru(cache, i)) /\ IsList(bump_mru(cache, i), a) /\ bump_mru(cache, i).entries = E
      BY <1>7, <1>9, <2>2, <2>4, Bumped
    <3> QED BY <1>3, <1>12, <3>1
  <2>6. k \in 1..Len(r)
    BY <1>8, <1>9, ViewIs
  <2>7. View(E, a) \in Seq(FineSet(big, chunks))
    <3>1. Without(r, k) \in Seq(FineSet(big, chunks)) /\ r[k] \in FineSet(big, chunks)
      BY <1>9, <2>6, WithoutIs
    <3> QED BY <2>4, <3>1, WithHeadIs
  <2>8. Recency(r, View(E, a)) /\ \A e \in Entry : Recency(r, WithHead(e, KeptOf(View(E, a))))
    BY <2>4, <2>6 DEF Recency
  <2> QED BY <1>10, <2>5, <2>7, <2>8
<1> QED BY <1>11, <1>12

LEMMA ClientKept ==
    ASSUME AllCacheContracts, CacheInv, NEW t \in Threads, NEW lo, NEW hi, NEW p \in Periods,
           client_cache(t, lo, hi, p)
    PROVE  Kept(cache, doing, big, chunks, cache', doing', big', chunks')
<1>1. PICK e : e = [obj_base |-> lo, obj_limit |-> hi, depth |-> 1, period |-> p]
  OBVIOUS
<1>2. /\ MayStart(t) /\ UNCHANGED <<big, chunks>> /\ [lo |-> lo, hi |-> hi] \in chunks
      /\ cache_with_type(t, cache, e)
  BY <1>1 DEF client_cache
<1>3. doing = Quiet /\ ListInv(cache, big, chunks) /\ MemoryInv(big, chunks)
  BY <1>2, StartsQuiet DEF CacheInv
<1>4. lo \in 0..Limit /\ hi \in 0..Limit /\ lo < hi
  BY <1>2, <1>3 DEF MemoryInv, IsChunk
<1>5. e \in Entry /\ e.depth # 0
  BY <1>1, <1>4 DEF Entry
<1>6. e \in FineSet(big, chunks)
  BY <1>5 DEF FineSet, Fine
<1>7. PICK s : s = MruOrder(cache)
  OBVIOUS
<1>8. PICK r : r = View(cache.entries, s)
  OBVIOUS
<1>9. /\ CacheOK(cache) /\ IsList(cache, s)
      /\ RecentOf(cache, TransitOf(Quiet)) = r /\ r \in Seq(FineSet(big, chunks))
  BY <1>3, <1>7, <1>8, QuietIs
<1>10. Recency(RecentOf(cache, TransitOf(doing)), WithHead(e, KeptOf(r)))
  BY <1>3, <1>5, <1>9 DEF Recency
<1> QED BY <1>2, <1>3, <1>6, <1>8, <1>9, <1>10, InsertKept

\* Only one thread is ever in the middle of something.
LEMMA OnlyOne ==
    ASSUME DoingInv(doing, cache, big, chunks), NEW t \in Threads, doing[t].op # "idle"
    PROVE  /\ doing = [u \in Threads |-> IF u = t THEN doing[t] ELSE Idle]
           /\ Bumping(doing[t], cache, big, chunks) \/ Freeing(doing[t], cache)
           /\ [doing EXCEPT ![t] = Idle] = Quiet
<1>1. doing # Quiet
  BY IdleIs
<1>2. PICK v \in Threads : /\ doing = [u \in Threads |-> IF u = v THEN doing[v] ELSE Idle]
                           /\ Bumping(doing[v], cache, big, chunks) \/ Freeing(doing[v], cache)
  BY <1>1 DEF DoingInv, Quiet
<1>3. v = t
  <2>1. t # v => doing[t] = Idle
    BY <1>2
  <2> QED BY <2>1, IdleIs
<1>4. [doing EXCEPT ![t] = Idle] = Quiet
  BY <1>2, <1>3 DEF Quiet
<1> QED BY <1>2, <1>3, <1>4

LEMMA EndBumpKept ==
    ASSUME CacheInv, NEW t \in Threads, EndBump(t)
    PROVE  Kept(cache, doing, big, chunks, cache', doing', big', chunks')
<1>1. doing[t].op \in {"hit", "insert"} /\ big' = big /\ chunks' = chunks
  BY DEF EndBump
<1>2. /\ doing = [u \in Threads |-> IF u = t THEN doing[t] ELSE Idle]
      /\ Bumping(doing[t], cache, big, chunks) \/ Freeing(doing[t], cache)
      /\ doing' = Quiet
  BY <1>1, OnlyOne DEF EndBump, CacheInv
<1>3. PICK i : i = doing[t].slot
  OBVIOUS
<1>4. i \in Slot \ cache.validity /\ Fine(cache.entries[i], big, chunks)
  BY <1>1, <1>2, <1>3 DEF Bumping, Freeing
<1>5. PICK s : s = MruOrder(cache)
  OBVIOUS
<1>6. CacheOK(cache) /\ IsList(cache, s) /\ \A x \in cache.validity : Fine(cache.entries[x], big, chunks)
  BY <1>5 DEF CacheInv, ListInv
<1>7. PICK a : a = WithHead(i, s)
  OBVIOUS
<1>8. Ordered(cache, doing, a)
  <2>1. s \in Seq(Slot)
    BY <1>6, ListSlots
  <2> QED BY <1>1, <1>2, <1>3, <1>4, <1>6, <1>7, <2>1 DEF Ordered
<1>9. PICK c : c = push_head_mru(cache, i)
  OBVIOUS
<1>10. CacheOK(c) /\ IsList(c, a) /\ c.entries = cache.entries /\ c.validity = cache.validity \cup {i}
  BY <1>4, <1>6, <1>7, <1>9, Pushed
<1>11. cache' = bump_victim(c, i) \/ cache' = c
  BY <1>3, <1>9 DEF EndBump
<1>12. CacheOK(cache') /\ IsList(cache', a) /\ cache'.entries = cache.entries /\ cache'.validity = c.validity
  BY <1>10, <1>11, VictimKept
<1>13. Ordered(cache', doing', a)
  BY <1>2, <1>12 DEF Ordered
<1>14. \A x \in cache'.validity : Fine(cache'.entries[x], big', chunks')
  BY <1>1, <1>4, <1>6, <1>10, <1>12
<1>15. ListInv(cache', big', chunks')
  <2>1. MruOrder(cache') = a
    BY <1>12, MruOrderIs
  <2> QED BY <1>12, <1>14, <2>1 DEF ListInv
<1>16. PICK r : r = View(cache.entries, a)
  OBVIOUS
<1>17. RecentOf(cache, TransitOf(doing)) = r
  BY <1>8, <1>16, OrderedView
<1>18. View(cache'.entries, a) = r
  BY <1>12, <1>16
<1>19. r \in Seq(FineSet(big', chunks'))
  <2>1. a = MruOrder(cache')
    BY <1>12, MruOrderIs
  <2>2. View(cache'.entries, a) \in Seq(FineSet(big', chunks'))
    BY <1>15, <2>1, QuietIs
  <2> QED BY <1>18, <2>2
<1>20. Recency(r, r)
  BY DEF Recency
<1> QED BY <1>13, <1>17, <1>18, <1>19, <1>20, OrderedKept

\* A step that leaves the cache alone keeps it, when what is cached stays fine.
LEMMA SettledKept ==
    ASSUME ListInv(cache, big, chunks), TransitOf(doing) = {}, cache' = cache, doing' = Quiet,
           \A i \in cache.validity : Fine(cache.entries[i], big', chunks')
    PROVE  Kept(cache, doing, big, chunks, cache', doing', big', chunks')
<1>1. ListInv(cache, big', chunks')
  BY DEF ListInv
<1>2. PICK s : s = MruOrder(cache)
  OBVIOUS
<1>3. PICK r : r = View(cache.entries, s)
  OBVIOUS
<1>4. /\ Ordered(cache, Quiet, s) /\ RecentOf(cache, TransitOf(Quiet)) = r
      /\ r \in Seq(FineSet(big', chunks'))
  BY <1>1, <1>2, <1>3, QuietIs
<1>5. TransitOf(Quiet) = {}
  BY IdleIs DEF TransitOf
<1>6. Recency(RecentOf(cache, TransitOf(doing)), r)
  BY <1>4, <1>5 DEF Recency
<1>7. Ordered(cache', doing', s) /\ View(cache'.entries, s) = r
  BY <1>3, <1>4
<1> QED BY <1>4, <1>6, <1>7, OrderedKept

LEMMA EndFreeKept ==
    ASSUME CacheInv, NEW t \in Threads, EndFree(t)
    PROVE  /\ Kept(cache, doing, big, chunks, cache', doing', big', chunks')
           /\ MemoryInv(big', chunks')
<1>1. /\ doing[t].op = "free" /\ cache' = cache /\ big' = big
      /\ chunks' = {r \in chunks : r.lo # doing[t].lo}
  BY DEF EndFree
<1>2. /\ doing = [u \in Threads |-> IF u = t THEN doing[t] ELSE Idle]
      /\ Bumping(doing[t], cache, big, chunks) \/ Freeing(doing[t], cache)
      /\ doing' = Quiet
  BY <1>1, OnlyOne DEF EndFree, CacheInv
<1>3. TransitOf(doing) = {}
  <2>1. ASSUME NEW u \in Threads PROVE doing[u].op \notin {"hit", "insert"}
    <3>1. u # t => doing[u] = Idle
      BY <1>2
    <3> QED BY <1>1, <3>1, IdleIs
  <2> QED BY <2>1 DEF TransitOf
<1>4. ASSUME NEW i \in cache.validity PROVE Fine(cache.entries[i], big', chunks')
  <2>1. Fine(cache.entries[i], big, chunks)
    BY DEF CacheInv, ListInv
  <2>2. cache.entries[i].obj_base # doing[t].lo
    BY <1>1, <1>2 DEF Bumping, Freeing
  <2> QED BY <1>1, <2>1, <2>2 DEF Fine, Truthful
<1>5. ListInv(cache, big, chunks) /\ MemoryInv(big, chunks)
  BY DEF CacheInv
<1>6. MemoryInv(big', chunks')
  BY <1>1, <1>5 DEF MemoryInv
<1> QED BY <1>1, <1>2, <1>3, <1>4, <1>5, <1>6, SettledKept

LEMMA BeginFreeKept ==
    ASSUME AllCacheContracts, CacheInv, NEW t \in Threads, NEW f \in chunks, BeginFree(t, f)
    PROVE  Kept(cache, doing, big, chunks, cache', doing', big', chunks')
<1>1. /\ MayStart(t) /\ big' = big /\ chunks' = chunks
      /\ cache' = uncache_all(cache, f.lo, f.hi)
      /\ doing' = [doing EXCEPT ![t] = [Idle EXCEPT !.op = "free", !.lo = f.lo, !.hi = f.hi]]
  BY DEF BeginFree
<1>2. doing = Quiet /\ ListInv(cache, big, chunks) /\ MemoryInv(big, chunks)
  BY <1>1, StartsQuiet DEF CacheInv
<1>3. f.lo \in 0..Limit /\ f.hi \in 0..Limit /\ f.lo < f.hi
  BY <1>2 DEF MemoryInv, IsChunk
<1>4. PICK e \in Entry : e.obj_base = f.lo /\ e.obj_limit = f.hi
  <2>1. [obj_base |-> f.lo, obj_limit |-> f.hi, depth |-> 0, period |-> 1] \in Entry
    BY <1>3 DEF Entry
  <2> QED BY <2>1
<1>5. PICK s : s = MruOrder(cache)
  OBVIOUS
<1>6. PICK r : r = View(cache.entries, s)
  OBVIOUS
<1>7. /\ CacheOK(cache) /\ IsList(cache, s) /\ s \in Seq(Slot) /\ Len(s) \in Nat
      /\ RecentOf(cache, TransitOf(Quiet)) = r /\ r \in Seq(FineSet(big, chunks))
  BY <1>2, <1>5, <1>6, QuietIs
<1>8. DoneUpto(cache, s, f.lo, f.hi, cache', Slots)
  BY <1>1, <1>7, UncachedAll
<1>9. PICK w : IsList(cache', w) /\ Thinned(w, s)
  BY <1>8 DEF DoneUpto
<1>10. CacheOK(cache') /\ cache'.entries = cache.entries
  BY <1>8 DEF DoneUpto
<1>11. \A x : x \in cache'.validity <=> (x \in cache.validity /\ ~Doomed(cache.entries[x], f.lo, f.hi))
  <2>1. cache'.validity = {x \in cache.validity : x > Slots \/ ~Doomed(cache.entries[x], f.lo, f.hi)}
    BY <1>8 DEF DoneUpto
  <2>2. \A x \in cache.validity : ~(x > Slots)
    BY <1>7, SlotIs DEF CacheOK, Slot
  <2> QED BY <2>1, <2>2
<1>12. ListInv(cache', big', chunks')
  <2>1. MruOrder(cache') = w
    BY <1>9, <1>10, MruOrderIs
  <2>2. \A x \in cache'.validity : Fine(cache'.entries[x], big', chunks')
    BY <1>1, <1>2, <1>10, <1>11 DEF ListInv
  <2> QED BY <1>9, <1>10, <2>1, <2>2 DEF ListInv
<1>13. PICK z : z = View(cache'.entries, w)
  OBVIOUS
<1>14. RecentOf(cache', TransitOf(Quiet)) = z /\ z \in Seq(FineSet(big', chunks')) /\ w \in Seq(Slot)
  <2>1. MruOrder(cache') = w
    BY <1>9, <1>10, MruOrderIs
  <2> QED BY <1>12, <1>13, <2>1, QuietIs
<1>15. /\ doing' = [u \in Threads |-> IF u = t THEN doing'[t] ELSE Idle]
       /\ doing'[t].op = "free" /\ doing'[t].lo = f.lo
  BY <1>1, <1>2 DEF Quiet, Idle
<1>16. TransitOf(doing') = TransitOf(Quiet)
  <2>1. ASSUME NEW u \in Threads PROVE doing'[u].op \notin {"hit", "insert"}
    <3>1. u # t => doing'[u] = Idle
      BY <1>15
    <3> QED BY <1>15, <3>1, IdleIs
  <2>2. TransitOf(doing') = {}
    BY <2>1 DEF TransitOf
  <2>3. TransitOf(Quiet) = {}
    BY IdleIs DEF TransitOf
  <2> QED BY <2>2, <2>3
<1>17. Freeing(doing'[t], cache')
  <2>1. ASSUME NEW x \in cache'.validity PROVE cache'.entries[x].obj_base # f.lo
    BY <1>3, <1>10, <1>11 DEF Doomed
  <2> QED BY <1>15, <2>1 DEF Freeing
<1>18. DoingInv(doing', cache', big', chunks')
  BY <1>15, <1>17 DEF DoingInv
<1>19. Forgotten(r, z, f.lo, f.hi)
  <2>1. PICK place \in [1..Len(w) -> 1..Len(s)] :
          /\ \A j, k \in 1..Len(w) : j < k => place[j] < place[k]
          /\ \A j \in 1..Len(w) : w[j] = s[place[j]]
    BY <1>9 DEF Thinned
  <2>2. Len(r) = Len(s) /\ \A k \in 1..Len(s) : r[k] = cache.entries[s[k]]
    BY <1>6, <1>7, ViewIs
  <2>3. Len(z) = Len(w) /\ \A k \in 1..Len(w) : z[k] = cache.entries[w[k]]
    BY <1>10, <1>13, <1>14, ViewIs
  <2>4. \A j \in 1..Len(w) : z[j] = r[place[j]]
    BY <2>1, <2>2, <2>3
  <2>5. ASSUME NEW k \in 1..Len(s)
        PROVE  (\E j \in 1..Len(w) : place[j] = k) <=> ~Doomed(r[k], f.lo, f.hi)
    <3>1. s[k] \in cache.validity
      BY <1>7, ListValid
    <3>2. s[k] \in cache'.validity <=> ~Doomed(r[k], f.lo, f.hi)
      BY <1>11, <2>2, <3>1
    <3>3. s[k] \in cache'.validity <=> \E j \in 1..Len(w) : s[k] = w[j]
      BY <1>9, ListValid, SMTT(20)
    <3>4. ASSUME NEW j \in 1..Len(w) PROVE s[k] = w[j] <=> place[j] = k
      <4>1. place[j] \in 1..Len(s) /\ w[j] = s[place[j]]
        BY <2>1
      <4>2. s[place[j]] = s[k] => place[j] = k
        BY <1>7, <4>1, ListLinks
      <4> QED BY <4>1, <4>2
    <3> QED BY <3>2, <3>3, <3>4
  <2>6. /\ place \in [1..Len(z) -> 1..Len(r)]
        /\ \A j, k \in 1..Len(z) : j < k => place[j] < place[k]
    BY <2>1, <2>2, <2>3
  <2>7. \A k \in 1..Len(r) : (\E j \in 1..Len(z) : place[j] = k) <=> ~Doomed(r[k], f.lo, f.hi)
    BY <2>2, <2>3, <2>5
  <2>8. \A j \in 1..Len(z) : z[j] = r[place[j]]
    BY <2>3, <2>4
  <2> QED BY <2>6, <2>7, <2>8, Zenon DEF Forgotten
<1>20. Recency(r, z)
  BY <1>4, <1>19 DEF Recency
<1>21. z \in Seq(Entry)
  BY <1>14, FineSeq
<1>22. RecentOf(cache', TransitOf(doing')) = z /\ RecentOf(cache, TransitOf(doing)) = r
  BY <1>2, <1>7, <1>14, <1>16
<1> QED BY <1>12, <1>18, <1>20, <1>21, <1>22 DEF Kept

-----------------------------------------------------------------------------
(* The allocations come and go. *)

LEMMA MapKept ==
    ASSUME AllCacheContracts, CacheInv, NEW t \in Threads, NEW r \in Mappings,
           NEW by \in {"mmap", "stack"}, map(t, r[1], r[2], by)
    PROVE  /\ Kept(cache, doing, big, chunks, cache', doing', big', chunks')
           /\ MemoryInv(big', chunks')
<1>1. PICK b : b = [lo |-> r[1], hi |-> r[2], by |-> by, sub |-> FALSE]
  OBVIOUS
<1>2. /\ MayStart(t) /\ Apart(big, r[1], r[2]) /\ big' = big \cup {b}
      /\ cache' = cache /\ chunks' = chunks /\ doing' = doing
  BY <1>1 DEF map
<1>3. doing = Quiet /\ ListInv(cache, big, chunks) /\ MemoryInv(big, chunks)
  BY <1>2, StartsQuiet DEF CacheInv
<1>4. IsBig(b)
  BY <1>1, CacheAssumption DEF IsBig
<1>5. MemoryInv(big', chunks')
  <2>1. \A a \in big : a.hi <= b.lo \/ b.hi <= a.lo
    BY <1>1, <1>2 DEF Apart
  <2>2. \A x \in chunks : IsChunk(x, big')
    BY <1>2, <1>3 DEF MemoryInv, IsChunk
  <2> QED BY <1>2, <1>3, <1>4, <2>1, <2>2 DEF MemoryInv
<1>6. \A i \in cache.validity : Fine(cache.entries[i], big', chunks')
  BY <1>2, <1>3 DEF ListInv, Fine, Truthful
<1>7. TransitOf(doing) = {}
  BY <1>3, IdleIs DEF TransitOf
<1> QED BY <1>2, <1>3, <1>5, <1>6, <1>7, SettledKept

LEMMA MallocKept ==
    ASSUME AllCacheContracts, CacheInv, NEW t \in Threads, NEW r \in Places, malloc(t, r[1], r[2])
    PROVE  /\ Kept(cache, doing, big, chunks, cache', doing', big', chunks')
           /\ MemoryInv(big', chunks')
<1>1. PICK f : f = [lo |-> r[1], hi |-> r[2]]
  OBVIOUS
<1>2. /\ MayStart(t) /\ \E b \in big : b.sub /\ b.lo <= r[1] /\ r[2] <= b.hi
      /\ chunks' = chunks \cup {f} /\ cache' = cache /\ big' = big /\ doing' = doing
  BY <1>1 DEF malloc
<1>3. doing = Quiet /\ ListInv(cache, big, chunks) /\ MemoryInv(big, chunks)
  BY <1>2, StartsQuiet DEF CacheInv
<1>4. IsChunk(f, big)
  BY <1>1, <1>2, CacheAssumption DEF IsChunk
<1>5. MemoryInv(big', chunks')
  BY <1>2, <1>3, <1>4 DEF MemoryInv
<1>6. \A i \in cache.validity : Fine(cache.entries[i], big', chunks')
  BY <1>2, <1>3 DEF ListInv, Fine, Truthful
<1>7. TransitOf(doing) = {}
  BY <1>3, IdleIs DEF TransitOf
<1> QED BY <1>2, <1>3, <1>5, <1>6, <1>7, SettledKept

\* Where nothing is cached, a big allocation may go or change.
LEMMA UncachedBig ==
    ASSUME MemoryInv(big, chunks), ListInv(cache, big, chunks), NEW b \in big, NothingCachedIn(b),
           NEW i \in cache.validity
    PROVE  Fine(cache.entries[i], big \ {b}, chunks)
<1>1. PICK e : e = cache.entries[i]
  OBVIOUS
<1>2. Fine(e, big, chunks)
  BY <1>1 DEF ListInv
<1>3. b.hi <= e.obj_base \/ e.obj_limit <= b.lo
  BY <1>1 DEF NothingCachedIn, Apart
<1>4. b.lo \in 0..Limit /\ b.hi \in 0..Limit /\ b.lo < b.hi
  BY DEF MemoryInv, IsBig
<1>5. Limit \in Nat
  BY CacheAssumption
<1>6. ~(b.lo = e.obj_base /\ b.hi = e.obj_limit)
  BY <1>3, <1>4, <1>5
<1>7. Fine(e, big \ {b}, chunks)
  BY <1>2, <1>6 DEF Fine, Truthful
<1> QED BY <1>1, <1>7

LEMMA UnmapKept ==
    ASSUME AllCacheContracts, CacheInv, NEW t \in Threads, NEW b \in big, unmap(t, b)
    PROVE  /\ Kept(cache, doing, big, chunks, cache', doing', big', chunks')
           /\ MemoryInv(big', chunks')
<1>2. /\ MayStart(t) /\ NothingCachedIn(b) /\ Apart(chunks, b.lo, b.hi)
      /\ big' = big \ {b} /\ cache' = cache /\ chunks' = chunks /\ doing' = doing
  BY DEF unmap, AllCacheContracts
<1>3. doing = Quiet /\ ListInv(cache, big, chunks) /\ MemoryInv(big, chunks)
  BY <1>2, StartsQuiet DEF CacheInv
<1>4. ASSUME NEW x \in chunks PROVE IsChunk(x, big')
  <2>1. IsChunk(x, big)
    BY <1>3 DEF MemoryInv
  <2>2. x.lo \in 0..Limit /\ x.hi \in 0..Limit /\ x.lo < x.hi /\ Limit \in Nat
    BY <2>1, CacheAssumption DEF IsChunk
  <2>3. PICK a \in big : a.sub /\ a.lo <= x.lo /\ x.hi <= a.hi
    BY <2>1 DEF IsChunk
  <2>4. x.hi <= b.lo \/ b.hi <= x.lo
    BY <1>2 DEF Apart
  <2>5. a # b
    <3>1. a.lo \in 0..Limit /\ a.hi \in 0..Limit
      BY <1>3 DEF MemoryInv, IsBig
    <3> QED BY <2>2, <2>3, <2>4, <3>1
  <2> QED BY <1>2, <2>2, <2>3, <2>5 DEF IsChunk
<1>5. MemoryInv(big', chunks')
  BY <1>2, <1>3, <1>4 DEF MemoryInv
<1>6. \A i \in cache.validity : Fine(cache.entries[i], big', chunks')
  BY <1>2, <1>3, UncachedBig
<1>7. TransitOf(doing) = {}
  BY <1>3, IdleIs DEF TransitOf
<1> QED BY <1>2, <1>3, <1>5, <1>6, <1>7, SettledKept

LEMMA SuballocateKept ==
    ASSUME AllCacheContracts, CacheInv, NEW t \in Threads, NEW b \in big, suballocate(t, b)
    PROVE  /\ Kept(cache, doing, big, chunks, cache', doing', big', chunks')
           /\ MemoryInv(big', chunks')
<1>1. PICK n : n = [b EXCEPT !.sub = TRUE]
  OBVIOUS
<1>2. /\ MayStart(t) /\ NothingCachedIn(b) /\ ~b.sub
      /\ big' = (big \ {b}) \cup {n} /\ cache' = cache /\ chunks' = chunks /\ doing' = doing
  BY <1>1 DEF suballocate, AllCacheContracts
<1>3. doing = Quiet /\ ListInv(cache, big, chunks) /\ MemoryInv(big, chunks)
  BY <1>2, StartsQuiet DEF CacheInv
<1>4. IsBig(b)
  BY <1>3 DEF MemoryInv
<1>5. n = [lo |-> b.lo, hi |-> b.hi, by |-> b.by, sub |-> TRUE]
  BY <1>1, <1>4 DEF IsBig
<1>6. IsBig(n) /\ n.lo = b.lo /\ n.hi = b.hi
  BY <1>4, <1>5 DEF IsBig
<1>7. ASSUME NEW x \in chunks PROVE IsChunk(x, big')
  <2>1. IsChunk(x, big)
    BY <1>3 DEF MemoryInv
  <2>2. PICK a \in big : a.sub /\ a.lo <= x.lo /\ x.hi <= a.hi
    BY <2>1 DEF IsChunk
  <2>3. a # b
    BY <1>2, <2>2
  <2> QED BY <1>2, <2>1, <2>2, <2>3 DEF IsChunk
<1>8. \A x \in big \ {b} : x.hi <= n.lo \/ n.hi <= x.lo
  BY <1>3, <1>6 DEF MemoryInv
<1>9. MemoryInv(big', chunks')
  BY <1>2, <1>3, <1>6, <1>7, <1>8 DEF MemoryInv
<1>10. ASSUME NEW i \in cache.validity PROVE Fine(cache.entries[i], big', chunks')
  <2>1. Fine(cache.entries[i], big \ {b}, chunks)
    BY <1>2, <1>3, UncachedBig
  <2> QED BY <1>2, <2>1 DEF Fine, Truthful
<1>11. TransitOf(doing) = {}
  BY <1>3, IdleIs DEF TransitOf
<1> QED BY <1>2, <1>3, <1>9, <1>10, <1>11, SettledKept

-----------------------------------------------------------------------------
(* The theorems. *)

\* CacheInv, and what the refinement needs to know of the ranges in order of use.
RecentInv == CacheInv /\ RecentOf(cache, TransitOf(doing)) \in Seq(Entry)

LEMMA CacheStarts ==
    ASSUME CacheInit
    PROVE  RecentInv /\ RecentOf(cache, TransitOf(doing)) = <<>>
<1>1. CacheOK(cache)
  BY DEF CacheInit, CacheOK
<1>2. PICK s : s = <<>>
  OBVIOUS
<1>3. s \in Seq(Slot) /\ Len(s) = 0 /\ {s[k] : k \in 1..Len(s)} = {}
  BY <1>2
<1>4. cache.validity = {} /\ cache.head_mru = 0 /\ cache.tail_mru = 0
  BY DEF CacheInit
<1>5. IsList(cache, s)
  BY <1>3, <1>4 DEF IsList
<1>6. MruOrder(cache) = s
  BY <1>1, <1>5, MruOrderIs
<1>7. ListInv(cache, big, chunks)
  BY <1>1, <1>4, <1>5, <1>6 DEF ListInv
<1>8. doing = Quiet /\ MemoryInv(big, chunks)
  BY DEF CacheInit, Quiet, MemoryInv
<1>9. DoingInv(doing, cache, big, chunks)
  BY <1>8 DEF DoingInv, Quiet
<1>10. RecentOf(cache, TransitOf(doing)) = View(cache.entries, s)
  BY <1>6, <1>7, <1>8, QuietIs
<1>11. View(cache.entries, s) = <<>>
  BY <1>3 DEF View
<1> QED BY <1>7, <1>8, <1>9, <1>10, <1>11 DEF RecentInv, CacheInv

LEMMA CacheSteps ==
    ASSUME AllCacheContracts, CacheInv, CacheNext
    PROVE  /\ Kept(cache, doing, big, chunks, cache', doing', big', chunks')
           /\ MemoryInv(big', chunks')
<1>1. PICK t \in Threads :
        \/ EndBump(t)
        \/ EndFree(t)
        \/ \E obj \in 0..(Limit - 1) :
             \/ get_base_hit(t, obj)
             \/ get_base_query(t, obj)
             \/ \E p \in Periods : client_lookup(t, obj, p)
        \/ \E r \in Places :
             \/ malloc(t, r[1], r[2])
             \/ \E p \in Periods : client_cache(t, r[1], r[2], p)
        \/ \E r \in Mappings, by \in {"mmap", "stack"} : map(t, r[1], r[2], by)
        \/ \E b \in big : unmap(t, b) \/ suballocate(t, b)
        \/ \E r \in chunks : BeginFree(t, r)
  BY DEF CacheNext
<1>2. MemoryInv(big, chunks)
  BY DEF CacheInv
<1>3. CASE EndBump(t)
  BY <1>2, <1>3, EndBumpKept, ZenonT(30) DEF EndBump
<1>4. CASE EndFree(t)
  BY <1>4, EndFreeKept
<1>5. ASSUME NEW obj \in 0..(Limit - 1), get_base_hit(t, obj)
      PROVE  /\ Kept(cache, doing, big, chunks, cache', doing', big', chunks')
             /\ MemoryInv(big', chunks')
  BY <1>2, <1>5, HitKept DEF get_base_hit
<1>6. ASSUME NEW obj \in 0..(Limit - 1), get_base_query(t, obj)
      PROVE  /\ Kept(cache, doing, big, chunks, cache', doing', big', chunks')
             /\ MemoryInv(big', chunks')
  BY <1>2, <1>6, QueryKept DEF get_base_query
<1>7. ASSUME NEW obj \in 0..(Limit - 1), NEW p \in Periods, client_lookup(t, obj, p)
      PROVE  /\ Kept(cache, doing, big, chunks, cache', doing', big', chunks')
             /\ MemoryInv(big', chunks')
  BY <1>2, <1>7, ClientHitKept DEF client_lookup
<1>8. ASSUME NEW r \in Places, malloc(t, r[1], r[2])
      PROVE  /\ Kept(cache, doing, big, chunks, cache', doing', big', chunks')
             /\ MemoryInv(big', chunks')
  BY <1>8, MallocKept
<1>9. ASSUME NEW r \in Places, NEW p \in Periods, client_cache(t, r[1], r[2], p)
      PROVE  /\ Kept(cache, doing, big, chunks, cache', doing', big', chunks')
             /\ MemoryInv(big', chunks')
  BY <1>2, <1>9, ClientKept DEF client_cache
<1>10. ASSUME NEW r \in Mappings, NEW by \in {"mmap", "stack"}, map(t, r[1], r[2], by)
       PROVE  /\ Kept(cache, doing, big, chunks, cache', doing', big', chunks')
              /\ MemoryInv(big', chunks')
  BY <1>10, MapKept
<1>11. ASSUME NEW b \in big, unmap(t, b) \/ suballocate(t, b)
       PROVE  /\ Kept(cache, doing, big, chunks, cache', doing', big', chunks')
              /\ MemoryInv(big', chunks')
  BY <1>11, UnmapKept, SuballocateKept
<1>12. ASSUME NEW r \in chunks, BeginFree(t, r)
       PROVE  /\ Kept(cache, doing, big, chunks, cache', doing', big', chunks')
              /\ MemoryInv(big', chunks')
  BY <1>2, <1>12, BeginFreeKept DEF BeginFree
<1> QED BY <1>1, <1>3, <1>4, <1>5, <1>6, <1>7, <1>8, <1>9, <1>10, <1>11, <1>12

LEMMA RecentInvKept ==
    ASSUME AllCacheContracts, RecentInv, [CacheNext]_cacheVars
    PROVE  /\ RecentInv'
           /\ Recency(RecentOf(cache, TransitOf(doing)), RecentOf(cache', TransitOf(doing')))
<1>1. CASE CacheNext
  <2>1. /\ Kept(cache, doing, big, chunks, cache', doing', big', chunks')
        /\ MemoryInv(big', chunks')
    BY <1>1, CacheSteps DEF RecentInv
  <2>2. /\ ListInv(cache', big', chunks') /\ DoingInv(doing', cache', big', chunks')
        /\ RecentOf(cache', TransitOf(doing')) \in Seq(Entry)
        /\ Recency(RecentOf(cache, TransitOf(doing)), RecentOf(cache', TransitOf(doing')))
    BY <2>1 DEF Kept
  <2> QED BY <2>1, <2>2 DEF RecentInv, CacheInv
<1>2. CASE UNCHANGED cacheVars
  <2>1. cache' = cache /\ doing' = doing /\ big' = big /\ chunks' = chunks
    BY <1>2 DEF cacheVars
  <2>2. Recency(RecentOf(cache, TransitOf(doing)), RecentOf(cache', TransitOf(doing')))
    BY <2>1 DEF Recency
  <2> QED BY <2>1, <2>2 DEF RecentInv, CacheInv
<1> QED BY <1>1, <1>2

\* A range of depth 0 that spans obj is what the full query finds there.
LEMMA TruthfulFound ==
    ASSUME MemoryInv(big, chunks), NEW e, Fine(e, big, chunks), e.depth = 0,
           NEW obj \in 0..(Limit - 1), Spans(e, obj)
    PROVE  [base |-> e.obj_base, limit |-> e.obj_limit] \in get_alloc_info(obj)
<1>1. Truthful(e, big, chunks) /\ e.obj_base <= obj /\ obj < e.obj_limit
  BY DEF Fine, Spans
<1>2. Limit \in Nat /\ \A b \in big : b.lo \in 0..Limit /\ b.hi \in 0..Limit
  BY CacheAssumption DEF MemoryInv, IsBig
<1>3. ASSUME NEW b \in big, ~b.sub, b.lo = e.obj_base, b.hi = e.obj_limit, b.by # "stack"
      PROVE  [base |-> e.obj_base, limit |-> e.obj_limit] \in get_alloc_info(obj)
  <2>1. ASSUME NEW a \in big, a.lo <= obj, obj < a.hi PROVE a = b
    <3>1. a # b => a.hi <= b.lo \/ b.hi <= a.lo
      BY DEF MemoryInv
    <3> QED BY <1>1, <1>2, <1>3, <2>1, <3>1
  <2>2. b.by = "mmap"
    BY <1>3 DEF MemoryInv, IsBig
  <2>3. "malloc" \notin leaf_allocator_for(obj)
    BY <1>3, <2>1, <2>2 DEF leaf_allocator_for
  <2> QED BY <1>1, <1>3, <2>3 DEF get_alloc_info
<1>4. ASSUME NEW r \in chunks, r.lo = e.obj_base, r.hi = e.obj_limit
      PROVE  [base |-> e.obj_base, limit |-> e.obj_limit] \in get_alloc_info(obj)
  <2>1. r.lo \in 0..Limit /\ r.hi \in 0..Limit
    BY DEF MemoryInv, IsChunk
  <2>2. PICK b \in big : b.sub /\ b.lo <= r.lo /\ r.hi <= b.hi
    BY DEF MemoryInv, IsChunk
  <2>3. b.lo <= obj /\ obj < b.hi
    BY <1>1, <1>2, <1>4, <2>1, <2>2
  <2>4. "malloc" \in leaf_allocator_for(obj)
    BY <2>2, <2>3 DEF leaf_allocator_for
  <2> QED BY <1>1, <1>4, <2>4 DEF get_alloc_info
<1> QED BY <1>1, <1>3, <1>4 DEF Truthful

LEMMA InvTruthful ==
    ASSUME CacheInv
    PROVE  HitsAreTrue
<1> SUFFICES ASSUME NEW obj \in 0..(Limit - 1), NEW i, i = lookup_notype(cache, obj, 0),
                    i # 0, cache.entries[i].depth = 0
             PROVE  [base |-> cache.entries[i].obj_base, limit |-> cache.entries[i].obj_limit]
                      \in get_alloc_info(obj)
  BY DEF HitsAreTrue
<1>1. PICK s : s = MruOrder(cache)
  OBVIOUS
<1>2. /\ CacheOK(cache) /\ IsList(cache, s) /\ MemoryInv(big, chunks)
      /\ \A x \in cache.validity : Fine(cache.entries[x], big, chunks)
  BY <1>1 DEF CacheInv, ListInv
<1>3. PICK k \in 1..Len(s) : s[k] = i /\ Spans(cache.entries[i], obj)
  BY <1>2, NotypeFinds
<1>4. i \in cache.validity
  BY <1>2, <1>3, ListValid
<1>5. Fine(cache.entries[i], big, chunks)
  BY <1>2, <1>4
<1> QED BY <1>2, <1>3, <1>5, TruthfulFound

\* What Recency says of values is a step of RecentRanges or none.
LEMMA RecencySteps ==
    ASSUME RecentlyUsed \in Seq(Entry), RecentlyUsed' \in Seq(Entry),
           Recency(RecentlyUsed, RecentlyUsed')
    PROVE  [LRU!Next]_RecentlyUsed
<1>1. PICK r \in Seq(Entry) : r = RecentlyUsed
  OBVIOUS
<1>2. PICK z \in Seq(Entry) : z = RecentlyUsed'
  OBVIOUS
<1>3. DOMAIN r = 1..Len(r) /\ DOMAIN z = 1..Len(z)
  OBVIOUS
<1>4. Recency(r, z)
  BY <1>1, <1>2
<1>5. CASE z = r
  BY <1>1, <1>2, <1>5
<1>6. ASSUME NEW k \in 1..Len(r) PROVE LRU!Fronted(k) = WithHead(r[k], Without(r, k))
  BY <1>1, FrontedIs DEF LRU!Fronted
<1>7. ASSUME NEW e \in Entry, NEW x \in Seq(Entry) PROVE LRU!Added(e, x) = WithHead(e, KeptOf(x))
  BY AddedIs DEF LRU!Added
<1>8. ASSUME NEW k \in 1..Len(r), z = WithHead(r[k], Without(r, k)) PROVE LRU!Next
  <2>1. LRU!Use(k)
    BY <1>2, <1>6, <1>8 DEF LRU!Use
  <2> QED BY <1>1, <1>3, <2>1 DEF LRU!Next
<1>9. ASSUME NEW k \in 1..Len(r), NEW e \in Entry,
             z = WithHead(e, KeptOf(WithHead(r[k], Without(r, k))))
      PROVE  LRU!Next
  <2>1. PICK x : x = WithHead(r[k], Without(r, k))
    OBVIOUS
  <2>2. x \in Seq(Entry)
    <3>1. Without(r, k) \in Seq(Entry) /\ r[k] \in Entry
      BY WithoutIs
    <3> QED BY <2>1, <3>1, WithHeadIs
  <2>3. LRU!Fronted(k) = x
    BY <1>6, <2>1
  <2>4. z = LRU!Added(e, x)
    BY <1>7, <1>9, <2>1, <2>2
  <2>5. LRU!UseAndInsert(k, e)
    BY <1>2, <2>3, <2>4 DEF LRU!UseAndInsert
  <2> QED BY <1>1, <1>3, <2>5 DEF LRU!Next
<1>10. ASSUME NEW e \in Entry, z = WithHead(e, KeptOf(r)) PROVE LRU!Next
  <2>1. z = LRU!Added(e, r)
    BY <1>7, <1>10
  <2>2. LRU!Insert(e)
    BY <1>1, <1>2, <2>1 DEF LRU!Insert
  <2> QED BY <2>2 DEF LRU!Next
<1>11. ASSUME NEW e \in Entry, Forgotten(r, z, e.obj_base, e.obj_limit) PROVE LRU!Next
  <2>1. PICK place \in [1..Len(z) -> 1..Len(r)] :
          /\ \A j, k \in 1..Len(z) : j < k => place[j] < place[k]
          /\ \A k \in 1..Len(r) : (\E j \in 1..Len(z) : place[j] = k)
                                    <=> ~Doomed(r[k], e.obj_base, e.obj_limit)
          /\ \A j \in 1..Len(z) : z[j] = r[place[j]]
    BY <1>11 DEF Forgotten
  <2>2. place \in [DOMAIN z -> DOMAIN r]
    BY <1>3, <2>1
  <2>3. {place[k] : k \in DOMAIN z} = {k \in DOMAIN r : ~Doomed(r[k], e.obj_base, e.obj_limit)}
    <3>1. ASSUME NEW k \in DOMAIN z
          PROVE  place[k] \in DOMAIN r /\ ~Doomed(r[place[k]], e.obj_base, e.obj_limit)
      <4>1. k \in 1..Len(z) /\ place[k] \in 1..Len(r)
        BY <1>3, <2>1
      <4> QED BY <1>3, <2>1, <4>1
    <3>2. ASSUME NEW k \in DOMAIN r, ~Doomed(r[k], e.obj_base, e.obj_limit)
          PROVE  \E j \in DOMAIN z : place[j] = k
      BY <1>3, <2>1, <3>2
    <3> QED BY <3>1, <3>2, Zenon
  <2>4. LRU!Kept(e.obj_base, e.obj_limit) = {k \in DOMAIN r : ~Doomed(r[k], e.obj_base, e.obj_limit)}
    BY <1>1 DEF LRU!Kept, Doomed
  <2>5. /\ \A j, k \in DOMAIN z : j < k => place[j] < place[k]
        /\ \A k \in DOMAIN z : z[k] = r[place[k]]
    BY <1>3, <2>1
  <2>6. LRU!Forget(e.obj_base, e.obj_limit)
    BY <1>1, <1>2, <2>2, <2>3, <2>4, <2>5 DEF LRU!Forget
  <2> QED BY <2>6 DEF LRU!Next
<1> QED BY <1>4, <1>5, <1>8, <1>9, <1>10, <1>11 DEF Recency

LEMMA RecentlyUsedIs ==
    /\ RecentlyUsed = RecentOf(cache, TransitOf(doing))
    /\ RecentlyUsed' = RecentOf(cache', TransitOf(doing'))
<1>1. RecentlyUsed = RecentOf(cache, TransitOf(doing))
  BY DEF RecentlyUsed, RecentOf, TransitOf, InTransit
<1>2. RecentlyUsed' = RecentOf(cache', TransitOf(doing'))
  BY DEF RecentlyUsed, RecentOf, TransitOf, InTransit
<1> QED BY <1>1, <1>2

\* The cache never answers for memory that has been freed or that holds something
\* smaller: a range of depth 0 that __liballocs_get_base finds cached is the
\* allocation that the full query finds, for any number of slots and threads, as
\* long as one thread at a time is in the cache and nothing cached is unmapped
\* or becomes an arena.
THEOREM CacheTruthful ==
    ASSUME AllCacheContracts
    PROVE  CacheSpec => []HitsAreTrue
<1>1. CacheInit => RecentInv
  BY CacheStarts
<1>2. RecentInv /\ [CacheNext]_cacheVars => RecentInv'
  BY RecentInvKept
<1>3. RecentInv => HitsAreTrue
  BY InvTruthful DEF RecentInv
<1> QED BY <1>1, <1>2, <1>3, PTL DEF CacheSpec

\* The links, the validity bits and the two halves of a bump implement a bounded
\* list of ranges in order of use: a full cache evicts the range used longest
\* ago, and nothing else is lost but what begins in freed memory.
THEOREM CacheIsRecentRanges ==
    ASSUME AllCacheContracts
    PROVE  CacheSpec => ImplementsRecentRanges
<1>1. CacheInit => RecentInv /\ LRU!Init
  <2>1. CacheInit => RecentInv /\ RecentOf(cache, TransitOf(doing)) = <<>>
    BY CacheStarts
  <2> QED BY <2>1, RecentlyUsedIs DEF LRU!Init
<1>2. RecentInv /\ [CacheNext]_cacheVars => RecentInv' /\ [LRU!Next]_RecentlyUsed
  <2> SUFFICES ASSUME RecentInv, [CacheNext]_cacheVars
               PROVE  RecentInv' /\ [LRU!Next]_RecentlyUsed
    OBVIOUS
  <2>1. RecentInv' /\ Recency(RecentlyUsed, RecentlyUsed')
    BY RecentInvKept, RecentlyUsedIs
  <2>2. RecentlyUsed \in Seq(Entry) /\ RecentlyUsed' \in Seq(Entry)
    BY <2>1, RecentlyUsedIs DEF RecentInv
  <2> QED BY <2>1, <2>2, RecencySteps
<1> QED BY <1>1, <1>2, PTL DEF CacheSpec, ImplementsRecentRanges, LRU!Spec
=============================================================================
