--------------------------- MODULE MemRangeCache ---------------------------
(***************************************************************************)
(* The memory range cache (include/liballocs_cil_inlines.h, src/cache.c)   *)
(* and the queries that go through it (src/query.c, include/liballocs.h),  *)
(* beside the allocations they are about.  The cache is one record value   *)
(* and its functions are operators on it; index 0 is "none".  The one      *)
(* place where a thread is modelled as interruptible inside the cache is   *)
(* between the two halves of bump_mru, and inside a free between the       *)
(* invalidation and the removal from the index.                            *)
(***************************************************************************)
EXTENDS Integers, FiniteSets, FiniteSetsExt, Sequences

CONSTANTS Slots,        \* LIBALLOCS_MEMRANGE_CACHE_MAX_SIZE
          Limit,        \* addresses are 0..Limit - 1
          Periods,      \* the periods clients ask for
          Mappings,     \* where big allocations may be: pairs of bounds
          Places,       \* where chunks may be
          Threads, CacheContracts

ASSUME CacheAssumption ==
    /\ Slots \in Nat \ {0} /\ Limit \in Nat /\ Periods \subseteq Nat
    /\ \A r \in Places \cup Mappings : r[1] \in 0..Limit /\ r[2] \in 0..Limit /\ r[1] < r[2]
    /\ CacheContracts \subseteq {"one_thread", "unmap_uncached", "arena_uncached"}

Slot == 1..Slots
\* What may be cached: by get_base with depth 0 and period 1, by a client (an
\* instrumented check) at depth 1 with the period of an array's element.
Entry ==
    {e \in [obj_base : 0..Limit, obj_limit : 0..Limit, depth : {0, 1}, period : Periods \cup {1}] :
        e.obj_base < e.obj_limit /\ (e.depth = 0 => e.period = 1)}
NoEntry == [obj_base |-> 0, obj_limit |-> 0, depth |-> 0, period |-> 0]

VARIABLES cache,    \* __liballocs_ool_cache
          big,      \* the deepest big allocations: bounds, allocator, suballocated or not
          chunks,   \* the chunks of the suballocator: bounds
          doing     \* what each thread has still to do

cacheVars == <<cache, big, chunks, doing>>
-----------------------------------------------------------------------------
\* The list operations, on the cache c.
unlink(c, i) ==
    LET n == c.next_mru[i]
        p == c.prev_mru[i]
    IN  [c EXCEPT !.validity = @ \ {i}, !.next_victim = i,
                  !.next_mru = [j \in Slot |-> IF j = p THEN n ELSE c.next_mru[j]],
                  !.prev_mru = [j \in Slot |-> IF j = n THEN p ELSE c.prev_mru[j]],
                  !.head_mru = IF @ = i THEN n ELSE @,
                  !.tail_mru = IF @ = i THEN p ELSE @]

push_head_mru(c, i) ==
    LET h == c.head_mru
    IN  [c EXCEPT !.validity = @ \cup {i},
                  !.next_mru[i] = h,
                  !.prev_mru = [j \in Slot |-> IF j = i THEN 0 ELSE
                                               IF j = h THEN i ELSE c.prev_mru[j]],
                  !.head_mru = i,
                  !.tail_mru = IF @ = 0 THEN i ELSE @]

bump_victim(c, i) ==
    IF c.next_victim = i THEN [c EXCEPT !.next_victim = 1 + (i % Slots)] ELSE c

\* bump_mru is UnlinkForBump and then push_head_mru, unless i is the head.
UnlinkForBump(c, i) == IF i \in c.validity THEN unlink(c, i) ELSE c
bump_mru(c, i) ==
    IF c.head_mru = i THEN c ELSE push_head_mru(UnlinkForBump(c, i), i)

\* The list as a sequence of slots: the walk of next_mru from head_mru, cut off
\* when it has one step more than there are slots.
After(c, w) == IF w = <<>> THEN c.head_mru ELSE c.next_mru[w[Len(w)]]
MruOrder(c) ==
    LET walk[n \in 0..(Slots + 1)] ==
          IF n = 0 THEN <<>>
          ELSE IF After(c, walk[n - 1]) = 0 THEN walk[n - 1]
          ELSE Append(walk[n - 1], After(c, walk[n - 1]))
    IN  walk[Slots + 1]

\* The lookups: the first slot from the head whose range has obj at a multiple
\* of its period.  The typed one takes the base of a range of the type whatever
\* its period.  Ranges of depth 0 have the type of bytes, clients' have another.
AtPeriod(e, obj, require_period) ==
    /\ e.period # 0
    /\ require_period \in {0, e.period}
    /\ (obj - e.obj_base) % e.period = 0
Spans(e, obj) == e.obj_base <= obj /\ obj < e.obj_limit
FirstOf(c, Hit(_)) ==
    LET order == MruOrder(c)
        hits == {k \in DOMAIN order : order[k] \in c.validity /\ Hit(c.entries[order[k]])}
    IN  IF hits = {} THEN 0 ELSE order[Min(hits)]
lookup_notype(c, obj, require_period) ==
    FirstOf(c, LAMBDA e : /\ Spans(e, obj)
                          /\ \/ obj = e.obj_base /\ require_period = 0
                             \/ AtPeriod(e, obj, require_period))
lookup(c, obj, depth, require_period) ==
    FirstOf(c, LAMBDA e : /\ e.depth = depth
                          /\ Spans(e, obj)
                          /\ obj = e.obj_base \/ AtPeriod(e, obj, require_period))

\* __liballocs_cache_with_type: the lowest free slot, or the least recently used.
Position_NextVictim(c) == c.next_victim
Position(c) == IF c.validity = Slot THEN c.tail_mru ELSE Min(Slot \ c.validity)

\* __liballocs_uncache_all: slots in order, those whose range begins in [lo, hi).
Doomed_Inside(e, lo, hi) == lo < e.obj_base /\ e.obj_base < hi
Doomed(e, lo, hi) == lo <= e.obj_base /\ e.obj_base < hi
uncache(c, i, lo, hi) ==
    IF i \in c.validity /\ Doomed(c.entries[i], lo, hi) THEN unlink(c, i) ELSE c
uncache_all(c, lo, hi) ==
    LET step[i \in 0..Slots] == IF i = 0 THEN c ELSE uncache(step[i - 1], i, lo, hi)
    IN  step[Slots]
-----------------------------------------------------------------------------
\* The full query, __liballocs_get_alloc_info: the deepest big allocation's
\* suballocator if it has one, else its own allocator; as a set, empty when the
\* address is wild or no chunk has it.
leaf_allocator_for(obj) ==
    {IF b.sub THEN "malloc" ELSE b.by : b \in {r \in big : r.lo <= obj /\ obj < r.hi}}
get_alloc_info(obj) ==
    LET from == IF "malloc" \in leaf_allocator_for(obj) THEN chunks ELSE big
    IN  {[base |-> r.lo, limit |-> r.hi] : r \in {s \in from : s.lo <= obj /\ obj < s.hi}}
is_cacheable(a) == a # "stack"
-----------------------------------------------------------------------------
Idle == [op |-> "idle", slot |-> 0, lo |-> 0, hi |-> 0]
MayStart(t) ==
    /\ doing[t] = Idle
    /\ "one_thread" \in CacheContracts => \A u \in Threads : doing[u] = Idle

CacheInit ==
    /\ cache = [validity |-> {}, head_mru |-> 0, tail_mru |-> 0, next_victim |-> 1,
                next_mru |-> [i \in Slot |-> 0], prev_mru |-> [i \in Slot |-> 0],
                entries |-> [i \in Slot |-> NoEntry]]
    /\ big = {}
    /\ chunks = {}
    /\ doing = [t \in Threads |-> Idle]

\* The first half of bump_mru, or all of it when i is the head already; what
\* follows the bump of a new entry is bump_victim.
BeginBump(t, c, i, op) ==
    IF c.head_mru = i
    THEN /\ cache' = IF op = "insert" THEN bump_victim(c, i) ELSE c
         /\ UNCHANGED doing
    ELSE /\ cache' = UnlinkForBump(c, i)
         /\ doing' = [doing EXCEPT ![t] = [Idle EXCEPT !.op = op, !.slot = i]]
EndBump(t) ==
    /\ doing[t].op \in {"hit", "insert"}
    /\ LET i == doing[t].slot
           c == push_head_mru(cache, i)
       IN  cache' = IF doing[t].op = "insert" THEN bump_victim(c, i) ELSE c
    /\ doing' = [doing EXCEPT ![t] = Idle]
    /\ UNCHANGED <<big, chunks>>

cache_with_type(t, c, e) ==
    LET pos == Position(c) IN BeginBump(t, [c EXCEPT !.entries[pos] = e], pos, "insert")

\* __liballocs_get_base: a hit at depth 0 is the answer; any other is used, but
\* the full query is made, and what it finds is cached.
get_base_hit(t, obj) ==
    LET i == lookup_notype(cache, obj, 0)
    IN  /\ MayStart(t)
        /\ i # 0
        /\ cache.entries[i].depth = 0
        /\ BeginBump(t, cache, i, "hit")
        /\ UNCHANGED <<big, chunks>>
get_base_query(t, obj) ==
    LET i == lookup_notype(cache, obj, 0)
        c == IF i = 0 THEN cache ELSE bump_mru(cache, i)
    IN  /\ MayStart(t)
        /\ i # 0 => cache.entries[i].depth # 0
        /\ \E found \in get_alloc_info(obj) :
             IF \A a \in leaf_allocator_for(obj) : is_cacheable(a)
             THEN cache_with_type(t, c, [obj_base |-> found.base, obj_limit |-> found.limit,
                                         depth |-> 0, period |-> 1])
             ELSE cache' = c /\ UNCHANGED doing
        /\ UNCHANGED <<big, chunks>>

\* An instrumented check, outside this code, caches a chunk as an array of at
\* least one element.
client_cache(t, lo, hi, period) ==
    /\ MayStart(t)
    /\ period <= hi - lo
    /\ [lo |-> lo, hi |-> hi] \in chunks
    /\ cache_with_type(t, cache, [obj_base |-> lo, obj_limit |-> hi,
                                  depth |-> 1, period |-> period])
    /\ UNCHANGED <<big, chunks>>
client_lookup(t, obj, require_period) ==
    LET i == lookup(cache, obj, 1, require_period)
    IN  /\ MayStart(t)
        /\ i # 0
        /\ BeginBump(t, cache, i, "hit")
        /\ UNCHANGED <<big, chunks>>
-----------------------------------------------------------------------------
\* Allocations come and go, outside the cache.
Apart(S, lo, hi) == \A r \in S : r.hi <= lo \/ hi <= r.lo
NothingCachedIn(b) ==
    \A i \in cache.validity : Apart({b}, cache.entries[i].obj_base, cache.entries[i].obj_limit)

map(t, lo, hi, by) ==
    /\ MayStart(t)
    /\ Apart(big, lo, hi)
    /\ big' = big \cup {[lo |-> lo, hi |-> hi, by |-> by, sub |-> FALSE]}
    /\ UNCHANGED <<cache, chunks, doing>>
\* No allocator of big allocations invalidates the cache.
unmap(t, b) ==
    /\ MayStart(t)
    /\ "unmap_uncached" \in CacheContracts => NothingCachedIn(b)
    /\ Apart(chunks, b.lo, b.hi)
    /\ big' = big \ {b}
    /\ UNCHANGED <<cache, chunks, doing>>
suballocate(t, b) ==
    /\ MayStart(t)
    /\ ~b.sub
    /\ "arena_uncached" \in CacheContracts => NothingCachedIn(b)
    /\ big' = (big \ {b}) \cup {[b EXCEPT !.sub = TRUE]}
    /\ UNCHANGED <<cache, chunks, doing>>
malloc(t, lo, hi) ==
    /\ MayStart(t)
    /\ \E b \in big : b.sub /\ b.lo <= lo /\ hi <= b.hi
    /\ Apart(chunks, lo, hi)
    /\ chunks' = chunks \cup {[lo |-> lo, hi |-> hi]}
    /\ UNCHANGED <<cache, big, doing>>

\* __generic_malloc_index_delete invalidates first and removes then.
BeginFree(t, r) ==
    /\ MayStart(t)
    /\ \A u \in Threads : ~(doing[u].op = "free" /\ doing[u].lo = r.lo)
    /\ cache' = uncache_all(cache, r.lo, r.hi)
    /\ doing' = [doing EXCEPT ![t] = [Idle EXCEPT !.op = "free", !.lo = r.lo, !.hi = r.hi]]
    /\ UNCHANGED <<big, chunks>>
EndFree(t) ==
    /\ doing[t].op = "free"
    /\ chunks' = {r \in chunks : r.lo # doing[t].lo}
    /\ doing' = [doing EXCEPT ![t] = Idle]
    /\ UNCHANGED <<cache, big>>

CacheNext ==
    \E t \in Threads :
      \/ EndBump(t)
      \/ EndFree(t)
      \/ \E obj \in 0..(Limit - 1) :
           \/ get_base_hit(t, obj)
           \/ get_base_query(t, obj)
           \/ \E p \in Periods : client_lookup(t, obj, p)
      \/ \E r \in Places :
           \/ malloc(t, r[1], r[2])
           \/ \E p \in Periods : client_cache(t, r[1], r[2], p)
      \/ \E r \in Mappings, by \in {"mmap", "stack"} : map(t, r[1], r[2], by)
      \/ \E b \in big : unmap(t, b) \/ suballocate(t, b)
      \/ \E r \in chunks : BeginFree(t, r)

CacheSpec == CacheInit /\ [][CacheNext]_cacheVars
-----------------------------------------------------------------------------
\* The reverse of the list, as prev_mru has it from tail_mru.
LruOrder(c) ==
    MruOrder([c EXCEPT !.head_mru = c.tail_mru, !.next_mru = c.prev_mru])
NoRepeats(s) == \A i, j \in DOMAIN s : i # j => s[i] # s[j]
InTransit == {doing[t].slot : t \in {u \in Threads : doing[u].op \in {"hit", "insert"}}}

\* The valid entries are those of the list, each once, in either direction: what
\* check_cache_sanity asserts around every operation.  (An entry between the
\* two halves of a bump is in neither.)
ListSane ==
    LET forth == MruOrder(cache)
        back == LruOrder(cache)
    IN  /\ NoRepeats(forth)
        /\ {forth[k] : k \in DOMAIN forth} = cache.validity
        /\ Len(back) = Len(forth)
        /\ \A k \in DOMAIN back : back[k] = forth[Len(forth) + 1 - k]

\* A cached range of depth 0 that a lookup may return is the allocation that the
\* full query finds at the same address: the cache never answers for memory
\* that has been freed or that holds something smaller.
HitsAreTrue ==
    \A obj \in 0..(Limit - 1) :
      LET i == lookup_notype(cache, obj, 0)
      IN  (i # 0 /\ cache.entries[i].depth = 0) =>
             [base |-> cache.entries[i].obj_base, limit |-> cache.entries[i].obj_limit]
               \in get_alloc_info(obj)

\* The ranges in order of use.  A slot between the halves of its bump counts as
\* moved already.
RecentlyUsed ==
    LET moved == IF InTransit = {} THEN <<>> ELSE <<CHOOSE i \in InTransit : TRUE>>
        all == moved \o MruOrder(cache)
    IN  [k \in DOMAIN all |-> cache.entries[all[k]]]
LRU == INSTANCE RecentRanges WITH recent <- RecentlyUsed, Ranges <- Entry

\* The linked slots implement a bounded list of ranges in order of use: what is
\* evicted when the cache is full is always the range used longest ago, and
\* nothing else is ever lost but what begins in freed memory.
ImplementsRecentRanges == LRU!Spec
=============================================================================
