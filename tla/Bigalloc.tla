------------------------------ MODULE Bigalloc ------------------------------
(***************************************************************************)
(* The table of big allocations and the page index (src/pageindex.c), as   *)
(* the forest the code maintains: each entry's bounds, its parent and its  *)
(* allocator, and for each page the number of the deepest entry that spans *)
(* the whole page.  The sibling lists that represent the children of an    *)
(* entry are abstracted to the set of entries with that parent.  Every     *)
(* operation runs under BIG_LOCK, so one operation is one step.            *)
(*                                                                         *)
(* An operation is the conjunction of what the code does and of a contract *)
(* (the operators named ...Contract): what the code expects of its caller  *)
(* and does not check itself, or checks only in a debug build.             *)
(***************************************************************************)
EXTENDS Integers, FiniteSets

CONSTANTS PageSize,     \* PAGE_SIZE, in address units
          AddrLimit,    \* the largest address an allocation may end at
          NBigallocs,   \* NBIGALLOCS
          Allocators,   \* the struct allocator values
          NoAllocator   \* allocated_by of an entry never used

ASSUME PageSizeAssumption == PageSize \in Nat \ {0}
ASSUME AddrLimitAssumption == AddrLimit \in Nat
ASSUME NBigallocsAssumption == NBigallocs \in Nat

Num == 1..(NBigallocs - 1)      \* entry 0 is never used: number 0 is "none"
Addr == 0..AddrLimit            \* address 0 is NULL

ROUND_DOWN(a) == a \div PageSize                    \* as a page number
ROUND_UP(a) == (a + PageSize - 1) \div PageSize     \* as a page number
PageAligned(a) == ROUND_UP(a) = ROUND_DOWN(a)
Page == 0..ROUND_DOWN(AddrLimit)

VARIABLES begin, end, parent, allocated_by,   \* big_allocations[]
          pageindex

vars == <<begin, end, parent, allocated_by, pageindex>>
-----------------------------------------------------------------------------
BIGALLOC_IN_USE(b) == begin[b] # 0 /\ end[b] # 0
InUse == {b \in Num : BIGALLOC_IN_USE(b)}
Children(b) == {c \in InUse : parent[c] = b}    \* Children(0): the top level

Contains(b, addr) == begin[b] <= addr /\ addr < end[b]
Disjoint(lo1, hi1, lo2, hi2) == hi1 <= lo2 \/ hi2 <= lo1

\* PAGE_DIST: no pages when the second bound is not above the first.
PageRange(i, j) == {p \in Page : i <= p /\ p < j}
Spanned(lo, hi) == PageRange(ROUND_UP(lo), ROUND_DOWN(hi))
memset_bigalloc(pages, num) ==
    [p \in Page |-> IF p \in pages THEN num ELSE pageindex[p]]

(***************************************************************************)
(* The ancestors of n, n included: what the parent fields lead to.  Stated *)
(* as the least set closed under parent, so that no recursion is needed.   *)
(***************************************************************************)
Parents == {parent[c] : c \in Num} \ {0}
ParentClosed(S) == \A c \in S : parent[c] # 0 => parent[c] \in S
SelfAndAbove(n) ==
    LET closed == {S \in SUBSET (Parents \cup {n}) : n \in S /\ ParentClosed(S)}
    IN  {m \in Num : \A S \in closed : m \in S}
SelfAndBelow(b) == {c \in InUse : b \in SelfAndAbove(c)}

\* find_deepest_bigalloc, as the set of what it may return: from the page's
\* entry down, while a child contains addr; 0 when the page has no entry.
IsDeepestBelow(m, start, addr) ==
    /\ m = start \/ Contains(m, addr)
    /\ \A c \in Children(m) : ~Contains(c, addr)
    /\ start \in SelfAndAbove(m)
find_deepest_bigalloc(addr) ==
    LET start == pageindex[ROUND_DOWN(addr)]
    IN  IF start = 0 THEN {0}
        ELSE {m \in InUse : IsDeepestBelow(m, start, addr)}

\* find_bigalloc_from_root: b is the shallowest of allocator a on the way
\* from the root of the page's entry down to addr.
OnPathFromRoot(b, addr) ==
    LET start == pageindex[ROUND_DOWN(addr)]
    IN  /\ start # 0
        /\ Contains(b, addr) \/ parent[b] = 0
        /\ \E root \in SelfAndAbove(start) :
              parent[root] = 0 /\ root \in SelfAndAbove(b)
IsFoundFromRoot(b, addr, a) ==
    /\ allocated_by[b] = a
    /\ OnPathFromRoot(b, addr)
    /\ \A m \in SelfAndAbove(b) \ {b} : allocated_by[m] # a
-----------------------------------------------------------------------------
Init ==
    /\ begin = [b \in Num |-> 0]
    /\ end = [b \in Num |-> 0]
    /\ parent = [b \in Num |-> 0]
    /\ allocated_by = [b \in Num |-> NoAllocator]
    /\ pageindex = [p \in Page |-> 0]

\* find_free_bigalloc: the lowest free entry; the program aborts without one.
find_free_bigalloc ==
    LET free == Num \ InUse IN {b \in free : \A m \in free : b <= m}

\* A new child [lo, hi) of q lies within q and touches no other child of q.
FitsIn(b, q, lo, hi) ==
    /\ q # 0 => begin[q] <= lo /\ hi <= end[q]
    /\ q = 0 => PageAligned(lo) /\ PageAligned(hi)
    /\ \A c \in Children(q) \ {b} : Disjoint(begin[c], end[c], lo, hi)

bigalloc_new(lo, hi, q, a) ==
    \E b \in find_free_bigalloc :
      /\ FitsIn(b, q, lo, hi)
      /\ begin' = [begin EXCEPT ![b] = lo]
      /\ end' = [end EXCEPT ![b] = hi]
      /\ parent' = [parent EXCEPT ![b] = q]
      /\ allocated_by' = [allocated_by EXCEPT ![b] = a]
      /\ pageindex' = memset_bigalloc(Spanned(lo, hi), b)

\* __liballocs_new_bigalloc, the caller naming the parent.
new_bigalloc_under(lo, hi, q, a) ==
    bigalloc_new(lo, hi, q, a)

\* __liballocs_new_bigalloc, maybe_parent NULL: the parent is the deepest
\* allocation at both ends; a top-level allocation is page-aligned.
new_bigalloc(lo, hi, a) ==
    \E q \in find_deepest_bigalloc(lo) \cap find_deepest_bigalloc(hi - 1) :
      /\ q = 0 => PageAligned(lo) /\ PageAligned(hi)
      /\ bigalloc_new(lo, hi, q, a)

bigalloc_del(b) ==
    \E D \in {SelfAndBelow(b)} :
        /\ begin' = [c \in Num |-> IF c \in D THEN 0 ELSE begin[c]]
        /\ end' = [c \in Num |-> IF c \in D THEN 0 ELSE end[c]]
        /\ parent' = [c \in Num |-> IF c \in D THEN 0 ELSE parent[c]]
        /\ pageindex' = memset_bigalloc(Spanned(begin[b], end[b]), parent[b])
        /\ UNCHANGED allocated_by

delete_bigalloc_at(addr, a) ==
    \E b \in InUse : IsFoundFromRoot(b, addr, a) /\ bigalloc_del(b)
-----------------------------------------------------------------------------
\* The page that holds the old end is given to b whether or not b spans it.
ExtendContract(b, newEnd) ==
    /\ FitsIn(b, parent[b], begin[b], newEnd)
    /\ ROUND_UP(begin[b]) <= ROUND_DOWN(end[b])

extend_bigalloc(b, newEnd) ==
    /\ end[b] < newEnd
    /\ ExtendContract(b, newEnd)
    /\ end' = [end EXCEPT ![b] = newEnd]
    /\ pageindex' =
         memset_bigalloc(PageRange(ROUND_DOWN(end[b]), ROUND_DOWN(newEnd)), b)
    /\ UNCHANGED <<begin, parent, allocated_by>>

is_one_or_more_levels_under(n, b) ==
    n # b /\ n \in Num /\ b \in SelfAndAbove(n)

PreExtendContract(b, newBegin) ==
    /\ 0 < newBegin
    /\ FitsIn(b, parent[b], newBegin, end[b])

\* "Either we now cover the whole page that contains old_begin, or we don't."
PreExtendLimit_NeverCovers(b) == ROUND_DOWN(begin[b])
PreExtendLimit(b) ==
    LET first == ROUND_DOWN(begin[b])
    IN  IF /\ ROUND_DOWN(end[b]) > first
           /\ ~is_one_or_more_levels_under(pageindex[first], b)
        THEN ROUND_UP(begin[b]) ELSE first

\* Nothing happens when new_begin is not below b's beginning.
pre_extend_bigalloc(b, newBegin) ==
    /\ newBegin < begin[b]
    /\ PreExtendContract(b, newBegin)
    /\ begin' = [begin EXCEPT ![b] = newBegin]
    /\ pageindex' =
         memset_bigalloc(PageRange(ROUND_UP(newBegin), PreExtendLimit(b)), b)
    /\ UNCHANGED <<end, parent, allocated_by>>

\* The cut part holds no child, and the first page handed back to the parent
\* is one that b spanned.
TruncateEndContract(b, newEnd) ==
    /\ begin[b] < newEnd
    /\ parent[b] = 0 => PageAligned(newEnd)
    /\ \A c \in Children(b) : end[c] <= newEnd
    /\ ROUND_UP(begin[b]) <= ROUND_DOWN(newEnd)

PagesCutAtEnd_RoundedUp(b, newEnd) ==
    PageRange(ROUND_UP(newEnd), ROUND_DOWN(end[b]))
PagesCutAtEnd(b, newEnd) == PageRange(ROUND_DOWN(newEnd), ROUND_DOWN(end[b]))

truncate_bigalloc_at_end(b, newEnd) ==
    /\ newEnd < end[b]
    /\ TruncateEndContract(b, newEnd)
    /\ end' = [end EXCEPT ![b] = newEnd]
    /\ pageindex' = memset_bigalloc(PagesCutAtEnd(b, newEnd), parent[b])
    /\ UNCHANGED <<begin, parent, allocated_by>>

TruncateBeginContract(b, newBegin) ==
    /\ newBegin < end[b]
    /\ parent[b] = 0 => PageAligned(newBegin)
    /\ \A c \in Children(b) : newBegin <= begin[c]
    /\ ROUND_UP(newBegin) <= ROUND_DOWN(end[b])

truncate_bigalloc_at_beginning(b, newBegin) ==
    /\ begin[b] < newBegin
    /\ TruncateBeginContract(b, newBegin)
    /\ begin' = [begin EXCEPT ![b] = newBegin]
    /\ pageindex' =
         memset_bigalloc(PageRange(ROUND_UP(begin[b]), ROUND_UP(newBegin)), parent[b])
    /\ UNCHANGED <<end, parent, allocated_by>>

\* "It's an error if any child spans the boundary": nothing detects it.
SplitContract(b, at) ==
    /\ begin[b] < at /\ at < end[b]
    /\ PageAligned(at)
    /\ \A c \in Children(b) : end[c] <= at \/ at <= begin[c]

WithinSecondHalf_Strictly(b, at) ==
    {c \in Children(b) : at < begin[c] /\ end[c] <= end[b]}
WithinSecondHalf(b, at) == {c \in Children(b) : at <= begin[c] /\ end[c] <= end[b]}

SecondHalfSize(b, at) == end[b] - at

split_bigalloc_at_page_boundary(b, at) ==
    \E new \in find_free_bigalloc :
      LET moved == WithinSecondHalf(b, at)
          upper == PageRange(ROUND_UP(at), ROUND_UP(end[b]))
      IN  /\ SplitContract(b, at)
          /\ begin' = [begin EXCEPT ![new] = at]
          /\ end' = [end EXCEPT ![new] = at + SecondHalfSize(b, at), ![b] = at]
          /\ parent' = [c \in Num |-> IF c = new THEN parent[b]
                                      ELSE IF c \in moved THEN new ELSE parent[c]]
          /\ allocated_by' = [allocated_by EXCEPT ![new] = allocated_by[b]]
          /\ pageindex' = memset_bigalloc({p \in upper : pageindex[p] = b}, new)

Next ==
    \/ \E lo, hi \in Addr :
          /\ 0 < lo /\ lo < hi
          /\ \E a \in Allocators :
                \/ new_bigalloc(lo, hi, a)
                \/ \E q \in InUse : new_bigalloc_under(lo, hi, q, a)
    \/ \E addr \in Addr, a \in Allocators : delete_bigalloc_at(addr, a)
    \/ \E b \in InUse, at \in Addr :
          \/ extend_bigalloc(b, at)
          \/ pre_extend_bigalloc(b, at)
          \/ truncate_bigalloc_at_end(b, at)
          \/ truncate_bigalloc_at_beginning(b, at)
          \/ split_bigalloc_at_page_boundary(b, at)

Spec == Init /\ [][Next]_vars
-----------------------------------------------------------------------------
\* The table's fields and the index hold values of their types.
TypeOK ==
    /\ begin \in [Num -> Addr]
    /\ end \in [Num -> Addr]
    /\ parent \in [Num -> Num \cup {0}]
    /\ allocated_by \in [Num -> Allocators \cup {NoAllocator}]
    /\ pageindex \in [Page -> Num \cup {0}]

\* Parent fields lead to the top level: no set of entries is its own parents.
Acyclic ==
    \A S \in SUBSET InUse : S # {} => \E c \in S : parent[c] \notin S

\* An entry is not empty, lies within its parent, which is in use; a free
\* entry has no parent; what has no parent is page-aligned.
Nested ==
    /\ \A b \in InUse : begin[b] < end[b]
    /\ \A b \in InUse : parent[b] # 0 =>
          /\ parent[b] \in InUse
          /\ begin[parent[b]] <= begin[b]
          /\ end[b] <= end[parent[b]]
    /\ \A b \in Num \ InUse : parent[b] = 0
    /\ \A b \in Children(0) : PageAligned(begin[b]) /\ PageAligned(end[b])

\* Two children of one parent, or two top-level allocations, do not overlap.
SiblingsDisjoint ==
    \A b, c \in InUse : b # c /\ parent[b] = parent[c] =>
        Disjoint(begin[b], end[b], begin[c], end[c])

\* The allocations form a forest whose edges are containment: "our invariant
\* that bigallocs are properly nested in a tree" (static-file.c), kept by every
\* operation of pageindex.c whose caller keeps its contract.
ProperlyNested == Acyclic /\ Nested /\ SiblingsDisjoint

DeepestSpanning(n, p) ==
    /\ n # 0 => n \in InUse /\ p \in Spanned(begin[n], end[n])
    /\ \A c \in Children(n) : p \notin Spanned(begin[c], end[c])

\* The page index maps a page to "the deepest big allocation that completely
\* spans that page" (pageindex.h): the entry spans the page and no child of it
\* does; a page without an entry is spanned by no top-level allocation.
IndexDeepest == \A p \in Page : DeepestSpanning(pageindex[p], p)

\* A lookup through the index finds the allocation that contains the address
\* and has no child that does, and finds one whenever there is one.
LookupFindsDeepest ==
    \A addr \in Addr \ {AddrLimit} :
      LET containing == {b \in InUse : Contains(b, addr)}
          found == find_deepest_bigalloc(addr)
      IN  IF containing = {} THEN found = {0}
          ELSE \E b \in containing :
                  found = {b} /\ containing \subseteq SelfAndAbove(b)
=============================================================================
