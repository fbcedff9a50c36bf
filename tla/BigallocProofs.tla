--------------------------- MODULE BigallocProofs ---------------------------
(***************************************************************************)
(* Proofs that the operations of Bigalloc keep the forest properly nested  *)
(* and the page index exact, and that a lookup through the index finds the *)
(* deepest allocation, for every page size, address space and table size.  *)
(***************************************************************************)
EXTENDS Bigalloc, FiniteSetTheorems, TLAPS

IInv == TypeOK /\ Acyclic /\ Nested /\ SiblingsDisjoint /\ IndexDeepest
-----------------------------------------------------------------------------
\* Rounding an address to a page is monotone, and rounding down never gives a
\* higher page than rounding up (ROUND_DOWN and ROUND_UP of pageindex.c).
LEMMA Rounding ==
    ASSUME NEW a \in Addr, NEW b \in Addr
    PROVE  /\ ROUND_DOWN(a) \in Nat /\ ROUND_UP(a) \in Nat
           /\ ROUND_DOWN(a) <= ROUND_UP(a)
           /\ a <= b => ROUND_DOWN(a) <= ROUND_DOWN(b) /\ ROUND_UP(a) <= ROUND_UP(b)
<1>1. a \in Nat /\ b \in Nat
  BY AddrLimitAssumption DEF Addr
<1>2. ROUND_DOWN(a) \in Nat /\ ROUND_UP(a) \in Nat
  BY <1>1, PageSizeAssumption DEF ROUND_DOWN, ROUND_UP
<1>3. ROUND_DOWN(a) <= ROUND_UP(a)
  BY <1>1, PageSizeAssumption DEF ROUND_DOWN, ROUND_UP
<1>4. ASSUME a <= b
      PROVE  ROUND_DOWN(a) <= ROUND_DOWN(b) /\ ROUND_UP(a) <= ROUND_UP(b)
  BY <1>1, <1>4, PageSizeAssumption DEF ROUND_DOWN, ROUND_UP
<1> QED
  BY <1>2, <1>3, <1>4

\* Page numbers are integers.
LEMMA PageInt == ASSUME NEW p \in Page PROVE p \in Int
BY DEF Page

\* An allocation within another spans no page the other does not span.
LEMMA SpannedWithin ==
    ASSUME NEW lo \in Addr, NEW hi \in Addr, NEW lo2 \in Addr, NEW hi2 \in Addr,
           lo2 <= lo, hi <= hi2, NEW p \in Spanned(lo, hi)
    PROVE  p \in Spanned(lo2, hi2)
<1>1. /\ ROUND_UP(lo2) <= ROUND_UP(lo) /\ ROUND_DOWN(hi) <= ROUND_DOWN(hi2)
      /\ ROUND_UP(lo2) \in Nat /\ ROUND_UP(lo) \in Nat
      /\ ROUND_DOWN(hi) \in Nat /\ ROUND_DOWN(hi2) \in Nat
  BY Rounding
<1>2. p \in Page /\ p \in Int /\ ROUND_UP(lo) <= p /\ p < ROUND_DOWN(hi)
  BY PageInt DEF Spanned, PageRange
<1> QED
  BY <1>1, <1>2 DEF Spanned, PageRange

\* Disjoint allocations span no page in common.
LEMMA SpannedDisjoint ==
    ASSUME NEW lo \in Addr, NEW hi \in Addr, NEW lo2 \in Addr, NEW hi2 \in Addr,
           Disjoint(lo, hi, lo2, hi2), NEW p \in Spanned(lo, hi)
    PROVE  p \notin Spanned(lo2, hi2)
<1>1. /\ ROUND_UP(lo2) \in Nat /\ ROUND_UP(lo) \in Nat
      /\ ROUND_DOWN(hi) \in Nat /\ ROUND_DOWN(hi2) \in Nat
      /\ ROUND_DOWN(lo) \in Nat /\ ROUND_DOWN(lo2) \in Nat
      /\ ROUND_DOWN(lo) <= ROUND_UP(lo) /\ ROUND_DOWN(lo2) <= ROUND_UP(lo2)
  BY Rounding
<1>2. p \in Page /\ p \in Int /\ ROUND_UP(lo) <= p /\ p < ROUND_DOWN(hi)
  BY PageInt DEF Spanned, PageRange
<1>3. CASE hi <= lo2
  <2>1. ROUND_DOWN(hi) <= ROUND_DOWN(lo2)
    BY <1>3, Rounding
  <2> QED
    BY <1>1, <1>2, <2>1 DEF Spanned, PageRange
<1>4. CASE hi2 <= lo
  <2>1. ROUND_DOWN(hi2) <= ROUND_DOWN(lo)
    BY <1>4, Rounding
  <2> QED
    BY <1>1, <1>2, <2>1 DEF Spanned, PageRange
<1> QED
  BY <1>3, <1>4 DEF Disjoint
-----------------------------------------------------------------------------
\* Moving one or both ends of b, with the pages b comes to span given to b and
\* the pages it no longer spans given to its parent, keeps the invariant when
\* the new bounds lie within the parent, around the children and clear of the
\* siblings.  The extend, pre-extend and truncate operations are instances.
LEMMA Resize ==
    ASSUME IInv, NEW b \in InUse, NEW lo \in Addr, NEW hi \in Addr,
           0 < lo, lo < hi,
           begin' = [begin EXCEPT ![b] = lo],
           end' = [end EXCEPT ![b] = hi],
           parent' = parent, allocated_by' = allocated_by,
           FitsIn(b, parent[b], lo, hi),
           \A c \in Children(b) : lo <= begin[c] /\ end[c] <= hi,
           pageindex' =
             [p \in Page |->
               IF p \in Spanned(lo, hi) \ Spanned(begin[b], end[b]) THEN b
               ELSE IF p \in Spanned(begin[b], end[b]) \ Spanned(lo, hi) THEN parent[b]
               ELSE pageindex[p]]
    PROVE  IInv'
<1> USE DEF IInv
<1>1. TypeOK'
  BY DEF TypeOK, InUse
<1>2. InUse' = InUse
  BY AddrLimitAssumption DEF TypeOK, InUse, BIGALLOC_IN_USE, Addr
<1>3. \A n : Children(n)' = Children(n)
  BY <1>2 DEF Children
<1>4. \A c \in InUse : /\ c # b => begin'[c] = begin[c] /\ end'[c] = end[c]
                       /\ c = b => begin'[c] = lo /\ end'[c] = hi
                       /\ begin[c] \in Addr /\ end[c] \in Addr
                       /\ begin'[c] \in Addr /\ end'[c] \in Addr
  BY DEF TypeOK, InUse
<1>5. Acyclic'
  BY <1>2 DEF Acyclic
<1>6. Nested'
  <2>1. \A c \in InUse : begin'[c] < end'[c]
    BY <1>4 DEF Nested
  <2>2. ASSUME NEW c \in InUse, parent[c] # 0
        PROVE  /\ parent[c] \in InUse
               /\ begin'[parent[c]] <= begin'[c]
               /\ end'[c] <= end'[parent[c]]
    <3>1. parent[c] \in InUse /\ begin[parent[c]] <= begin[c] /\ end[c] <= end[parent[c]]
      BY <2>2 DEF Nested
    <3>2. CASE c = b
      <4>1. parent[c] # b
        <5>1. {b} \in SUBSET InUse /\ {b} # {}
          OBVIOUS
        <5> QED
          BY <3>2, <5>1 DEF Acyclic
      <4> QED
        BY <1>4, <2>2, <3>1, <3>2, <4>1 DEF FitsIn
    <3>3. CASE c # b /\ parent[c] = b
      BY <1>4, <3>1, <3>3 DEF Children
    <3>4. CASE c # b /\ parent[c] # b
      BY <1>4, <3>1, <3>4
    <3> QED
      BY <3>2, <3>3, <3>4
  <2>3. \A c \in Num \ InUse : parent[c] = 0
    BY DEF Nested
  <2>4. \A c \in Children(0) : PageAligned(begin'[c]) /\ PageAligned(end'[c])
    BY <1>4 DEF Nested, FitsIn, Children
  <2> QED
    BY <1>2, <1>3, <2>1, <2>2, <2>3, <2>4 DEF Nested, PageAligned
<1>7. SiblingsDisjoint'
  <2>1. ASSUME NEW c \in InUse, NEW d \in InUse, c # d, parent[c] = parent[d]
        PROVE  Disjoint(begin'[c], end'[c], begin'[d], end'[d])
    BY <1>4, <2>1 DEF SiblingsDisjoint, FitsIn, Children, Disjoint
  <2> QED
    BY <1>2, <2>1 DEF SiblingsDisjoint, Disjoint
<1>8. IndexDeepest'
  <2> SUFFICES ASSUME NEW p \in Page
               PROVE  DeepestSpanning(pageindex[p], p)'
    BY DEF IndexDeepest
  <2> DEFINE old == Spanned(begin[b], end[b])
             new == Spanned(lo, hi)
  <2>1. /\ Spanned(begin'[b], end'[b]) = new
        /\ \A c \in InUse \ {b} : Spanned(begin'[c], end'[c]) = Spanned(begin[c], end[c])
    BY <1>4
  <2>2. \A c \in Children(b) : c \in InUse /\ c # b
    <3>1. {b} \in SUBSET InUse /\ {b} # {}
      OBVIOUS
    <3> QED
      BY <3>1 DEF Children, Acyclic
  <2>3. \A c \in Children(b) : p \in Spanned(begin[c], end[c]) => p \in old /\ p \in new
    <3> SUFFICES ASSUME NEW c \in Children(b), p \in Spanned(begin[c], end[c])
                 PROVE  p \in old /\ p \in new
      OBVIOUS
    <3>1. c \in InUse /\ parent[c] = b /\ b # 0
      BY DEF Children, InUse, Num
    <3>2. begin[b] <= begin[c] /\ end[c] <= end[b]
      BY <3>1 DEF Nested
    <3> QED
      BY <1>4, <3>1, <3>2, SpannedWithin
  <2>4. DeepestSpanning(pageindex[p], p)
    BY DEF IndexDeepest
  <2>5. CASE p \in new \ old
    <3>1. pageindex'[p] = b
      BY <2>5
    <3> QED
      BY <1>2, <2>1, <2>2, <2>3, <2>5, <3>1 DEF DeepestSpanning, Children
  <2>6. CASE p \in old \ new
    <3>1. pageindex'[p] = parent[b]
      BY <2>6
    <3>2. parent[b] # 0 => parent[b] \in InUse \ {b} /\ p \in Spanned(begin[parent[b]], end[parent[b]])
      <4> SUFFICES ASSUME parent[b] # 0
                   PROVE parent[b] \in InUse \ {b} /\ p \in Spanned(begin[parent[b]], end[parent[b]])
        OBVIOUS
      <4>1. parent[b] \in InUse /\ begin[parent[b]] <= begin[b] /\ end[b] <= end[parent[b]]
        BY DEF Nested
      <4>2. parent[b] # b
        BY <2>2 DEF Children
      <4> QED
        BY <1>4, <2>6, <4>1, <4>2, SpannedWithin
    <3>3. \A c \in Children(parent[b]) \ {b} : p \notin Spanned(begin[c], end[c])
      <4> SUFFICES ASSUME NEW c \in Children(parent[b]) \ {b}
                   PROVE  p \notin Spanned(begin[c], end[c])
        OBVIOUS
      <4>1. c \in InUse /\ Disjoint(begin[b], end[b], begin[c], end[c])
        BY DEF Children, SiblingsDisjoint
      <4> QED
        BY <1>4, <2>6, <4>1, SpannedDisjoint
    <3> QED
      BY <1>2, <2>1, <2>6, <3>1, <3>2, <3>3 DEF DeepestSpanning, Children
  <2>7. CASE p \notin (new \ old) \cup (old \ new)
    <3>1. pageindex'[p] = pageindex[p]
      BY <2>7
    <3>2. pageindex[p] # 0 => /\ pageindex[p] \in InUse
                             /\ p \in Spanned(begin'[pageindex[p]], end'[pageindex[p]])
      BY <2>1, <2>4, <2>7 DEF DeepestSpanning
    <3>3. \A c \in Children(pageindex[p]) : p \notin Spanned(begin'[c], end'[c])
      BY <2>1, <2>4, <2>7 DEF DeepestSpanning, Children
    <3> QED
      BY <1>2, <3>1, <3>2, <3>3 DEF DeepestSpanning, Children
  <2> QED
    BY <2>5, <2>6, <2>7
<1> QED
  BY <1>1, <1>5, <1>6, <1>7, <1>8

\* Facts about the bounds of an entry in use that every step below needs.
LEMMA InUseBounds ==
    ASSUME IInv, NEW b \in InUse
    PROVE  /\ b \in Num /\ b # 0 /\ b \in Int
           /\ begin[b] \in Addr /\ end[b] \in Addr
           /\ begin[b] \in Int /\ end[b] \in Int
           /\ 0 < begin[b] /\ begin[b] < end[b]
<1>1. b \in Num /\ begin[b] \in Addr /\ end[b] \in Addr /\ begin[b] # 0
  BY DEF IInv, TypeOK, InUse, BIGALLOC_IN_USE
<1>2. begin[b] < end[b]
  BY DEF IInv, Nested
<1> QED
  BY <1>1, <1>2, NBigallocsAssumption, AddrLimitAssumption DEF Num, Addr

\* __liballocs_extend_bigalloc keeps the invariant.
LEMMA ExtendStep ==
    ASSUME IInv, NEW b \in InUse, NEW at \in Addr, extend_bigalloc(b, at)
    PROVE  IInv'
<1> USE DEF extend_bigalloc, ExtendContract
<1>1. begin[b] < at /\ 0 < begin[b] /\ at \in Int /\ begin[b] \in Addr
  BY InUseBounds DEF Addr
<1>2. begin' = [begin EXCEPT ![b] = begin[b]]
  BY DEF IInv, TypeOK
<1>3. ASSUME NEW c \in Children(b)
      PROVE  begin[b] <= begin[c] /\ end[c] <= at
  <2>1. c \in InUse /\ parent[c] = b /\ b # 0
    BY InUseBounds DEF Children
  <2> QED
    BY <1>1, <2>1, InUseBounds DEF IInv, Nested
<1>4. ASSUME NEW p \in Page
      PROVE  /\ p \in PageRange(ROUND_DOWN(end[b]), ROUND_DOWN(at))
                  <=> p \in Spanned(begin[b], at) \ Spanned(begin[b], end[b])
             /\ p \notin Spanned(begin[b], end[b]) \ Spanned(begin[b], at)
  <2>1. /\ ROUND_DOWN(end[b]) \in Nat /\ ROUND_DOWN(at) \in Nat /\ ROUND_UP(begin[b]) \in Nat
        /\ ROUND_DOWN(end[b]) <= ROUND_DOWN(at)
    BY InUseBounds, Rounding DEF Addr
  <2> QED
    BY <2>1, PageInt DEF PageRange, Spanned
<1>5. pageindex' =
        [p \in Page |->
          IF p \in Spanned(begin[b], at) \ Spanned(begin[b], end[b]) THEN b
          ELSE IF p \in Spanned(begin[b], end[b]) \ Spanned(begin[b], at) THEN parent[b]
          ELSE pageindex[p]]
  BY <1>4 DEF memset_bigalloc
<1> QED
  BY <1>1, <1>2, <1>3, <1>5, Resize

\* __liballocs_truncate_bigalloc_at_end keeps the invariant.
LEMMA TruncateEndStep ==
    ASSUME IInv, NEW b \in InUse, NEW at \in Addr, truncate_bigalloc_at_end(b, at)
    PROVE  IInv'
<1> USE DEF truncate_bigalloc_at_end, TruncateEndContract
<1>1. begin[b] < at /\ 0 < begin[b] /\ at \in Int /\ begin[b] \in Addr
  BY InUseBounds DEF Addr
<1>2. begin' = [begin EXCEPT ![b] = begin[b]]
  BY DEF IInv, TypeOK
<1>3. ASSUME NEW c \in Children(b)
      PROVE  begin[b] <= begin[c] /\ end[c] <= at
  <2>1. c \in InUse /\ parent[c] = b /\ b # 0
    BY InUseBounds DEF Children
  <2> QED
    BY <1>1, <2>1, InUseBounds DEF IInv, Nested
<1>4. FitsIn(b, parent[b], begin[b], at)
  <2>1. parent[b] # 0 => begin[parent[b]] <= begin[b] /\ at <= end[parent[b]]
    BY <1>1, InUseBounds DEF IInv, Nested
  <2>2. parent[b] = 0 => PageAligned(begin[b]) /\ PageAligned(at)
    BY DEF IInv, Nested, Children
  <2>3. \A c \in Children(parent[b]) \ {b} : Disjoint(begin[c], end[c], begin[b], at)
    <3> SUFFICES ASSUME NEW c \in Children(parent[b]) \ {b}
                 PROVE  Disjoint(begin[c], end[c], begin[b], at)
      OBVIOUS
    <3>1. c \in InUse /\ Disjoint(begin[c], end[c], begin[b], end[b])
      BY DEF IInv, SiblingsDisjoint, Children
    <3> QED
      BY <1>1, <3>1, InUseBounds DEF Disjoint
  <2> QED
    BY <2>1, <2>2, <2>3 DEF FitsIn
<1>5. ASSUME NEW p \in Page
      PROVE  /\ p \in PagesCutAtEnd(b, at)
                  <=> p \in Spanned(begin[b], end[b]) \ Spanned(begin[b], at)
             /\ p \notin Spanned(begin[b], at) \ Spanned(begin[b], end[b])
  <2>1. /\ ROUND_DOWN(end[b]) \in Nat /\ ROUND_DOWN(at) \in Nat /\ ROUND_UP(begin[b]) \in Nat
        /\ ROUND_DOWN(at) <= ROUND_DOWN(end[b])
    BY InUseBounds, Rounding DEF Addr
  <2> QED
    BY <2>1, PageInt DEF PageRange, Spanned, PagesCutAtEnd
<1>6. pageindex' =
        [p \in Page |->
          IF p \in Spanned(begin[b], at) \ Spanned(begin[b], end[b]) THEN b
          ELSE IF p \in Spanned(begin[b], end[b]) \ Spanned(begin[b], at) THEN parent[b]
          ELSE pageindex[p]]
  BY <1>5 DEF memset_bigalloc
<1> QED
  BY <1>1, <1>2, <1>3, <1>4, <1>6, Resize

\* __liballocs_truncate_bigalloc_at_beginning keeps the invariant.
LEMMA TruncateBeginStep ==
    ASSUME IInv, NEW b \in InUse, NEW at \in Addr, truncate_bigalloc_at_beginning(b, at)
    PROVE  IInv'
<1> USE DEF truncate_bigalloc_at_beginning, TruncateBeginContract
<1>1. at < end[b] /\ 0 < at /\ at \in Int /\ end[b] \in Addr
  BY InUseBounds DEF Addr
<1>2. end' = [end EXCEPT ![b] = end[b]]
  BY DEF IInv, TypeOK
<1>3. ASSUME NEW c \in Children(b)
      PROVE  at <= begin[c] /\ end[c] <= end[b]
  <2>1. c \in InUse /\ parent[c] = b /\ b # 0
    BY InUseBounds DEF Children
  <2> QED
    BY <1>1, <2>1, InUseBounds DEF IInv, Nested
<1>4. FitsIn(b, parent[b], at, end[b])
  <2>1. parent[b] # 0 => begin[parent[b]] <= at /\ end[b] <= end[parent[b]]
    BY <1>1, InUseBounds DEF IInv, Nested
  <2>2. parent[b] = 0 => PageAligned(at) /\ PageAligned(end[b])
    BY DEF IInv, Nested, Children
  <2>3. \A c \in Children(parent[b]) \ {b} : Disjoint(begin[c], end[c], at, end[b])
    <3> SUFFICES ASSUME NEW c \in Children(parent[b]) \ {b}
                 PROVE  Disjoint(begin[c], end[c], at, end[b])
      OBVIOUS
    <3>1. c \in InUse /\ Disjoint(begin[c], end[c], begin[b], end[b])
      BY DEF IInv, SiblingsDisjoint, Children
    <3> QED
      BY <1>1, <3>1, InUseBounds DEF Disjoint
  <2> QED
    BY <2>1, <2>2, <2>3 DEF FitsIn
<1>5. ASSUME NEW p \in Page
      PROVE  /\ p \in PageRange(ROUND_UP(begin[b]), ROUND_UP(at))
                  <=> p \in Spanned(begin[b], end[b]) \ Spanned(at, end[b])
             /\ p \notin Spanned(at, end[b]) \ Spanned(begin[b], end[b])
  <2>1. /\ ROUND_DOWN(end[b]) \in Nat /\ ROUND_UP(at) \in Nat /\ ROUND_UP(begin[b]) \in Nat
        /\ ROUND_UP(begin[b]) <= ROUND_UP(at)
    BY InUseBounds, Rounding DEF Addr
  <2> QED
    BY <2>1, PageInt DEF PageRange, Spanned
<1>6. pageindex' =
        [p \in Page |->
          IF p \in Spanned(at, end[b]) \ Spanned(begin[b], end[b]) THEN b
          ELSE IF p \in Spanned(begin[b], end[b]) \ Spanned(at, end[b]) THEN parent[b]
          ELSE pageindex[p]]
  BY <1>5 DEF memset_bigalloc
<1> QED
  BY <1>1, <1>2, <1>3, <1>4, <1>6, Resize
-----------------------------------------------------------------------------
\* What the parent fields lead to from n is in every set that holds n and is
\* closed under parent, of entries that are parents or not.
LEMMA AboveIsLeast ==
    ASSUME NEW n, NEW m \in SelfAndAbove(n),
           NEW S \in SUBSET Num, n \in S, ParentClosed(S)
    PROVE  m \in S
<1> DEFINE T == S \cap (Parents \cup {n})
<1>1. ParentClosed(T)
  BY DEF ParentClosed, Parents
<1>2. T \in SUBSET (Parents \cup {n}) /\ n \in T
  OBVIOUS
<1>3. m \in T
  BY <1>1, <1>2 DEF SelfAndAbove
<1> QED
  BY <1>3

\* What the parent fields lead to from an entry in use is in use and contains
\* that entry.
LEMMA AboveContains ==
    ASSUME IInv, NEW c \in InUse, NEW m \in SelfAndAbove(c)
    PROVE  m \in InUse /\ begin[m] <= begin[c] /\ end[c] <= end[m]
<1> DEFINE S == {x \in InUse : begin[x] <= begin[c] /\ end[c] <= end[x]}
<1>1. S \in SUBSET Num
  BY DEF InUse
<1>2. c \in S
  BY InUseBounds
<1>3. ParentClosed(S)
  <2> SUFFICES ASSUME NEW x \in S, parent[x] # 0
               PROVE  parent[x] \in S
    BY DEF ParentClosed
  <2>1. parent[x] \in InUse /\ begin[parent[x]] <= begin[x] /\ end[x] <= end[parent[x]]
    BY DEF IInv, Nested
  <2> QED
    BY <2>1, InUseBounds
<1>4. m \in S
  BY <1>1, <1>2, <1>3, AboveIsLeast
<1> QED
  BY <1>4

\* __liballocs_pre_extend_bigalloc keeps the invariant: it stops at the right
\* page, because no entry under b spans the page b begins in the middle of.
LEMMA PreExtendStep ==
    ASSUME IInv, NEW b \in InUse, NEW at \in Addr, pre_extend_bigalloc(b, at)
    PROVE  IInv'
<1> USE DEF pre_extend_bigalloc, PreExtendContract
<1>1. at < end[b] /\ 0 < at /\ at \in Int /\ end[b] \in Addr
  BY InUseBounds DEF Addr
<1>2. end' = [end EXCEPT ![b] = end[b]]
  BY DEF IInv, TypeOK
<1>3. ASSUME NEW c \in Children(b)
      PROVE  at <= begin[c] /\ end[c] <= end[b]
  <2>1. c \in InUse /\ parent[c] = b /\ b # 0
    BY InUseBounds DEF Children
  <2>2. begin[b] <= begin[c] /\ end[c] <= end[b]
    BY <2>1 DEF IInv, Nested
  <2> QED
    BY <1>1, <2>1, <2>2, InUseBounds
<1>4. /\ ROUND_DOWN(begin[b]) \in Nat /\ ROUND_UP(begin[b]) \in Nat
      /\ ROUND_DOWN(end[b]) \in Nat /\ ROUND_UP(at) \in Nat
      /\ ROUND_DOWN(begin[b]) <= ROUND_DOWN(end[b])
      /\ ROUND_DOWN(begin[b]) <= ROUND_UP(begin[b])
      /\ ROUND_UP(at) <= ROUND_UP(begin[b])
  BY InUseBounds, Rounding DEF Addr
<1>5. ROUND_UP(begin[b]) <= ROUND_DOWN(begin[b]) + 1
  <2>1. begin[b] \in Nat
    BY InUseBounds
  <2> QED
    BY <2>1, PageSizeAssumption DEF ROUND_UP, ROUND_DOWN
<1>6. ASSUME is_one_or_more_levels_under(pageindex[ROUND_DOWN(begin[b])], b)
      PROVE  ROUND_UP(begin[b]) = ROUND_DOWN(begin[b])
  <2> DEFINE first == ROUND_DOWN(begin[b])
             n == pageindex[first]
  <2>1. first \in Page
    <3>1. AddrLimit \in Addr /\ begin[b] <= AddrLimit /\ begin[b] \in Addr
      BY InUseBounds, AddrLimitAssumption DEF Addr
    <3> QED
      BY <1>4, <3>1, Rounding DEF Page
  <2>2. n \in Num /\ b \in SelfAndAbove(n)
    BY <1>6 DEF is_one_or_more_levels_under
  <2>3. n \in InUse /\ first \in Spanned(begin[n], end[n])
    <3>1. n # 0
      BY <2>2 DEF Num
    <3> QED
      BY <2>1, <3>1 DEF IInv, IndexDeepest, DeepestSpanning
  <2>4. begin[b] <= begin[n]
    BY <2>2, <2>3, AboveContains
  <2>5. ROUND_UP(begin[b]) <= ROUND_UP(begin[n]) /\ ROUND_UP(begin[n]) \in Nat
    BY <2>3, <2>4, InUseBounds, Rounding
  <2>6. ROUND_UP(begin[n]) <= first
    BY <2>3 DEF Spanned, PageRange
  <2> QED
    BY <1>4, <2>5, <2>6
<1>7. ASSUME NEW p \in Page
      PROVE  /\ p \in PageRange(ROUND_UP(at), PreExtendLimit(b))
                  <=> p \in Spanned(at, end[b]) \ Spanned(begin[b], end[b])
             /\ p \notin Spanned(begin[b], end[b]) \ Spanned(at, end[b])
  <2>1. p \in Int
    BY PageInt
  <2>2. \/ /\ PreExtendLimit(b) = ROUND_UP(begin[b])
           /\ ROUND_UP(begin[b]) <= ROUND_DOWN(end[b])
        \/ /\ PreExtendLimit(b) = ROUND_DOWN(end[b])
           /\ ROUND_DOWN(end[b]) <= ROUND_UP(begin[b])
    BY <1>4, <1>5, <1>6 DEF PreExtendLimit
  <2> QED
    BY <1>4, <2>1, <2>2 DEF PageRange, Spanned
<1>8. pageindex' =
        [p \in Page |->
          IF p \in Spanned(at, end[b]) \ Spanned(begin[b], end[b]) THEN b
          ELSE IF p \in Spanned(begin[b], end[b]) \ Spanned(at, end[b]) THEN parent[b]
          ELSE pageindex[p]]
  BY <1>7 DEF memset_bigalloc
<1> QED
  BY <1>1, <1>2, <1>3, <1>8, Resize
-----------------------------------------------------------------------------
\* bigalloc_new keeps the invariant: the new entry has no child, and takes over
\* exactly the pages it spans.
LEMMA NewStep ==
    ASSUME IInv, NEW q \in InUse \cup {0}, NEW lo \in Addr, NEW hi \in Addr,
           NEW a \in Allocators, 0 < lo, lo < hi, bigalloc_new(lo, hi, q, a)
    PROVE  IInv'
<1> USE DEF IInv
<1>1. PICK b \in Num \ InUse :
        /\ FitsIn(b, q, lo, hi)
        /\ begin' = [begin EXCEPT ![b] = lo]
        /\ end' = [end EXCEPT ![b] = hi]
        /\ parent' = [parent EXCEPT ![b] = q]
        /\ allocated_by' = [allocated_by EXCEPT ![b] = a]
        /\ pageindex' = memset_bigalloc(Spanned(lo, hi), b)
  BY DEF bigalloc_new, find_free_bigalloc
<1>2. TypeOK'
  BY <1>1 DEF TypeOK, memset_bigalloc, InUse
<1>3. /\ InUse' = InUse \cup {b}
      /\ b # 0
      /\ \A c \in InUse : /\ c # b /\ parent[c] # b
                          /\ begin'[c] = begin[c] /\ end'[c] = end[c]
                          /\ parent'[c] = parent[c]
      /\ begin'[b] = lo /\ end'[b] = hi /\ parent'[b] = q
  <2>1. InUse' = InUse \cup {b}
    BY <1>1, AddrLimitAssumption DEF TypeOK, InUse, BIGALLOC_IN_USE, Addr
  <2>2. b # 0
    BY DEF Num
  <2> QED
    BY <1>1, <2>1, <2>2 DEF TypeOK, Nested, InUse
<1>4. Acyclic'
  <2> SUFFICES ASSUME NEW S \in SUBSET (InUse \cup {b}), S # {}
               PROVE  \E c \in S : parent'[c] \notin S
    BY <1>3 DEF Acyclic
  <2>1. CASE S = {b}
    BY <1>1, <1>3, <2>1
  <2>2. CASE S # {b}
    <3>1. PICK c \in S \ {b} : parent[c] \notin S \ {b}
      <4>1. S \ {b} \in SUBSET InUse /\ S \ {b} # {}
        BY <2>2
      <4> QED
        BY <4>1 DEF Acyclic
    <3> QED
      BY <1>3, <3>1
  <2> QED
    BY <2>1, <2>2
<1>5. Nested'
  <2>1. \A c \in InUse \cup {b} : begin'[c] < end'[c]
    BY <1>3 DEF Nested
  <2>2. ASSUME NEW c \in InUse \cup {b}, parent'[c] # 0
        PROVE  /\ parent'[c] \in InUse \cup {b}
               /\ begin'[parent'[c]] <= begin'[c] /\ end'[c] <= end'[parent'[c]]
    BY <1>1, <1>3, <2>2 DEF Nested, FitsIn
  <2>3. \A c \in Num \ (InUse \cup {b}) : parent'[c] = 0
    BY <1>1 DEF Nested, TypeOK
  <2>4. ASSUME NEW c \in InUse \cup {b}, parent'[c] = 0
        PROVE  PageAligned(begin'[c]) /\ PageAligned(end'[c])
    BY <1>1, <1>3, <2>4 DEF Nested, FitsIn, Children
  <2> QED
    BY <1>3, <2>1, <2>2, <2>3, <2>4 DEF Nested, Children, PageAligned
<1>6. SiblingsDisjoint'
  <2>1. ASSUME NEW c \in InUse \cup {b}, NEW d \in InUse \cup {b}, c # d,
               parent'[c] = parent'[d]
        PROVE  Disjoint(begin'[c], end'[c], begin'[d], end'[d])
    BY <1>1, <1>3, <2>1 DEF SiblingsDisjoint, FitsIn, Children, Disjoint
  <2> QED
    BY <1>3, <2>1 DEF SiblingsDisjoint, Disjoint
<1>7. IndexDeepest'
  <2> SUFFICES ASSUME NEW p \in Page
               PROVE  DeepestSpanning(pageindex[p], p)'
    BY DEF IndexDeepest
  <2>1. DeepestSpanning(pageindex[p], p)
    BY DEF IndexDeepest
  <2>2. \A c \in InUse : Spanned(begin'[c], end'[c]) = Spanned(begin[c], end[c])
    BY <1>3
  <2>3. CASE p \in Spanned(lo, hi)
    <3>1. pageindex'[p] = b
      BY <1>1, <2>3 DEF memset_bigalloc
    <3>2. Children(b)' = {}
      BY <1>1, <1>3 DEF Children
    <3> QED
      BY <1>3, <2>3, <3>1, <3>2 DEF DeepestSpanning, Children
  <2>4. CASE p \notin Spanned(lo, hi)
    <3>1. pageindex'[p] = pageindex[p]
      BY <1>1, <2>4 DEF memset_bigalloc
    <3> QED
      BY <1>3, <2>1, <2>2, <2>4, <3>1 DEF DeepestSpanning, Children
  <2> QED
    BY <2>3, <2>4
<1> QED
  BY <1>2, <1>4, <1>5, <1>6, <1>7

\* __liballocs_split_bigalloc_at_page_boundary keeps the invariant: both halves
\* keep their own children and their own pages.
LEMMA SplitStep ==
    ASSUME IInv, NEW b \in InUse, NEW at \in Addr, split_bigalloc_at_page_boundary(b, at)
    PROVE  IInv'
<1> USE DEF IInv
<1> DEFINE moved == WithinSecondHalf(b, at)
           upper == PageRange(ROUND_UP(at), ROUND_UP(end[b]))
<1>1. PICK new \in Num \ InUse :
        /\ SplitContract(b, at)
        /\ begin' = [begin EXCEPT ![new] = at]
        /\ end' = [end EXCEPT ![new] = at + SecondHalfSize(b, at), ![b] = at]
        /\ parent' = [c \in Num |-> IF c = new THEN parent[b]
                                   ELSE IF c \in moved THEN new ELSE parent[c]]
        /\ allocated_by' = [allocated_by EXCEPT ![new] = allocated_by[b]]
        /\ pageindex' = memset_bigalloc({p \in upper : pageindex[p] = b}, new)
  BY DEF split_bigalloc_at_page_boundary, find_free_bigalloc
<1>2. /\ at + SecondHalfSize(b, at) = end[b]
      /\ begin[b] < at /\ at < end[b] /\ at \in Int
      /\ PageAligned(at) /\ at # 0
      /\ begin[b] \in Addr /\ end[b] \in Addr
  BY <1>1, InUseBounds DEF SplitContract, SecondHalfSize, Addr
<1>3. /\ InUse' = InUse \cup {new}
      /\ new # 0 /\ new # b
      /\ begin'[new] = at /\ end'[new] = end[b] /\ parent'[new] = parent[b]
      /\ begin'[b] = begin[b] /\ end'[b] = at /\ parent'[b] = parent[b]
      /\ \A c \in InUse : c # new /\ parent[c] # new /\ begin'[c] = begin[c]
      /\ \A c \in InUse \ {b} : end'[c] = end[c]
      /\ \A c \in InUse : IF c \in moved THEN parent'[c] = new /\ parent[c] = b
                                          ELSE parent'[c] = parent[c]
  <2>1. InUse' = InUse \cup {new}
    BY <1>1, <1>2, AddrLimitAssumption DEF TypeOK, InUse, BIGALLOC_IN_USE, Addr
  <2>2. new # 0 /\ new # b
    BY DEF Num
  <2>3. b \notin moved
    <3>1. {b} \in SUBSET InUse /\ {b} # {}
      OBVIOUS
    <3> QED
      BY <3>1 DEF Acyclic, WithinSecondHalf, Children
  <2>4. \A c \in InUse : c \in Num /\ parent[c] # new
    BY <2>2 DEF TypeOK, Nested, InUse
  <2> QED
    BY <1>1, <1>2, <2>1, <2>2, <2>3, <2>4 DEF TypeOK, WithinSecondHalf, Children
<1>4. TypeOK'
  <2>1. parent' \in [Num -> Num \cup {0}]
    BY <1>1 DEF TypeOK, InUse
  <2> QED
    BY <1>1, <1>2, <2>1 DEF TypeOK, memset_bigalloc, InUse
<1>5. Acyclic'
  <2> SUFFICES ASSUME NEW S \in SUBSET (InUse \cup {new}), S # {}
               PROVE  \E c \in S : parent'[c] \notin S
    BY <1>3 DEF Acyclic
  <2>1. CASE new \notin S
    <3>1. PICK c \in S : parent[c] \notin S
      BY <2>1 DEF Acyclic
    <3> QED
      BY <1>3, <2>1, <3>1
  <2>2. CASE new \in S
    <3> DEFINE T == (S \ {new}) \cup {b}
    <3>1. PICK c \in T : parent[c] \notin T
      <4>1. T \in SUBSET InUse /\ T # {}
        OBVIOUS
      <4> QED
        BY <4>1 DEF Acyclic
    <3>2. parent[c] # new /\ parent[c] \notin S /\ parent[c] # b
      BY <1>3, <3>1
    <3>3. CASE c = b
      BY <1>3, <2>2, <3>2, <3>3
    <3>4. CASE c # b
      BY <1>3, <3>1, <3>2, <3>4
    <3> QED
      BY <3>3, <3>4
  <2> QED
    BY <2>1, <2>2
<1>6. \A c \in InUse : parent[c] = b =>
        /\ begin[b] <= begin[c] /\ end[c] <= end[b]
        /\ c # b
        /\ c \in moved => at <= begin[c]
        /\ c \notin moved => end[c] <= at
  <2> SUFFICES ASSUME NEW c \in InUse, parent[c] = b
               PROVE  /\ begin[b] <= begin[c] /\ end[c] <= end[b]
                      /\ c # b
                      /\ c \in moved => at <= begin[c]
                      /\ c \notin moved => end[c] <= at
    OBVIOUS
  <2>1. begin[b] <= begin[c] /\ end[c] <= end[b]
    BY InUseBounds DEF Nested
  <2>2. c # b
    <3>1. {b} \in SUBSET InUse /\ {b} # {}
      OBVIOUS
    <3> QED
      BY <3>1 DEF Acyclic
  <2> QED
    BY <1>1, <2>1, <2>2 DEF SplitContract, WithinSecondHalf, Children
<1>7. Nested'
  <2>1. \A c \in InUse \cup {new} : begin'[c] < end'[c]
    BY <1>2, <1>3 DEF Nested
  <2>2. ASSUME NEW c \in InUse \cup {new}, parent'[c] # 0
        PROVE  /\ parent'[c] \in InUse \cup {new}
               /\ begin'[parent'[c]] <= begin'[c] /\ end'[c] <= end'[parent'[c]]
    <3>1. parent[b] # 0 => /\ parent[b] \in InUse \ {b}
                          /\ begin[parent[b]] <= begin[b] /\ end[b] <= end[parent[b]]
      BY <1>6 DEF Nested
    <3>2. CASE c = new \/ c = b
      <4>1. parent[b] # 0 => /\ begin[parent[b]] \in Int /\ end[parent[b]] \in Int
        BY <3>1, InUseBounds
      <4> QED
        BY <1>2, <1>3, <2>2, <3>1, <3>2, <4>1, InUseBounds
    <3>3. CASE c \in InUse \ {b} /\ c \in moved
      BY <1>3, <1>6, <3>3 DEF WithinSecondHalf, Children
    <3>4. CASE c \in InUse \ {b} /\ c \notin moved /\ parent[c] = b
      BY <1>3, <1>6, <3>4
    <3>5. CASE c \in InUse \ {b} /\ c \notin moved /\ parent[c] # b
      BY <1>3, <2>2, <3>5 DEF Nested
    <3> QED
      BY <3>2, <3>3, <3>4, <3>5
  <2>3. \A c \in Num \ (InUse \cup {new}) : parent'[c] = 0
    BY <1>1 DEF Nested, WithinSecondHalf, Children
  <2>4. ASSUME NEW c \in InUse \cup {new}, parent'[c] = 0
        PROVE  PageAligned(begin'[c]) /\ PageAligned(end'[c])
    BY <1>2, <1>3, <2>4 DEF Nested, Children
  <2> QED
    BY <1>3, <2>1, <2>2, <2>3, <2>4 DEF Nested, Children, PageAligned
<1>8. SiblingsDisjoint'
  <2>1. ASSUME NEW c \in InUse, NEW d \in InUse, c # d, parent[c] = parent[d]
        PROVE  Disjoint(begin[c], end[c], begin[d], end[d])
    BY <2>1 DEF SiblingsDisjoint
  <2>2. ASSUME NEW c \in InUse, NEW d \in InUse, c # d, parent'[c] = parent'[d]
        PROVE  Disjoint(begin'[c], end'[c], begin'[d], end'[d])
    <3>1. parent[c] = parent[d]
      BY <1>3, <2>2
    <3>2. end'[c] <= end[c] /\ end'[d] <= end[d] /\ end'[c] \in Int /\ end'[d] \in Int
      BY <1>2, <1>3, InUseBounds
    <3> QED
      BY <1>3, <2>1, <2>2, <3>1, <3>2, InUseBounds DEF Disjoint
  <2>3. ASSUME NEW c \in InUse, parent'[c] = parent'[new]
        PROVE  /\ Disjoint(begin'[c], end'[c], at, end[b])
               /\ Disjoint(at, end[b], begin'[c], end'[c])
    <3>1. CASE c = b
      BY <1>2, <1>3, <3>1 DEF Disjoint
    <3>2. CASE c # b
      <4>1. parent[c] = parent[b]
        <5>1. parent[b] # new
          BY <1>3
        <5> QED
          BY <1>3, <2>3, <5>1
      <4>2. Disjoint(begin[c], end[c], begin[b], end[b])
        BY <2>1, <3>2, <4>1
      <4> QED
        BY <1>2, <1>3, <3>2, <4>2, InUseBounds DEF Disjoint
    <3> QED
      BY <3>1, <3>2
  <2> QED
    BY <1>3, <2>2, <2>3 DEF SiblingsDisjoint, Disjoint
<1>9. IndexDeepest'
  <2> SUFFICES ASSUME NEW p \in Page
               PROVE  DeepestSpanning(pageindex[p], p)'
    BY DEF IndexDeepest
  <2>1. DeepestSpanning(pageindex[p], p)
    BY DEF IndexDeepest
  <2>2. /\ ROUND_UP(at) = ROUND_DOWN(at) /\ ROUND_UP(at) \in Nat
        /\ ROUND_UP(begin[b]) \in Nat /\ ROUND_UP(end[b]) \in Nat
        /\ ROUND_DOWN(end[b]) \in Nat /\ ROUND_DOWN(end[b]) <= ROUND_UP(end[b])
        /\ ROUND_UP(begin[b]) <= ROUND_UP(at) /\ ROUND_DOWN(at) <= ROUND_DOWN(end[b])
        /\ p \in Int
    BY <1>2, Rounding, PageInt DEF PageAligned, Addr
  <2>3. /\ p \in Spanned(at, end[b]) => p \in Spanned(begin[b], end[b])
        /\ p \in Spanned(begin[b], at) => p \in Spanned(begin[b], end[b])
        /\ p \in Spanned(begin[b], end[b]) =>
              IF p \in upper THEN p \in Spanned(at, end[b]) ELSE p \in Spanned(begin[b], at)
    BY <2>2 DEF Spanned, PageRange
  <2>4. /\ \A c \in InUse \ {b} : Spanned(begin'[c], end'[c]) = Spanned(begin[c], end[c])
        /\ Spanned(begin'[b], end'[b]) = Spanned(begin[b], at)
        /\ Spanned(begin'[new], end'[new]) = Spanned(at, end[b])
    BY <1>3
  <2>5. CASE pageindex[p] = b
    <3>1. p \in Spanned(begin[b], end[b]) /\ b # 0
      BY <2>1, <2>5, InUseBounds DEF DeepestSpanning
    <3>2. \A c \in InUse : parent[c] = b => p \notin Spanned(begin'[c], end'[c])
      BY <1>6, <2>1, <2>4, <2>5 DEF DeepestSpanning, Children
    <3>3. parent[b] # b /\ parent[b] # new
      BY <1>3, <1>6
    <3>4. CASE p \in upper
      <4>1. pageindex'[p] = new
        BY <1>1, <2>5, <3>4 DEF memset_bigalloc
      <4>2. \A c \in Children(new)' : c \in InUse /\ parent[c] = b
        BY <1>3, <3>3 DEF Children
      <4> QED
        BY <1>3, <2>3, <2>4, <3>1, <3>2, <3>4, <4>1, <4>2 DEF DeepestSpanning, Children
    <3>5. CASE p \notin upper
      <4>1. pageindex'[p] = b
        BY <1>1, <2>5, <3>5 DEF memset_bigalloc
      <4>2. \A c \in Children(b)' : c \in InUse /\ parent[c] = b
        BY <1>3, <3>3 DEF Children
      <4> QED
        BY <1>3, <2>3, <2>4, <3>1, <3>2, <3>5, <4>1, <4>2 DEF DeepestSpanning, Children
    <3> QED
      BY <3>4, <3>5
  <2>6. CASE pageindex[p] # b
    <3> DEFINE n == pageindex[p]
    <3>1. pageindex'[p] = n
      BY <1>1, <2>6 DEF memset_bigalloc
    <3>2. n # new
      BY <1>3, <2>1 DEF DeepestSpanning
    <3>3. n # 0 => n \in InUse' /\ p \in Spanned(begin'[n], end'[n])
      BY <1>3, <2>1, <2>4, <2>6 DEF DeepestSpanning
    <3>4. ASSUME NEW c \in InUse \cup {new}, parent'[c] = n
          PROVE  p \notin Spanned(begin'[c], end'[c])
      <4>1. CASE c \in {new, b}
        <5>1. parent[b] = n
          BY <1>3, <3>4, <4>1
        <5>2. p \notin Spanned(begin[b], end[b])
          BY <2>1, <5>1 DEF DeepestSpanning, Children
        <5> QED
          BY <2>3, <2>4, <4>1, <5>2
      <4>2. CASE c \in InUse \ {b}
        <5>1. parent[c] = n
          BY <1>3, <3>2, <3>4, <4>2
        <5> QED
          BY <2>1, <2>4, <4>2, <5>1 DEF DeepestSpanning, Children
      <4> QED
        BY <4>1, <4>2
    <3> QED
      BY <1>3, <3>1, <3>3, <3>4 DEF DeepestSpanning, Children
  <2> QED
    BY <2>5, <2>6
<1> QED
  BY <1>4, <1>5, <1>7, <1>8, <1>9
-----------------------------------------------------------------------------
\* An entry whose parent is below b is below b.
LEMMA BelowChild ==
    ASSUME TypeOK, NEW b \in Num, NEW c \in InUse, parent[c] # 0,
           b \in SelfAndAbove(parent[c])
    PROVE  b \in SelfAndAbove(c)
<1> SUFFICES ASSUME NEW S \in SUBSET (Parents \cup {c}), c \in S, ParentClosed(S)
             PROVE  b \in S
  BY DEF SelfAndAbove
<1>1. S \in SUBSET Num
  BY DEF Parents, TypeOK, InUse
<1>2. parent[c] \in S
  BY DEF ParentClosed
<1> QED
  BY <1>1, <1>2, AboveIsLeast

\* An entry below b, other than b, has a parent, which is b or below b.
LEMMA BelowParent ==
    ASSUME TypeOK, NEW b \in Num, NEW c \in Num, c # b, b \in SelfAndAbove(c)
    PROVE  parent[c] # 0 /\ b \in SelfAndAbove(parent[c])
<1>1. parent[c] # 0
  <2>1. SUFFICES ASSUME parent[c] = 0 PROVE FALSE
    OBVIOUS
  <2>2. ParentClosed({c})
    BY <2>1 DEF ParentClosed
  <2> QED
    BY <2>2 DEF SelfAndAbove
<1>2. ASSUME NEW S \in SUBSET (Parents \cup {parent[c]}), parent[c] \in S,
             ParentClosed(S)
      PROVE  b \in S
  <2>1. ParentClosed(S \cup {c})
    BY <1>2 DEF ParentClosed
  <2>2. S \cup {c} \in SUBSET Num
    BY <1>1 DEF Parents, TypeOK
  <2>3. b \in S \cup {c}
    BY <2>1, <2>2, AboveIsLeast
  <2> QED
    BY <2>3
<1> QED
  BY <1>1, <1>2 DEF SelfAndAbove

\* The parent of b is not below b.
LEMMA ParentNotBelow ==
    ASSUME IInv, NEW b \in InUse
    PROVE  parent[b] \notin SelfAndBelow(b)
<1> SUFFICES ASSUME parent[b] \in SelfAndBelow(b) PROVE FALSE
  OBVIOUS
<1> DEFINE q == parent[b]
           S == SelfAndBelow(b) \cap SelfAndAbove(q)
<1>1. q \in InUse /\ q \in Num /\ b \in SelfAndAbove(q) /\ q # 0
  BY InUseBounds DEF SelfAndBelow
<1>2. q \in S
  BY <1>1 DEF SelfAndAbove
<1>3. \A c \in S : parent[c] \in S
  <2> SUFFICES ASSUME NEW c \in S PROVE parent[c] \in S
    OBVIOUS
  <2>1. c \in InUse /\ c \in Num /\ b \in SelfAndAbove(c) /\ c \in SelfAndAbove(q)
    BY InUseBounds DEF SelfAndBelow
  <2>2. CASE c = b
    BY <1>2, <2>2
  <2>3. CASE c # b
    <3>1. parent[c] # 0 /\ b \in SelfAndAbove(parent[c])
      BY <2>1, <2>3, BelowParent DEF IInv, InUse
    <3>2. parent[c] \in InUse
      BY <2>1, <3>1 DEF IInv, Nested
    <3>3. parent[c] \in SelfAndAbove(q)
      BY <2>1, <3>1, <3>2 DEF SelfAndAbove, ParentClosed, InUse
    <3> QED
      BY <3>1, <3>2, <3>3 DEF SelfAndBelow
  <2> QED
    BY <2>2, <2>3
<1>4. S \in SUBSET InUse
  BY DEF SelfAndBelow
<1> QED
  BY <1>2, <1>3, <1>4 DEF IInv, Acyclic

\* bigalloc_del keeps the invariant: with b go all the entries below it, and
\* the pages any of them spanned are pages b spanned.
LEMMA DeleteStep ==
    ASSUME IInv, NEW b \in InUse, bigalloc_del(b)
    PROVE  IInv'
<1> USE DEF IInv
<1> DEFINE D == SelfAndBelow(b)
<1>1. /\ begin' = [c \in Num |-> IF c \in D THEN 0 ELSE begin[c]]
      /\ end' = [c \in Num |-> IF c \in D THEN 0 ELSE end[c]]
      /\ parent' = [c \in Num |-> IF c \in D THEN 0 ELSE parent[c]]
      /\ pageindex' = memset_bigalloc(Spanned(begin[b], end[b]), parent[b])
      /\ allocated_by' = allocated_by
  BY DEF bigalloc_del
<1>2. TypeOK'
  BY <1>1, AddrLimitAssumption DEF TypeOK, memset_bigalloc, Addr, InUse
<1>3. /\ InUse' = InUse \ D
      /\ \A c \in InUse \ D : /\ begin'[c] = begin[c] /\ end'[c] = end[c]
                              /\ parent'[c] = parent[c]
  BY <1>1 DEF InUse, BIGALLOC_IN_USE
<1>4. b \in D /\ parent[b] \notin D
  BY ParentNotBelow DEF SelfAndBelow, SelfAndAbove, InUse
<1>5. \A c \in InUse \ D : parent[c] \notin D
  <2> SUFFICES ASSUME NEW c \in InUse, parent[c] \in D
               PROVE  c \in D
    OBVIOUS
  <2>1. b \in Num /\ parent[c] # 0 /\ b \in SelfAndAbove(parent[c])
    BY InUseBounds DEF SelfAndBelow
  <2> QED
    BY <2>1, BelowChild DEF SelfAndBelow, IInv
<1>6. Acyclic'
  BY <1>3 DEF Acyclic
<1>7. Nested'
  <2>1. \A c \in InUse \ D : begin'[c] < end'[c]
    BY <1>3 DEF Nested
  <2>2. ASSUME NEW c \in InUse \ D, parent[c] # 0
        PROVE  /\ parent[c] \in InUse \ D
               /\ begin'[parent[c]] <= begin'[c] /\ end'[c] <= end'[parent[c]]
    BY <1>3, <1>5, <2>2 DEF Nested
  <2>3. \A c \in Num \ (InUse \ D) : parent'[c] = 0
    BY <1>1 DEF Nested
  <2>4. ASSUME NEW c \in InUse \ D, parent[c] = 0
        PROVE  PageAligned(begin'[c]) /\ PageAligned(end'[c])
    BY <1>3, <2>4 DEF Nested, Children
  <2> QED
    BY <1>3, <2>1, <2>2, <2>3, <2>4 DEF Nested, Children, PageAligned
<1>8. SiblingsDisjoint'
  BY <1>3 DEF SiblingsDisjoint, Disjoint
<1>9. IndexDeepest'
  <2> SUFFICES ASSUME NEW p \in Page
               PROVE  DeepestSpanning(pageindex[p], p)'
    BY DEF IndexDeepest
  <2>1. DeepestSpanning(pageindex[p], p)
    BY DEF IndexDeepest
  <2>2. \A c \in InUse \ D : Spanned(begin'[c], end'[c]) = Spanned(begin[c], end[c])
    BY <1>3
  <2>3. CASE p \in Spanned(begin[b], end[b])
    <3> DEFINE q == parent[b]
    <3>1. pageindex'[p] = q
      BY <1>1, <2>3 DEF memset_bigalloc
    <3>2. ASSUME q # 0 PROVE q \in InUse \ D /\ p \in Spanned(begin[q], end[q])
      <4>1. q \in InUse /\ begin[q] <= begin[b] /\ end[b] <= end[q]
        BY <3>2 DEF Nested
      <4>2. p \in Spanned(begin[q], end[q])
        BY <2>3, <4>1, InUseBounds, SpannedWithin
      <4> QED
        BY <1>4, <4>1, <4>2
    <3>3. ASSUME NEW c \in InUse \ D, parent[c] = q
          PROVE  p \notin Spanned(begin[c], end[c])
      <4>1. Disjoint(begin[b], end[b], begin[c], end[c])
        BY <1>4, <3>3 DEF SiblingsDisjoint
      <4> QED
        BY <2>3, <4>1, InUseBounds, SpannedDisjoint
    <3> QED
      BY <1>3, <2>2, <3>1, <3>2, <3>3 DEF DeepestSpanning, Children
  <2>4. CASE p \notin Spanned(begin[b], end[b])
    <3> DEFINE n == pageindex[p]
    <3>1. pageindex'[p] = n
      BY <1>1, <2>4 DEF memset_bigalloc
    <3>2. n \notin D
      <4> SUFFICES ASSUME n \in D PROVE FALSE
        OBVIOUS
      <4>1. n \in InUse /\ b \in SelfAndAbove(n) /\ n # 0
        BY InUseBounds DEF SelfAndBelow
      <4>2. begin[b] <= begin[n] /\ end[n] <= end[b]
        BY <4>1, AboveContains
      <4>3. p \in Spanned(begin[n], end[n])
        BY <2>1, <4>1 DEF DeepestSpanning
      <4> QED
        BY <2>4, <4>1, <4>2, <4>3, InUseBounds, SpannedWithin
    <3> QED
      BY <1>3, <2>1, <2>2, <3>1, <3>2 DEF DeepestSpanning, Children
  <2> QED
    BY <2>3, <2>4
<1> QED
  BY <1>2, <1>6, <1>7, <1>8, <1>9
-----------------------------------------------------------------------------
\* IInv holds initially.
LEMMA InitInv == Init => IInv
<1> SUFFICES ASSUME Init PROVE IInv
  OBVIOUS
<1>1. InUse = {}
  BY DEF Init, InUse, BIGALLOC_IN_USE
<1>2. TypeOK
  BY AddrLimitAssumption DEF Init, TypeOK, Addr
<1>3. Acyclic /\ Nested /\ SiblingsDisjoint
  BY <1>1 DEF Init, Acyclic, Nested, SiblingsDisjoint, Children
<1>4. IndexDeepest
  BY <1>1 DEF Init, IndexDeepest, DeepestSpanning, Children
<1> QED
  BY <1>2, <1>3, <1>4 DEF IInv

\* IInv is kept by every step: one case per operation of the table.
LEMMA NextInv == IInv /\ [Next]_vars => IInv'
<1> SUFFICES ASSUME IInv, [Next]_vars PROVE IInv'
  OBVIOUS
<1>1. ASSUME NEW lo \in Addr, NEW hi \in Addr, NEW a \in Allocators,
             0 < lo, lo < hi, new_bigalloc(lo, hi, a)
      PROVE  IInv'
  <2>1. PICK q \in find_deepest_bigalloc(lo) : bigalloc_new(lo, hi, q, a)
    BY <1>1 DEF new_bigalloc
  <2>2. q \in InUse \cup {0}
    BY <2>1 DEF find_deepest_bigalloc
  <2> QED
    BY <1>1, <2>1, <2>2, NewStep
<1>2. ASSUME NEW lo \in Addr, NEW hi \in Addr, NEW a \in Allocators, NEW q \in InUse,
             0 < lo, lo < hi, new_bigalloc_under(lo, hi, q, a)
      PROVE  IInv'
  BY <1>2, NewStep DEF new_bigalloc_under
<1>3. ASSUME NEW addr \in Addr, NEW a \in Allocators, delete_bigalloc_at(addr, a)
      PROVE  IInv'
  BY <1>3, DeleteStep DEF delete_bigalloc_at
<1>4. CASE UNCHANGED vars
  BY <1>4 DEF vars, IInv, TypeOK, Acyclic, Nested, SiblingsDisjoint, IndexDeepest,
              DeepestSpanning, InUse, BIGALLOC_IN_USE, Children, Disjoint, PageAligned
<1> QED
  BY <1>1, <1>2, <1>3, <1>4, ExtendStep, PreExtendStep, TruncateEndStep,
     TruncateBeginStep, SplitStep DEF Next

\* The fields of the table and the entries of the index always have their types.
THEOREM TypeCorrect == Spec => []TypeOK
<1>1. IInv => TypeOK
  BY DEF IInv
<1> QED
  BY <1>1, InitInv, NextInv, PTL DEF Spec

\* Whatever the page size, the address space and the number of entries, the
\* operations of pageindex.c keep the big allocations properly nested.
THEOREM ForestCorrect == Spec => []ProperlyNested
<1>1. IInv => ProperlyNested
  BY DEF IInv, ProperlyNested
<1> QED
  BY <1>1, InitInv, NextInv, PTL DEF Spec

\* ... and keep the page index exact: each page maps to the deepest allocation
\* that spans it, and to none only if no allocation does.
THEOREM IndexCorrect == Spec => []IndexDeepest
<1>1. IInv => IndexDeepest
  BY DEF IInv
<1> QED
  BY <1>1, InitInv, NextInv, PTL DEF Spec
-----------------------------------------------------------------------------
\* An address below another is on a page below the one the other rounds up to.
LEMMA RoundApart ==
    ASSUME NEW a \in Addr, NEW b \in Addr, a < b
    PROVE  ROUND_DOWN(a) < ROUND_UP(b)
<1>1. a \in Nat /\ b \in Nat
  BY AddrLimitAssumption DEF Addr
<1>2. (a + PageSize) \div PageSize = (a \div PageSize) + 1
  BY <1>1, PageSizeAssumption
<1>3. (a + PageSize) \div PageSize <= (b + PageSize - 1) \div PageSize
  BY <1>1, PageSizeAssumption
<1> QED
  BY <1>1, <1>2, <1>3, PageSizeAssumption DEF ROUND_DOWN, ROUND_UP

\* What contains an address is contained in a parent that contains it.
LEMMA ContainingParent ==
    ASSUME IInv, NEW addr \in Addr, NEW c \in InUse, Contains(c, addr), parent[c] # 0
    PROVE  parent[c] \in InUse /\ Contains(parent[c], addr)
<1>1. parent[c] \in InUse /\ begin[parent[c]] <= begin[c] /\ end[c] <= end[parent[c]]
  BY DEF IInv, Nested
<1>2. addr \in Int
  BY DEF Addr
<1> QED
  BY <1>1, <1>2, InUseBounds DEF Contains

\* Two entries with one parent do not both contain an address.
LEMMA OneSibling ==
    ASSUME IInv, NEW addr \in Addr, NEW c \in InUse, NEW d \in InUse,
           Contains(c, addr), Contains(d, addr), parent[c] = parent[d]
    PROVE  c = d
<1>1. addr \in Int
  BY DEF Addr
<1> QED
  BY <1>1, InUseBounds DEF IInv, SiblingsDisjoint, Disjoint, Contains

\* Of what lies above b, b excepted, some entry on the way is a child.
LEMMA ChildOnTheWay ==
    ASSUME IInv, NEW b \in InUse, NEW q \in SelfAndAbove(b), q # b
    PROVE  \E d \in SelfAndAbove(b) : parent[d] = q
<1> SUFFICES ASSUME \A d \in SelfAndAbove(b) : parent[d] # q
             PROVE  FALSE
  OBVIOUS
<1> DEFINE S == SelfAndAbove(b) \ {q}
<1>1. S \in SUBSET Num
  BY DEF SelfAndAbove
<1>2. b \in S
  BY DEF SelfAndAbove, InUse
<1>3. ParentClosed(S)
  <2> SUFFICES ASSUME NEW c \in S, parent[c] # 0 PROVE parent[c] \in S
    BY DEF ParentClosed
  <2>1. parent[c] \in Num
    BY DEF IInv, TypeOK, SelfAndAbove
  <2>2. parent[c] \in SelfAndAbove(b)
    BY <2>1 DEF SelfAndAbove, ParentClosed
  <2> QED
    BY <2>2
<1>4. q \in S
  BY <1>1, <1>2, <1>3, AboveIsLeast
<1> QED
  BY <1>4

\* Above every entry in use there is one at the top level.
LEMMA RootAbove ==
    ASSUME IInv, NEW b \in InUse
    PROVE  \E d \in SelfAndAbove(b) : parent[d] = 0
<1>1. SelfAndAbove(b) \in SUBSET InUse
  BY AboveContains
<1>2. b \in SelfAndAbove(b)
  BY DEF SelfAndAbove, InUse
<1>3. PICK d \in SelfAndAbove(b) : parent[d] \notin SelfAndAbove(b)
  BY <1>1, <1>2 DEF IInv, Acyclic
<1>4. d \in Num /\ parent[d] \in Num \cup {0}
  BY <1>1 DEF IInv, TypeOK, InUse
<1>5. parent[d] # 0 => parent[d] \in SelfAndAbove(b)
  BY <1>4 DEF SelfAndAbove, ParentClosed
<1> QED
  BY <1>3, <1>5

\* An entry that contains an address and has no child that does is below all
\* the others that contain it.
LEMMA LeafIsBelowAll ==
    ASSUME IInv, NEW addr \in Addr, NEW b \in InUse, Contains(b, addr),
           \A c \in Children(b) : ~Contains(c, addr),
           NEW m \in InUse, Contains(m, addr)
    PROVE  m \in SelfAndAbove(b)
<1> DEFINE S == {c \in InUse : Contains(c, addr) /\ c \notin SelfAndAbove(b)}
<1> SUFFICES ASSUME m \in S PROVE FALSE
  OBVIOUS
<1>1. PICK c \in S : parent[c] \notin S
  BY DEF IInv, Acyclic
<1>2. c \in InUse /\ Contains(c, addr) /\ c \notin SelfAndAbove(b)
  BY <1>1
<1>3. \A d \in SelfAndAbove(b) : d \in InUse /\ Contains(d, addr)
  <2> SUFFICES ASSUME NEW d \in SelfAndAbove(b)
               PROVE  d \in InUse /\ Contains(d, addr)
    OBVIOUS
  <2>1. d \in InUse /\ begin[d] <= begin[b] /\ end[b] <= end[d]
    BY AboveContains
  <2>2. addr \in Int
    BY DEF Addr
  <2> QED
    BY <2>1, <2>2, InUseBounds DEF Contains
<1>4. ASSUME NEW d \in SelfAndAbove(b), parent[d] = parent[c] PROVE FALSE
  BY <1>2, <1>3, <1>4, OneSibling
<1>5. CASE parent[c] = 0
  BY <1>4, <1>5, RootAbove
<1>6. CASE parent[c] # 0
  <2>1. parent[c] \in SelfAndAbove(b)
    BY <1>1, <1>2, <1>6, ContainingParent
  <2>2. parent[c] # b
    BY <1>2 DEF Children
  <2> QED
    BY <1>4, <2>1, <2>2, ChildOnTheWay
<1> QED
  BY <1>5, <1>6

\* Where there is an entry that contains an address there is one without a
\* child that does: else each would be the parent of another, and they would
\* be as many as those of them that are not at the top level.
LEMMA LeafExists ==
    ASSUME IInv, NEW addr \in Addr, NEW m \in InUse, Contains(m, addr)
    PROVE  \E b \in InUse :
             Contains(b, addr) /\ \A c \in Children(b) : ~Contains(c, addr)
<1> SUFFICES ASSUME \A b \in InUse : Contains(b, addr) =>
                       \E c \in Children(b) : Contains(c, addr)
             PROVE  FALSE
  OBVIOUS
<1> DEFINE C == {c \in InUse : Contains(c, addr)}
           D == {c \in C : parent[c] \in C}
           f == [c \in D |-> parent[c]]
<1>1. PICK r \in C : parent[r] \notin C
  BY DEF IInv, Acyclic
<1>2. IsFiniteSet(C)
  <2>1. IsFiniteSet(Num)
    BY FS_Interval, NBigallocsAssumption DEF Num
  <2>2. C \in SUBSET Num
    BY DEF InUse
  <2> QED
    BY <2>1, <2>2, FS_Subset
<1>3. f \in Surjection(D, C)
  <2>1. f \in [D -> C]
    OBVIOUS
  <2>2. ASSUME NEW b \in C PROVE \E c \in D : f[c] = b
    <3>1. PICK c \in Children(b) : Contains(c, addr)
      OBVIOUS
    <3>2. c \in D
      BY <3>1 DEF Children
    <3> QED
      BY <3>1, <3>2 DEF Children
  <2> QED
    BY <2>1, <2>2 DEF Surjection
<1>4. D \in SUBSET (C \ {r})
  BY <1>1
<1>5. IsFiniteSet(C \ {r}) /\ Cardinality(C \ {r}) = Cardinality(C) - 1
  BY <1>1, <1>2, FS_RemoveElement
<1>6. IsFiniteSet(D) /\ Cardinality(D) <= Cardinality(C \ {r})
  BY <1>4, <1>5, FS_Subset
<1>7. Cardinality(C) <= Cardinality(D)
  BY <1>3, <1>6, FS_Surjection
<1>8. Cardinality(C) \in Nat /\ Cardinality(D) \in Nat
  BY <1>2, <1>6, FS_CardinalityType
<1> QED
  BY <1>5, <1>6, <1>7, <1>8

\* The entry of an address's page contains the address.
LEMMA StartContains ==
    ASSUME IInv, NEW addr \in Addr, NEW n \in InUse,
           ROUND_DOWN(addr) \in Spanned(begin[n], end[n])
    PROVE  Contains(n, addr)
<1>1. /\ begin[n] \in Addr /\ end[n] \in Addr /\ begin[n] \in Int /\ end[n] \in Int
      /\ addr \in Int
  BY InUseBounds DEF Addr
<1>2. /\ ROUND_DOWN(addr) \in Int /\ ROUND_UP(begin[n]) \in Int /\ ROUND_DOWN(end[n]) \in Int
  BY <1>1, Rounding
<1>3. ROUND_UP(begin[n]) <= ROUND_DOWN(addr) /\ ROUND_DOWN(addr) < ROUND_DOWN(end[n])
  BY DEF Spanned, PageRange
<1>4. ~(addr < begin[n])
  BY <1>1, <1>2, <1>3, RoundApart
<1>5. ~(end[n] <= addr)
  BY <1>1, <1>2, <1>3, Rounding
<1> QED
  BY <1>1, <1>4, <1>5 DEF Contains

\* A top-level entry spans the pages of all its addresses.
LEMMA RootSpans ==
    ASSUME IInv, NEW addr \in Addr, NEW r \in Children(0), Contains(r, addr)
    PROVE  ROUND_DOWN(addr) \in Spanned(begin[r], end[r])
<1>1. /\ r \in InUse /\ begin[r] \in Addr /\ end[r] \in Addr
      /\ ROUND_UP(begin[r]) = ROUND_DOWN(begin[r])
      /\ ROUND_UP(end[r]) = ROUND_DOWN(end[r])
  BY InUseBounds DEF Children, IInv, Nested, PageAligned
<1>2. ROUND_DOWN(begin[r]) <= ROUND_DOWN(addr)
  BY <1>1, Rounding DEF Contains
<1>3. ROUND_DOWN(addr) < ROUND_UP(end[r])
  BY <1>1, RoundApart DEF Contains
<1>4. ROUND_DOWN(addr) \in Page
  <2>1. AddrLimit \in Addr /\ addr <= AddrLimit
    BY AddrLimitAssumption DEF Addr
  <2> QED
    BY <2>1, Rounding DEF Page
<1> QED
  BY <1>1, <1>2, <1>3, <1>4 DEF Spanned, PageRange
\* The entries that contain an address are those above the deepest, which is
\* what a lookup through the page index finds.
LEMMA LookupInv == IInv => LookupFindsDeepest
<1> SUFFICES ASSUME IInv, NEW addr \in Addr \ {AddrLimit}
             PROVE  LET containing == {b \in InUse : Contains(b, addr)}
                        found == find_deepest_bigalloc(addr)
                    IN  IF containing = {} THEN found = {0}
                        ELSE \E b \in containing :
                                found = {b} /\ containing \subseteq SelfAndAbove(b)
  BY DEF LookupFindsDeepest
<1> DEFINE containing == {b \in InUse : Contains(b, addr)}
           found == find_deepest_bigalloc(addr)
           start == pageindex[ROUND_DOWN(addr)]
<1>1. ROUND_DOWN(addr) \in Page
  <2>1. AddrLimit \in Addr /\ addr <= AddrLimit
    BY AddrLimitAssumption DEF Addr
  <2> QED
    BY <2>1, Rounding DEF Page
<1>2. DeepestSpanning(start, ROUND_DOWN(addr))
  BY <1>1 DEF IInv, IndexDeepest
<1>3. CASE start = 0
  <2>1. ASSUME NEW m \in containing PROVE FALSE
    <3>1. PICK r \in SelfAndAbove(m) : parent[r] = 0
      BY RootAbove
    <3>2. r \in InUse /\ begin[r] <= begin[m] /\ end[m] <= end[r]
      BY AboveContains
    <3>3. Contains(r, addr)
      <4>1. addr \in Int
        BY DEF Addr
      <4> QED
        BY <3>2, <4>1, InUseBounds DEF Contains
    <3>4. r \in Children(0)
      BY <3>1, <3>2 DEF Children
    <3>5. ROUND_DOWN(addr) \in Spanned(begin[r], end[r])
      BY <3>3, <3>4, RootSpans
    <3> QED
      BY <1>2, <1>3, <3>4, <3>5 DEF DeepestSpanning
  <2>2. containing = {}
    BY <2>1
  <2>3. found = {0}
    BY <1>3 DEF find_deepest_bigalloc
  <2> QED
    BY <2>2, <2>3
<1>4. CASE start # 0
  <2>1. start \in InUse /\ Contains(start, addr)
    BY <1>2, <1>4, StartContains DEF DeepestSpanning
  <2>2. PICK b \in InUse :
          Contains(b, addr) /\ \A c \in Children(b) : ~Contains(c, addr)
    BY <2>1, LeafExists
  <2>3. containing \subseteq SelfAndAbove(b)
    BY <2>2, LeafIsBelowAll
  <2>4. start \in SelfAndAbove(b)
    BY <2>1, <2>3
  <2>5. b \in found
    BY <1>4, <2>2, <2>4 DEF find_deepest_bigalloc, IsDeepestBelow
  <2>6. ASSUME NEW m \in found PROVE m = b
    <3>1. m \in InUse /\ IsDeepestBelow(m, start, addr)
      BY <1>4 DEF find_deepest_bigalloc
    <3>2. Contains(m, addr)
      BY <2>1, <3>1 DEF IsDeepestBelow
    <3>3. m \in SelfAndAbove(b)
      BY <2>3, <3>1, <3>2
    <3>4. SUFFICES ASSUME m # b PROVE FALSE
      OBVIOUS
    <3>5. PICK d \in SelfAndAbove(b) : parent[d] = m
      BY <3>3, <3>4, ChildOnTheWay
    <3>6. d \in InUse /\ begin[d] <= begin[b] /\ end[b] <= end[d]
      BY AboveContains
    <3>7. Contains(d, addr)
      <4>1. addr \in Int
        BY DEF Addr
      <4> QED
        BY <2>2, <3>6, <4>1, InUseBounds DEF Contains
    <3> QED
      BY <3>1, <3>5, <3>6, <3>7 DEF IsDeepestBelow, Children
  <2>7. found = {b}
    BY <2>5, <2>6
  <2> QED
    BY <2>2, <2>3, <2>7
<1> QED
  BY <1>3, <1>4

\* ... and whatever operations of pageindex.c have been made, a lookup through
\* the index finds the deepest allocation at every address, and no allocation
\* only where there is none.
THEOREM LookupCorrect == Spec => []LookupFindsDeepest
BY LookupInv, InitInv, NextInv, PTL DEF Spec
=============================================================================
