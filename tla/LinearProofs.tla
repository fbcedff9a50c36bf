---------------------------- MODULE LinearProofs ----------------------------
(***************************************************************************)
(* Proofs about LinearMalloc: the sorted records that are the index of the *)
(* dynamic linker's malloc are the blocks it holds, no two of which        *)
(* overlap, and each block is in an arena once liballocs has started.      *)
(***************************************************************************)
EXTENDS LinearMalloc, WellFoundedInduction, TLAPS

\* Every set of natural numbers that is not empty has a least element.
LEMMA LeastNat ==
    ASSUME NEW T, T \subseteq Nat, T # {}
    PROVE  \E x \in T : \A y \in T : x <= y
<1>1. PICK x \in T : \A y \in T : ~(<<y, x>> \in OpToRel(<, Nat))
  BY NatLessThanWellFounded, WFMin
<1>2. \A y \in T : y < x => <<y, x>> \in OpToRel(<, Nat)
  BY DEF OpToRel
<1>3. \A y \in T : ~(y < x)
  BY <1>1, <1>2
<1> QED BY <1>3

-----------------------------------------------------------------------------
(* The records of the dynamic linker's malloc. *)

AllLinearContracts ==
    HeapContracts = {"nonzero", "arenas_near", "arena_not_extended", "records_fit",
                     "realloc_succeeds"}

Rec == [addr : Nat, requested : Nat, padding : Nat]
RecsOK(s) == s \in Seq(Rec) /\ Sorted(s) /\ \A i \in DOMAIN s : s[i].addr # 0
Among(y, s) == \E i \in DOMAIN s : s[i] = y
Near(s) == \A i, j \in DOMAIN s : s[i].addr - s[j].addr < IntRange
Arranged(s, p) == [i \in DOMAIN s |-> s[p[i]]]
Agreed(r) == \A i, j \in DOMAIN r : i < j => compare(r[i], r[j]) <= 0

\* An int is enough for the difference of addresses that are near each other.
LEMMA CompareIs ==
    ASSUME NEW r1 \in Rec, NEW r2 \in Rec, r1.addr # 0, r2.addr # 0,
           r1.addr - r2.addr < IntRange, r2.addr - r1.addr < IntRange
    PROVE  compare(r1, r2) <= 0 <=> r1.addr <= r2.addr
<1>1. PICK d \in Int : d = r1.addr - r2.addr
  BY DEF Rec
<1>2. IntRange \in Nat \ {0} /\ r1.addr \in Nat /\ r2.addr \in Nat
  BY LinearMallocAssumption DEF Rec
<1>3. d + IntRange \in Nat /\ 2 * IntRange \in Nat /\ d + IntRange < 2 * IntRange
  BY <1>1, <1>2
<1>4. (d + IntRange) % (2 * IntRange) = d + IntRange
  <2>1. \A x, m \in Nat : x < m => x % m = x
    OBVIOUS
  <2> QED BY <1>3, <2>1
<1>5. ToInt(d) = d
  BY <1>1, <1>2, <1>4 DEF ToInt
<1>6. compare(r1, r2) = d
  BY <1>1, <1>5 DEF compare
<1> QED BY <1>1, <1>2, <1>6

\* A permutation of 1..n takes each index to an index, and reaches each once.
LEMMA PermutationIs ==
    ASSUME NEW n, NEW p \in Bijection(1..n, 1..n)
    PROVE  /\ \A i \in 1..n : p[i] \in 1..n
           /\ \A i, j \in 1..n : p[i] = p[j] => i = j
           /\ \A j \in 1..n : \E i \in 1..n : p[i] = j
BY DEF Bijection, Injection, Surjection, IsInjective

\* Records arranged by a permutation are records, as many as before.
LEMMA ArrangementIs ==
    ASSUME NEW n \in Nat, NEW s \in Seq(Rec), Len(s) = n, NEW p \in Bijection(1..n, 1..n)
    PROVE  /\ Arranged(s, p) \in Seq(Rec) /\ Len(Arranged(s, p)) = n
           /\ DOMAIN Arranged(s, p) = 1..n
           /\ \A i \in 1..n : Arranged(s, p)[i] = s[p[i]]
<1>1. DOMAIN s = 1..n /\ \A i \in 1..n : s[i] \in Rec
  OBVIOUS
<1>2. \A i \in 1..n : p[i] \in 1..n
  BY PermutationIs
<1>3. PICK r : r = Arranged(s, p)
  OBVIOUS
<1>4. r = [i \in 1..n |-> s[p[i]]]
  BY <1>1, <1>3 DEF Arranged
<1>5. \A i \in 1..n : r[i] = s[p[i]] /\ s[p[i]] \in Rec
  BY <1>1, <1>2, <1>4
<1>6. r \in [1..n -> Rec] /\ DOMAIN r = 1..n
  BY <1>4, <1>5
<1>7. r \in Seq(Rec) /\ Len(r) = n
  BY <1>6
<1> QED BY <1>3, <1>5, <1>6, <1>7

\* If the records can be arranged as the comparison asks, qsort does so.
LEMMA QsortIs ==
    ASSUME NEW s \in Seq(Rec), s # <<>>, NEW p \in Bijection(DOMAIN s, DOMAIN s),
           Agreed(Arranged(s, p)), NEW r \in qsort(s)
    PROVE  \E q \in Bijection(DOMAIN s, DOMAIN s) : r = Arranged(s, q) /\ Agreed(r)
<1> DEFINE all == {[i \in DOMAIN s |-> s[q[i]]] : q \in Bijection(DOMAIN s, DOMAIN s)}
           ordered == {t \in all : \A i, j \in DOMAIN s : i < j => compare(t[i], t[j]) <= 0}
<1>1. Arranged(s, p) \in all /\ DOMAIN Arranged(s, p) = DOMAIN s
  BY DEF Arranged
<1>2. Arranged(s, p) \in ordered
  BY <1>1 DEF Agreed
<1>3. r \in ordered
  BY <1>2, Zenon DEF qsort
<1>4. PICK q \in Bijection(DOMAIN s, DOMAIN s) : r = [i \in DOMAIN s |-> s[q[i]]]
  BY <1>3
<1>5. DOMAIN r = DOMAIN s
  BY <1>4
<1>6. Agreed(r)
  BY <1>3, <1>5 DEF Agreed
<1> QED BY <1>4, <1>6 DEF Arranged

\* A number put at the end of numbers that are sorted can be moved to its place.
LEMMA PlaceExists ==
    ASSUME NEW n \in Nat \ {0}, NEW a \in [1..n -> Nat],
           \A i, j \in 1..(n - 1) : i < j => a[i] < a[j]
    PROVE  \E p \in Bijection(1..n, 1..n) : \A i, j \in 1..n : i < j => a[p[i]] <= a[p[j]]
<1>1. n \in 1..n /\ \A i \in 1..n : a[i] \in Nat
  OBVIOUS
<1>2. PICK k \in 1..n : a[n] <= a[k] /\ \A i \in 1..n : i < k => a[i] < a[n]
  <2> DEFINE T == {i \in 1..n : a[n] <= a[i]}
  <2>1. T \subseteq Nat /\ n \in T
    BY <1>1
  <2>2. PICK k \in T : \A i \in T : k <= i
    BY <2>1, LeastNat
  <2>3. ASSUME NEW i \in 1..n, i < k PROVE a[i] < a[n]
    <3>1. i \notin T
      BY <2>1, <2>2, <2>3
    <3> QED BY <1>1, <3>1
  <2> QED BY <2>2, <2>3
<1>3. PICK p : p = [i \in 1..n |-> IF i < k THEN i ELSE IF i = k THEN n ELSE i - 1]
  OBVIOUS
<1>4. ASSUME NEW i \in 1..n
      PROVE  p[i] = IF i < k THEN i ELSE IF i = k THEN n ELSE i - 1
  BY <1>3
<1>5. \A i \in 1..n : /\ i < k => p[i] = i /\ i \in 1..(n - 1)
                      /\ i = k => p[i] = n
                      /\ k < i => p[i] = i - 1 /\ i - 1 \in 1..(n - 1)
  BY <1>4
<1>6. p \in Bijection(1..n, 1..n)
  <2>1. \A i \in 1..n : p[i] \in 1..n
    BY <1>1, <1>5
  <2>2. p \in [1..n -> 1..n]
    BY <1>3, <2>1
  <2>3. \A i, j \in 1..n : p[i] = p[j] => i = j
    <3>1. ASSUME NEW i \in 1..n, NEW j \in 1..n, i < j PROVE p[i] # p[j]
      <4>1. CASE j <= k
        BY <1>5, <3>1, <4>1
      <4>2. CASE i < k /\ k < j
        BY <1>5, <3>1, <4>2
      <4>3. CASE k <= i
        BY <1>5, <3>1, <4>3, SMTT(20)
      <4> QED BY <3>1, <4>1, <4>2, <4>3
    <3>2. \A i, j \in 1..n : i < j \/ j < i \/ i = j
      OBVIOUS
    <3> QED BY <3>1, <3>2
  <2>4. ASSUME NEW w \in 1..n PROVE \E v \in 1..n : p[v] = w
    <3>1. CASE w < k
      BY <1>5, <3>1
    <3>2. CASE w = n
      BY <1>5, <3>2
    <3>3. CASE ~(w < k) /\ w # n
      <4>1. w + 1 \in 1..n /\ k < w + 1 /\ (w + 1) - 1 = w
        BY <3>3
      <4>2. p[w + 1] = w
        BY <1>5, <4>1
      <4> QED BY <4>1, <4>2
    <3> QED BY <3>1, <3>2, <3>3
  <2> QED BY <2>2, <2>3, <2>4 DEF Bijection, Injection, Surjection, IsInjective
<1>7. ASSUME NEW i \in 1..n, NEW j \in 1..n, i < j PROVE a[p[i]] <= a[p[j]]
  <2>1. \A u, v \in 1..(n - 1) : u <= v => a[u] <= a[v]
    BY <1>1
  <2>2. CASE i < k /\ j < k
    BY <1>5, <1>7, <2>1, <2>2
  <2>3. CASE i < k /\ j = k
    BY <1>1, <1>2, <1>5, <2>3
  <2>4. CASE i < k /\ k < j
    <3>1. p[i] = i /\ p[j] = j - 1 /\ i \in 1..(n - 1) /\ j - 1 \in 1..(n - 1) /\ i <= j - 1
      BY <1>5, <2>4
    <3> QED BY <2>1, <3>1
  <2>5. CASE i = k
    <3>1. p[i] = n /\ p[j] = j - 1 /\ k \in 1..(n - 1) /\ j - 1 \in 1..(n - 1) /\ k <= j - 1
      BY <1>5, <1>7, <2>5
    <3>2. a[k] <= a[j - 1] /\ a[j - 1] \in Nat /\ a[k] \in Nat
      BY <1>1, <2>1, <3>1
    <3> QED BY <1>1, <1>2, <3>1, <3>2
  <2>6. CASE k < i
    <3>1. p[i] = i - 1 /\ p[j] = j - 1 /\ i - 1 \in 1..(n - 1) /\ j - 1 \in 1..(n - 1) /\ i - 1 <= j - 1
      BY <1>5, <1>7, <2>6
    <3> QED BY <2>1, <3>1
  <2> QED BY <1>7, <2>2, <2>3, <2>4, <2>5, <2>6
<1> QED BY <1>6, <1>7

\* So can one be moved to the end.
LEMMA EndExists ==
    ASSUME NEW n \in Nat \ {0}, NEW k \in 1..n
    PROVE  \E p \in Bijection(1..n, 1..n) :
             /\ p[n] = k
             /\ \A i, j \in 1..n : i < j /\ j # n => p[i] < p[j] /\ p[j] # k /\ p[i] # k
             /\ \A i \in 1..n : i # n => p[i] # k
<1>1. n \in 1..n
  OBVIOUS
<1>2. PICK p : p = [i \in 1..n |-> IF i = n THEN k ELSE IF i < k THEN i ELSE i + 1]
  OBVIOUS
<1>3. ASSUME NEW i \in 1..n
      PROVE  p[i] = IF i = n THEN k ELSE IF i < k THEN i ELSE i + 1
  BY <1>2
<1>4. \A i \in 1..n : /\ i = n => p[i] = k
                      /\ i # n /\ i < k => p[i] = i
                      /\ i # n /\ ~(i < k) => p[i] = i + 1 /\ i + 1 \in 1..n
  BY <1>3
<1>5. p \in Bijection(1..n, 1..n)
  <2>1. \A i \in 1..n : p[i] \in 1..n
    BY <1>4
  <2>2. p \in [1..n -> 1..n]
    BY <1>2, <2>1
  <2>3. \A i, j \in 1..n : p[i] = p[j] => i = j
    BY <1>4
  <2>4. ASSUME NEW w \in 1..n PROVE \E v \in 1..n : p[v] = w
    <3>1. CASE w = k
      BY <1>1, <1>4, <3>1
    <3>2. CASE w < k
      BY <1>4, <3>2
    <3>3. CASE k < w
      <4>1. w - 1 \in 1..n /\ w - 1 # n /\ ~(w - 1 < k) /\ (w - 1) + 1 = w
        BY <3>3
      <4>2. p[w - 1] = w
        BY <1>4, <4>1
      <4> QED BY <4>1, <4>2
    <3> QED BY <3>1, <3>2, <3>3
  <2> QED BY <2>2, <2>3, <2>4 DEF Bijection, Injection, Surjection, IsInjective
<1>6. \A i \in 1..n : i # n => p[i] # k
  BY <1>4
<1>7. \A i, j \in 1..n : i < j /\ j # n => p[i] < p[j] /\ i # n
  BY <1>4
<1> QED BY <1>1, <1>4, <1>5, <1>6, <1>7

\* Records with the addresses in the order of the comparison are sorted.
LEMMA AgreedIsSorted ==
    ASSUME NEW r \in Seq(Rec), Agreed(r), Near(r), \A i \in DOMAIN r : r[i].addr # 0,
           \A i, j \in DOMAIN r : r[i].addr = r[j].addr => i = j
    PROVE  RecsOK(r)
<1>1. DOMAIN r = 1..Len(r) /\ \A i \in DOMAIN r : r[i] \in Rec /\ r[i].addr \in Nat
  <2>1. DOMAIN r = 1..Len(r) /\ \A i \in DOMAIN r : r[i] \in Rec
    OBVIOUS
  <2>2. \A x \in Rec : x.addr \in Nat
    BY DEF Rec
  <2> QED BY <2>1, <2>2, Zenon
<1>2. ASSUME NEW i \in DOMAIN r, NEW j \in DOMAIN r, i < j PROVE r[i].addr < r[j].addr
  <2>1. compare(r[i], r[j]) <= 0
    BY <1>2 DEF Agreed
  <2>2. r[i].addr <= r[j].addr
    BY <1>1, <2>1, CompareIs DEF Near
  <2>3. r[i].addr # r[j].addr
    BY <1>1, <1>2
  <2> QED BY <1>1, <2>2, <2>3
<1> QED BY <1>2 DEF RecsOK, Sorted

\* linear_malloc_index_insert adds one record and keeps the rest sorted.
LEMMA RecInserts ==
    ASSUME NEW s, RecsOK(s), Near(s), NEW a \in Nat \ {0}, NEW q \in Nat, NEW pad \in Nat,
           pad = CHUNK_SIZE_WITH_TRAILER(q) - InsertSize - q,
           \A i \in DOMAIN s : /\ s[i].addr # a
                               /\ s[i].addr - a < IntRange /\ a - s[i].addr < IntRange,
           NEW r \in linear_malloc_index_insert(s, a, q)
    PROVE  /\ RecsOK(r)
           /\ \A y : Among(y, r) <=>
                Among(y, s) \/ y = [addr |-> a, requested |-> q, padding |-> pad]
<1>1. PICK x : x = [addr |-> a, requested |-> q, padding |-> pad]
  OBVIOUS
<1>2. x \in Rec /\ x.addr = a
  BY <1>1 DEF Rec
<1>3. PICK t : t = Append(s, x)
  OBVIOUS
<1>4. PICK n \in Nat : n = Len(s) + 1
  BY DEF RecsOK
<1>5. /\ t \in Seq(Rec) /\ Len(t) = n /\ DOMAIN t = 1..n /\ DOMAIN s = 1..(n - 1) /\ t[n] = x
      /\ \A i \in 1..(n - 1) : t[i] = s[i] /\ i \in 1..n
  BY <1>2, <1>3, <1>4 DEF RecsOK
<1>6. n \in 1..n /\ \A i \in 1..n : i = n \/ i \in 1..(n - 1)
  BY <1>4 DEF RecsOK
<1>7. \A i \in 1..n : t[i] \in Rec /\ t[i].addr \in Nat /\ t[i].addr # 0
  <2>1. \A i \in 1..(n - 1) : s[i] \in Rec /\ s[i].addr # 0
    BY <1>5 DEF RecsOK
  <2>2. \A i \in 1..n : t[i] \in Rec /\ t[i].addr # 0
    BY <1>2, <1>5, <1>6, <2>1
  <2> QED BY <2>2 DEF Rec
<1>8. \A i, j \in 1..(n - 1) : i < j => t[i].addr < t[j].addr
  BY <1>5 DEF RecsOK, Sorted
<1>9. Near(t)
  <2>1. \A i, j \in 1..(n - 1) : t[i].addr - t[j].addr < IntRange
    BY <1>5 DEF Near
  <2>2. \A i \in 1..(n - 1) : t[i].addr - t[n].addr < IntRange /\ t[n].addr - t[i].addr < IntRange
    BY <1>2, <1>5
  <2>3. t[n].addr - t[n].addr < IntRange
    BY <1>6, <1>7, LinearMallocAssumption
  <2> QED BY <1>5, <1>6, <2>1, <2>2, <2>3 DEF Near
<1>10. \A y : Among(y, t) <=> Among(y, s) \/ y = x
  BY <1>5, <1>6 DEF Among
<1>11. \A i, j \in 1..n : t[i].addr = t[j].addr => i = j
  <2>1. \A i, j \in 1..(n - 1) : t[i].addr = t[j].addr => i = j
    <3>1. \A i, j \in 1..(n - 1) : i < j \/ j < i \/ i = j
      OBVIOUS
    <3> QED BY <1>5, <1>7, <1>8, <3>1
  <2>2. \A i \in 1..(n - 1) : t[i].addr # t[n].addr
    BY <1>2, <1>5
  <2> QED BY <1>6, <2>1, <2>2
<1>12. r \in IF n > 1 /\ t[n].addr < t[n - 1].addr THEN qsort(t) ELSE {t}
  <2>1. [addr |-> a, requested |-> q,
         padding |-> (CHUNK_SIZE_WITH_TRAILER(q) - InsertSize) - q] = x
    BY <1>1
  <2> QED BY <1>3, <1>4, <2>1, Zenon DEF linear_malloc_index_insert
<1>13. CASE ~(n > 1 /\ t[n].addr < t[n - 1].addr)
  <2>1. r = t
    BY <1>12, <1>13
  <2>2. ASSUME NEW i \in 1..(n - 1) PROVE t[i].addr < t[n].addr
    <3>1. n > 1 /\ n - 1 \in 1..(n - 1) /\ (i < n - 1 \/ i = n - 1)
      OBVIOUS
    <3>2. t[i].addr <= t[n - 1].addr /\ t[i].addr \in Nat /\ t[n - 1].addr \in Nat /\ t[n].addr \in Nat
      BY <1>5, <1>6, <1>7, <1>8, <3>1, SMTT(20)
    <3>3. t[n - 1].addr # t[n].addr
      BY <1>5, <1>6, <1>11, <3>1
    <3> QED BY <1>13, <3>1, <3>2, <3>3
  <2>3. \A i, j \in 1..n : i < j => t[i].addr < t[j].addr
    <3>1. \A i, j \in 1..n : i < j => i \in 1..(n - 1)
      OBVIOUS
    <3> QED BY <1>6, <1>8, <2>2, <3>1
  <2> QED BY <1>1, <1>5, <1>7, <1>10, <2>1, <2>3 DEF RecsOK, Sorted
<1>14. CASE n > 1 /\ t[n].addr < t[n - 1].addr
  <2>1. r \in qsort(t) /\ t # <<>>
    BY <1>4, <1>5, <1>12, <1>14
  <2>2. PICK b : b = [i \in 1..n |-> t[i].addr]
    OBVIOUS
  <2>3. b \in [1..n -> Nat] /\ \A i \in 1..n : b[i] = t[i].addr
    BY <1>7, <2>2
  <2>4. n \in Nat \ {0} /\ \A i, j \in 1..(n - 1) : i < j => b[i] < b[j]
    <3>1. n \in Nat \ {0}
      BY <1>14
    <3>2. ASSUME NEW i \in 1..(n - 1), NEW j \in 1..(n - 1), i < j PROVE b[i] < b[j]
      <4>1. i \in 1..n /\ j \in 1..n
        OBVIOUS
      <4>2. b[i] = t[i].addr /\ b[j] = t[j].addr
        BY <2>3, <4>1
      <4>3. t[i].addr < t[j].addr
        BY <1>8, <3>2
      <4> QED BY <4>2, <4>3
    <3> QED BY <3>1, <3>2
  <2>5. PICK p \in Bijection(1..n, 1..n) : \A i, j \in 1..n : i < j => b[p[i]] <= b[p[j]]
    BY <2>3, <2>4, PlaceExists
  <2>6. p \in Bijection(DOMAIN t, DOMAIN t)
    BY <1>5
  <2>7. \A i \in 1..n : p[i] \in 1..n /\ Arranged(t, p)[i] = t[p[i]]
    <3>1. \A i \in 1..n : p[i] \in 1..n
      BY PermutationIs
    <3>2. \A i \in 1..n : Arranged(t, p)[i] = t[p[i]]
      BY <1>5, ArrangementIs
    <3> QED BY <3>1, <3>2
  <2>8. Agreed(Arranged(t, p))
    <3>1. ASSUME NEW i \in 1..n, NEW j \in 1..n, i < j PROVE compare(t[p[i]], t[p[j]]) <= 0
      <4>1. t[p[i]].addr <= t[p[j]].addr
        BY <2>3, <2>5, <2>7, <3>1, SMTT(20)
      <4>2. p[i] \in 1..n /\ p[j] \in 1..n
        BY <2>7
      <4> QED BY <1>5, <1>7, <1>9, <4>1, <4>2, CompareIs DEF Near
    <3>2. DOMAIN Arranged(t, p) = 1..n
      BY <1>5 DEF Arranged
    <3> QED BY <2>7, <3>1, <3>2 DEF Agreed
  <2>9. PICK w \in Bijection(DOMAIN t, DOMAIN t) : r = Arranged(t, w) /\ Agreed(r)
    BY <1>5, <2>1, <2>6, <2>8, QsortIs
  <2>10. w \in Bijection(1..n, 1..n)
    BY <1>5
  <2>11. r \in Seq(Rec) /\ DOMAIN r = 1..n /\ \A i \in 1..n : r[i] = t[w[i]]
    BY <1>5, <2>9, <2>10, ArrangementIs
  <2>12. \A i \in 1..n : w[i] \in 1..n
    BY <2>10, PermutationIs
  <2>13. RecsOK(r)
    <3>1. ASSUME NEW i \in 1..n, NEW j \in 1..n PROVE r[i].addr - r[j].addr < IntRange
      <4>1. w[i] \in DOMAIN t /\ w[j] \in DOMAIN t
        BY <1>5, <2>12
      <4>2. t[w[i]].addr - t[w[j]].addr < IntRange
        BY <1>9, <4>1 DEF Near
      <4> QED BY <2>11, <4>2
    <3>2. ASSUME NEW i \in 1..n PROVE r[i].addr # 0
      BY <1>7, <2>11, <2>12
    <3>3. ASSUME NEW i \in 1..n, NEW j \in 1..n, r[i].addr = r[j].addr PROVE i = j
      <4>1. w[i] = w[j]
        BY <1>11, <2>11, <2>12, <3>3, SMTT(20)
      <4>2. \A k, l \in 1..n : w[k] = w[l] => k = l
        BY <2>10, PermutationIs
      <4> QED BY <4>1, <4>2
    <3>4. Near(r)
      BY <2>11, <3>1 DEF Near
    <3> QED BY <2>9, <2>11, <3>2, <3>3, <3>4, AgreedIsSorted
  <2>14. \A y : Among(y, r) <=> Among(y, t)
    <3>1. ASSUME NEW y, NEW i \in 1..n, r[i] = y PROVE \E j \in 1..n : t[j] = y
      BY <2>11, <2>12, <3>1
    <3>2. ASSUME NEW y, NEW j \in 1..n, t[j] = y PROVE \E i \in 1..n : r[i] = y
      <4>1. PICK i \in 1..n : w[i] = j
        BY <2>10, PermutationIs
      <4> QED BY <2>11, <3>2, <4>1
    <3> QED BY <1>5, <2>11, <3>1, <3>2, Zenon DEF Among
  <2> QED BY <1>1, <1>10, <2>13, <2>14
<1> QED BY <1>13, <1>14

\* linear_malloc_index_delete takes one record out.
LEMMA RecDeletes ==
    ASSUME NEW s, RecsOK(s), Near(s), NEW k \in DOMAIN s, NEW r \in linear_malloc_index_delete(s, k)
    PROVE  RecsOK(r) /\ \A y : Among(y, r) <=> Among(y, s) /\ y # s[k]
<1>1. PICK n \in Nat : n = Len(s)
  BY DEF RecsOK
<1>2. /\ s \in Seq(Rec) /\ DOMAIN s = 1..n /\ k \in 1..n /\ n \in Nat \ {0}
      /\ \A i \in 1..n : s[i] \in Rec /\ s[i].addr # 0
  BY <1>1 DEF RecsOK
<1>3. PICK t : t = [s EXCEPT ![k].addr = 0]
  OBVIOUS
<1>4. /\ t \in Seq(Rec) /\ Len(t) = n /\ DOMAIN t = 1..n /\ t # <<>>
      /\ t[k] \in Rec /\ t[k].addr = 0 /\ \A i \in 1..n : i # k => t[i] = s[i]
  <2>1. t = [i \in 1..n |-> IF i = k THEN [s[k] EXCEPT !.addr = 0] ELSE s[i]]
    BY <1>1, <1>2, <1>3
  <2>2. [s[k] EXCEPT !.addr = 0] \in Rec /\ [s[k] EXCEPT !.addr = 0].addr = 0
    BY <1>2 DEF Rec
  <2>3. \A i \in 1..n : t[i] \in Rec
    BY <1>2, <2>1, <2>2
  <2>4. t \in [1..n -> Rec]
    BY <2>1, <2>3
  <2>5. t \in Seq(Rec) /\ Len(t) = n
    BY <2>4
  <2> QED BY <1>2, <2>1, <2>2, <2>5
<1>5. \A i, j \in 1..n : i < j => s[i].addr < s[j].addr
  BY <1>2 DEF RecsOK, Sorted
<1>6. \A i \in 1..n : s[i].addr \in Nat
  BY <1>2 DEF Rec
<1>7. \A i, j \in 1..n : s[i].addr = s[j].addr => i = j
  <2>1. \A i, j \in 1..n : i < j \/ j < i \/ i = j
    OBVIOUS
  <2> QED BY <1>5, <1>6, <2>1
<1>8. \A i, j \in 1..n : i < j => compare(s[i], s[j]) <= 0
  <2> TAKE i, j \in 1..n
  <2> HAVE i < j
  <2>1. s[i].addr - s[j].addr < IntRange /\ s[j].addr - s[i].addr < IntRange
    BY <1>2 DEF Near
  <2>2. s[i] \in Rec /\ s[j] \in Rec /\ s[i].addr # 0 /\ s[j].addr # 0 /\ s[i].addr <= s[j].addr
    BY <1>2, <1>5, <1>6
  <2> QED BY <2>1, <2>2, CompareIs
<1>9. PICK p \in Bijection(1..n, 1..n) :
        /\ p[n] = k
        /\ \A i, j \in 1..n : i < j /\ j # n => p[i] < p[j] /\ p[j] # k /\ p[i] # k
        /\ \A i \in 1..n : i # n => p[i] # k
  BY <1>2, EndExists
<1>10. Agreed(Arranged(t, p)) /\ p \in Bijection(DOMAIN t, DOMAIN t)
  <2>1. \A i \in 1..n : p[i] \in 1..n
    BY PermutationIs
  <2>2. ASSUME NEW i \in 1..n, NEW j \in 1..n, i < j PROVE compare(t[p[i]], t[p[j]]) <= 0
    <3>1. CASE j = n
      <4>1. t[p[j]].addr = 0 /\ t[p[i]] = s[p[i]] /\ s[p[i]].addr # 0
        BY <1>2, <1>4, <1>9, <2>1, <2>2, <3>1
      <4> QED BY <4>1 DEF compare
    <3>2. CASE j # n
      <4>1. t[p[j]] = s[p[j]] /\ t[p[i]] = s[p[i]] /\ p[i] < p[j]
        BY <1>4, <1>9, <2>1, <2>2, <3>2
      <4> QED BY <1>8, <2>1, <4>1
    <3> QED BY <3>1, <3>2
  <2>3. DOMAIN Arranged(t, p) = 1..n /\ \A i \in 1..n : Arranged(t, p)[i] = t[p[i]]
    BY <1>4, ArrangementIs
  <2> QED BY <1>4, <2>2, <2>3 DEF Agreed
<1>11. PICK u \in qsort(t) : r = SubSeq(u, 1, Len(u) - 1)
  BY <1>3 DEF linear_malloc_index_delete
<1>12. PICK w \in Bijection(DOMAIN t, DOMAIN t) : u = Arranged(t, w) /\ Agreed(u)
  BY <1>4, <1>10, QsortIs
<1>13. w \in Bijection(1..n, 1..n)
  BY <1>4
<1>14. u \in Seq(Rec) /\ Len(u) = n /\ DOMAIN u = 1..n /\ \A i \in 1..n : u[i] = t[w[i]]
  BY <1>4, <1>12, <1>13, ArrangementIs
<1>15. (\A i \in 1..n : w[i] \in 1..n) /\ \A i, j \in 1..n : w[i] = w[j] => i = j
  BY <1>13, PermutationIs
<1>16. \A j \in 1..n : \E i \in 1..n : w[i] = j
  BY <1>13, PermutationIs
<1>17. w[n] = k
  <2>1. PICK v \in 1..n : w[v] = k
    BY <1>2, <1>16
  <2>2. SUFFICES ASSUME v # n PROVE FALSE
    BY <2>1
  <2>3. v < n /\ n \in 1..n
    BY <1>2, <2>2
  <2>4. w[n] # k
    BY <1>15, <2>1, <2>2, <2>3
  <2>5. u[v].addr = 0 /\ u[n].addr # 0
    BY <1>2, <1>4, <1>14, <1>15, <2>1, <2>3, <2>4
  <2>6. compare(u[v], u[n]) = 1
    BY <2>5 DEF compare
  <2> QED BY <1>12, <1>14, <2>3, <2>6 DEF Agreed
<1>18. \A i \in 1..(n - 1) : i \in 1..n /\ w[i] \in 1..n /\ w[i] # k
  <2>1. \A i \in 1..(n - 1) : i \in 1..n /\ i # n /\ n \in 1..n
    BY <1>2
  <2> QED BY <1>15, <1>17, <2>1
<1>19. r \in Seq(Rec) /\ DOMAIN r = 1..(n - 1) /\ \A i \in 1..(n - 1) : r[i] = s[w[i]]
  <2>1. r \in Seq(Rec) /\ DOMAIN r = 1..(n - 1) /\ \A i \in 1..(n - 1) : r[i] = u[i]
    BY <1>2, <1>11, <1>14
  <2> QED BY <1>4, <1>14, <1>18, <2>1
<1>20. RecsOK(r)
  <2>1. ASSUME NEW i \in 1..(n - 1), NEW j \in 1..(n - 1) PROVE r[i].addr - r[j].addr < IntRange
    BY <1>2, <1>18, <1>19 DEF Near
  <2>2. ASSUME NEW i \in 1..(n - 1) PROVE r[i].addr # 0
    BY <1>2, <1>18, <1>19
  <2>3. ASSUME NEW i \in 1..(n - 1), NEW j \in 1..(n - 1), r[i].addr = r[j].addr PROVE i = j
    <3>1. w[i] = w[j]
      BY <1>7, <1>18, <1>19, <2>3
    <3> QED BY <1>15, <1>18, <3>1
  <2>4. Near(r)
    BY <1>19, <2>1 DEF Near
  <2>5. \A i \in 1..(n - 1) : r[i] = u[i]
    BY <1>4, <1>14, <1>18, <1>19
  <2>6. Agreed(r)
    BY <1>12, <1>14, <1>18, <1>19, <2>5 DEF Agreed
  <2> QED BY <1>19, <2>2, <2>3, <2>4, <2>6, AgreedIsSorted
<1>21. ASSUME NEW y, NEW i \in 1..(n - 1), r[i] = y PROVE (\E j \in 1..n : s[j] = y) /\ y # s[k]
  <2>1. y = s[w[i]] /\ w[i] \in 1..n /\ w[i] # k
    BY <1>18, <1>19, <1>21
  <2>2. s[w[i]].addr # s[k].addr
    BY <1>2, <1>7, <2>1
  <2> QED BY <2>1, <2>2
<1>22. ASSUME NEW y, NEW j \in 1..n, s[j] = y, y # s[k] PROVE \E i \in 1..(n - 1) : r[i] = y
  <2>1. PICK i \in 1..n : w[i] = j
    BY <1>16, SMTT(20)
  <2>2. i # n
    BY <1>17, <1>22, <2>1
  <2>3. i \in 1..(n - 1)
    BY <1>2, <2>2
  <2> QED BY <1>19, <1>22, <2>1, <2>3
<1>23. \A y : Among(y, r) <=> Among(y, s) /\ y # s[k]
  BY <1>2, <1>19, <1>21, <1>22, Zenon DEF Among
<1> QED BY <1>20, <1>23

-----------------------------------------------------------------------------
(* Sizes and addresses. *)

\* Division with a remainder.
LEMMA Quotient ==
    ASSUME NEW w \in Nat \ {0}, NEW n \in Nat
    PROVE  n = w * (n \div w) + (n % w) /\ n % w \in 0..(w - 1) /\ n \div w \in Nat
OBVIOUS

\* Multiplying by the word keeps the order, with a word to spare.
LEMMA OrderTimes ==
    ASSUME NEW w \in Nat \ {0}, NEW i \in Nat, NEW j \in Nat, i < j
    PROVE  w * i + w <= w * j /\ w * i \in Nat /\ w * j \in Nat
<1>1. PICK d \in Nat : j = i + 1 + d
  <2>1. j - i - 1 \in Nat /\ j = i + 1 + (j - i - 1)
    OBVIOUS
  <2> QED BY <2>1
<1>2. w * d \in Nat /\ w * j = w * i + w + w * d
  BY <1>1
<1> QED BY <1>2

\* A multiple of the word has no remainder.
LEMMA MultipleIs ==
    ASSUME NEW w \in Nat \ {0}, NEW k \in Nat
    PROVE  w * k \in Nat /\ (w * k) % w = 0
<1>1. PICK n \in Nat : n = w * k
  OBVIOUS
<1>2. PICK q \in Nat, r \in 0..(w - 1) : n = w * q + r /\ r = n % w
  BY Quotient
<1>3. CASE q < k
  BY <1>1, <1>2, <1>3, OrderTimes
<1>4. CASE k < q
  BY <1>1, <1>2, <1>4, OrderTimes
<1>5. CASE k = q
  <2>1. n = n + r
    BY <1>1, <1>2, <1>5
  <2>2. r = 0
    BY <2>1
  <2> QED BY <1>1, <1>2, <2>2
<1> QED BY <1>1, <1>3, <1>4, <1>5

\* PAD_TO_ALIGN(n) is the least multiple of the word that is n or more.
LEMMA PadIs ==
    ASSUME NEW n \in Nat
    PROVE  /\ PAD_TO_ALIGN(n) \in Nat /\ n <= PAD_TO_ALIGN(n) /\ PAD_TO_ALIGN(n) % Word = 0
           /\ \A hi \in Nat : n <= hi /\ hi % Word = 0 => PAD_TO_ALIGN(n) <= hi
<1>1. Word \in Nat \ {0}
  BY LinearMallocAssumption
<1>2. CASE n % Word = 0
  BY <1>2 DEF PAD_TO_ALIGN
<1>3. CASE n % Word # 0
  <2>1. PICK q \in Nat, r \in 0..(Word - 1) : n = Word * q + r /\ r = n % Word
    BY <1>1, Quotient
  <2>2. r # 0 /\ Word * q \in Nat /\ Word * (q + 1) = Word * q + Word
    BY <1>1, <1>3, <2>1
  <2>3. PAD_TO_ALIGN(n) = n + Word - r
    BY <1>3, <2>1 DEF PAD_TO_ALIGN
  <2>4. PAD_TO_ALIGN(n) = Word * q + Word /\ PAD_TO_ALIGN(n) = Word * (q + 1)
    BY <1>1, <2>1, <2>2, <2>3
  <2>5. PAD_TO_ALIGN(n) \in Nat /\ n <= PAD_TO_ALIGN(n)
    BY <1>1, <2>1, <2>2, <2>4
  <2>6. PAD_TO_ALIGN(n) % Word = 0
    BY <1>1, <2>1, <2>4, MultipleIs
  <2>7. ASSUME NEW hi \in Nat, n <= hi, hi % Word = 0 PROVE PAD_TO_ALIGN(n) <= hi
    <3>1. PICK k \in Nat : hi = Word * k
      <4>1. PICK k \in Nat : hi = Word * k + 0
        BY <1>1, <2>7, Quotient
      <4>2. Word * k \in Nat
        BY <1>1
      <4> QED BY <4>1, <4>2
    <3>2. q < k
      <4>1. SUFFICES ASSUME ~(q < k) PROVE FALSE
        OBVIOUS
      <4>2. k = q \/ k < q
        BY <4>1
      <4>3. Word * k <= Word * q
        BY <1>1, <4>2, OrderTimes
      <4> QED BY <1>1, <2>1, <2>2, <2>7, <3>1, <4>3
    <3>3. Word * q + Word <= Word * k
      BY <1>1, <3>2, OrderTimes
    <3> QED BY <2>4, <3>1, <3>3
  <2> QED BY <2>5, <2>6, <2>7
<1> QED BY <1>2, <1>3

\* What is asked of the malloc holds the request and the insert, and the size it
\* is recorded with by a reallocation is padded no further.
LEMMA SizeIs ==
    ASSUME NEW n \in Nat
    PROVE  /\ CHUNK_SIZE_WITH_TRAILER(n) \in Nat \ {0} /\ n + InsertSize <= CHUNK_SIZE_WITH_TRAILER(n)
           /\ ReinsertedSize(CHUNK_SIZE_WITH_TRAILER(n)) \in Nat
           /\ CHUNK_SIZE_WITH_TRAILER(ReinsertedSize(CHUNK_SIZE_WITH_TRAILER(n)))
                = CHUNK_SIZE_WITH_TRAILER(n)
<1>1. InsertSize \in Nat \ {0} /\ n + InsertSize \in Nat
  BY LinearMallocAssumption
<1>2. PICK m : m = CHUNK_SIZE_WITH_TRAILER(n)
  OBVIOUS
<1>3. m \in Nat /\ n + InsertSize <= m /\ m % Word = 0
  BY <1>1, <1>2, PadIs DEF CHUNK_SIZE_WITH_TRAILER
<1>4. ReinsertedSize(m) \in Nat /\ ReinsertedSize(m) + InsertSize = m
  BY <1>1, <1>3 DEF ReinsertedSize
<1>5. CHUNK_SIZE_WITH_TRAILER(ReinsertedSize(m)) = m
  BY <1>3, <1>4 DEF CHUNK_SIZE_WITH_TRAILER, PAD_TO_ALIGN
<1> QED BY <1>1, <1>2, <1>3, <1>4, <1>5

-----------------------------------------------------------------------------
(* The inductive invariant, over the values of the variables: M, A, C, b, s are *)
(* those of mappings, arenas, chunks, bump and recs.                           *)

IsMapping(m) ==
    /\ m = [lo |-> m.lo, hi |-> m.hi, file |-> m.file]
    /\ m.lo \in Nat \ {0} /\ m.hi \in Nat /\ m.file \in Nat /\ m.lo < m.hi
    /\ m.hi % Word = 0 /\ (m.file = 0 \/ m.file \in m.lo..m.hi)
MapsOK(M) ==
    /\ M # {} /\ \A m \in M : IsMapping(m)
    /\ \A m, n \in M : m.hi - n.lo < IntRange
    /\ \A m, n \in M : m # n => m.hi <= n.lo \/ n.hi <= m.lo

IsHeld(c) ==
    /\ c = [addr |-> c.addr, requested |-> c.requested, size |-> c.size]
    /\ c.addr \in Nat \ {0} /\ c.requested \in Nat \ {0} /\ c.size \in Nat
    /\ c.requested + InsertSize <= c.size
\* A chunk is in the part of a mapping that can be an arena.
InArena(c, a) == a.lo <= c.addr /\ c.addr + c.size <= a.hi
Apart(c, d) == c.addr + c.size <= d.addr \/ d.addr + d.size <= c.addr
ChunksOK(C, M) ==
    /\ \A c \in C : IsHeld(c) /\ \E m \in M : InArena(c, NewArena(m))
    /\ \A c, d \in C : c # d => Apart(c, d)

\* What is left of the mapping that the malloc allocates from is free, and only
\* the last block is between its start and what is left.
BumpOK(b, C, M) ==
    /\ b = <<b[1], b[2], b[3]>> /\ b[1] \in Nat /\ b[2] \in Nat /\ b[3] \in Nat
    /\ b[3] <= b[1] /\ b[1] <= b[2]
    /\ \E m \in M : /\ m.hi = b[2] /\ NewArena(m).lo <= b[1]
                    /\ b[3] = 0 \/ NewArena(m).lo <= b[3]
    /\ \A c \in C : IF c.addr = b[3] THEN c.addr + c.size <= b[1]
                    ELSE c.addr + c.size <= b[3] \/ b[2] <= c.addr

Recorded(c, r) ==
    /\ r.addr = c.addr /\ c.requested <= r.requested
    /\ r.requested + r.padding + InsertSize = c.size
MirrorOK(s, C) ==
    /\ RecsOK(s)
    /\ \A i \in DOMAIN s : \E c \in C : Recorded(c, s[i])
    /\ \A c \in C : \E i \in DOMAIN s : Recorded(c, s[i])

ArenasOK(A, M) == \A a \in A : \E m \in M : a = NewArena(m)
Covered(C, A) == \A c \in C : \E a \in A : InArena(c, a)

LinearInv ==
    /\ MapsOK(mappings) /\ ChunksOK(chunks, mappings) /\ BumpOK(bump, chunks, mappings)
    /\ MirrorOK(recs, chunks) /\ ArenasOK(arenas, mappings)
    /\ started \in BOOLEAN /\ (started => Covered(chunks, arenas)) /\ (~started => arenas = {})
    /\ failed = FALSE

\* An arena is the part of its mapping that is above the file.
LEMMA ArenaIs ==
    ASSUME NEW m, IsMapping(m)
    PROVE  /\ NewArena(m).lo \in m.lo..m.hi /\ NewArena(m).hi = m.hi /\ m.file <= NewArena(m).lo
           /\ NewArena(m).lo \in Nat \ {0} /\ m.lo <= NewArena(m).lo
BY DEF NewArena, IsMapping

\* find_linear_malloc_rec finds, for any requested byte of a chunk, its record.
LEMMA FindIs ==
    ASSUME NEW s, NEW C, NEW M, MirrorOK(s, C), ChunksOK(C, M), NEW c \in C,
           NEW obj \in c.addr..(c.addr + c.requested - 1)
    PROVE  \E i \in DOMAIN s : Recorded(c, s[i]) /\ find_linear_malloc_rec(s, obj) = {i}
<1>1. PICK i \in DOMAIN s : Recorded(c, s[i])
  BY DEF MirrorOK
<1>2. PICK n \in Nat : DOMAIN s = 1..n
  BY DEF MirrorOK, RecsOK
<1>3. \A j \in 1..n : s[j].addr \in Nat /\ s[j].requested \in Nat
  <2>1. \A j \in 1..n : s[j] \in Rec
    BY <1>2 DEF MirrorOK, RecsOK
  <2> QED BY <2>1 DEF Rec
<1>4. IsHeld(c) /\ InsertSize \in Nat /\ obj \in Nat
  BY LinearMallocAssumption DEF ChunksOK, IsHeld
<1>5. PICK T : T = {j \in DOMAIN s : s[j].addr <= obj}
  OBVIOUS
<1>6. i \in T
  BY <1>1, <1>4, <1>5 DEF Recorded
<1>7. ASSUME NEW j \in T PROVE j <= i
  <2>1. SUFFICES ASSUME i < j PROVE FALSE
    BY <1>2, <1>5
  <2>2. c.addr < s[j].addr /\ s[j].addr <= obj
    BY <1>1, <1>5, <2>1 DEF MirrorOK, RecsOK, Sorted, Recorded
  <2>3. PICK d \in C : Recorded(d, s[j])
    BY <1>5 DEF MirrorOK
  <2>4. d # c /\ Apart(c, d) /\ IsHeld(d)
    BY <1>4, <2>2, <2>3 DEF Recorded, ChunksOK, IsHeld
  <2> QED BY <1>4, <2>2, <2>3, <2>4 DEF Recorded, Apart, IsHeld
<1>8. Max(T) = i
  <2>1. T \subseteq Nat
    BY <1>2, <1>5
  <2>2. \A x \in T : (\A y \in T : x >= y) => x = i
    BY <1>6, <1>7, <2>1
  <2>3. i \in T /\ \A y \in T : i >= y
    BY <1>6, <1>7, <2>1
  <2> QED BY <2>2, <2>3 DEF Max
<1>9. Spanning(s[i], obj)
  BY <1>1, <1>2, <1>3, <1>4 DEF Recorded, Spanning, IsHeld
<1>10. find_linear_malloc_rec(s, obj) = {j \in T : j = Max(T) /\ Spanning(s[j], obj)}
  BY <1>5 DEF find_linear_malloc_rec
<1>11. find_linear_malloc_rec(s, obj) = {i}
  BY <1>6, <1>8, <1>9, <1>10
<1> QED BY <1>1, <1>11

\* Addresses of blocks are near each other, as those of mappings are.
LEMMA ChunksNear ==
    ASSUME NEW C, NEW M, ChunksOK(C, M), MapsOK(M), NEW c \in C, NEW d \in C
    PROVE  c.addr - d.addr < IntRange
<1>1. PICK m \in M, n \in M : InArena(c, NewArena(m)) /\ InArena(d, NewArena(n))
  BY DEF ChunksOK
<1>2. IsMapping(m) /\ IsMapping(n) /\ IsHeld(c) /\ IsHeld(d) /\ m.hi - n.lo < IntRange
  BY DEF MapsOK, ChunksOK
<1>3. c.addr <= m.hi /\ n.lo <= d.addr
  BY <1>1, <1>2, ArenaIs DEF InArena, IsHeld, IsMapping
<1> QED BY <1>2, <1>3, LinearMallocAssumption DEF IsHeld, IsMapping

\* So are those of their records.
LEMMA RecsNear ==
    ASSUME NEW s, NEW C, NEW M, MirrorOK(s, C), ChunksOK(C, M), MapsOK(M)
    PROVE  Near(s)
<1>1. SUFFICES ASSUME NEW i \in DOMAIN s, NEW j \in DOMAIN s
               PROVE  s[i].addr - s[j].addr < IntRange
  BY DEF Near
<1>2. PICK c \in C, d \in C : c.addr = s[i].addr /\ d.addr = s[j].addr
  BY DEF MirrorOK, Recorded
<1> QED BY <1>2, ChunksNear

\* ensure_bigalloc_for_userptr finds or creates the arena of an address that is in
\* the part of a mapping that can be one; it does not abort.
LEMMA EnsureIs ==
    ASSUME NEW M, MapsOK(M), NEW A, ArenasOK(A, M), NEW m \in M, NEW addr \in Nat,
           NewArena(m).lo <= addr, addr < m.hi
    PROVE  /\ ensure_bigalloc(A, M, addr) # {}
           /\ \A B \in ensure_bigalloc(A, M, addr) :
                A \subseteq B /\ ArenasOK(B, M) /\ NewArena(m) \in B
<1>1. IsMapping(m) /\ NewArena(m).lo \in Nat /\ NewArena(m).hi = m.hi
      /\ m.lo <= NewArena(m).lo /\ m.file <= NewArena(m).lo
  BY ArenaIs DEF MapsOK
<1>2. ASSUME NEW n \in M, n.lo <= addr, addr < n.hi PROVE n = m
  BY <1>1, <1>2 DEF MapsOK, IsMapping
<1>3. CASE \E a \in A : a.lo <= addr /\ addr < a.hi
  <2>1. PICK a \in A : a.lo <= addr /\ addr < a.hi
    BY <1>3
  <2>2. PICK n \in M : a = NewArena(n)
    BY DEF ArenasOK
  <2>3. IsMapping(n) /\ n.lo <= NewArena(n).lo /\ NewArena(n).hi = n.hi /\ NewArena(n).lo \in Nat
    BY ArenaIs DEF MapsOK
  <2>4. n = m
    BY <1>2, <2>1, <2>2, <2>3 DEF IsMapping
  <2>5. ensure_bigalloc(A, M, addr) = {A}
    BY <1>3 DEF ensure_bigalloc
  <2> QED BY <2>2, <2>4, <2>5
<1>4. CASE ~\E a \in A : a.lo <= addr /\ addr < a.hi
  <2>1. \A n \in MappingOf(M, addr) : n = m
    BY <1>2 DEF MappingOf
  <2>2. m \in MappingOf(M, addr) /\ m.file <= addr
    BY <1>1 DEF MappingOf, IsMapping
  <2>3. ASSUME NEW a \in A PROVE a.hi <= NewArena(m).lo \/ NewArena(m).hi <= a.lo
    <3>1. PICK n \in M : a = NewArena(n)
      BY DEF ArenasOK
    <3>2. IsMapping(n) /\ n.lo <= a.lo /\ a.hi = n.hi /\ a.lo \in Nat
      BY <3>1, ArenaIs DEF MapsOK
    <3>3. n # m
      BY <1>1, <1>4, <3>1
    <3>4. n.hi <= m.lo \/ m.hi <= n.lo
      BY <3>3 DEF MapsOK
    <3> QED BY <1>1, <3>2, <3>4 DEF IsMapping
  <2>4. ensure_bigalloc(A, M, addr) = {A \cup {NewArena(m)}}
    BY <1>4, <2>1, <2>2, <2>3 DEF ensure_bigalloc
  <2>5. ArenasOK(A \cup {NewArena(m)}, M)
    BY DEF ArenasOK
  <2> QED BY <2>4, <2>5
<1> QED BY <1>3, <1>4

\* The loop of __ld_so_malloc_allocator_init creates the arenas of all records.
EnsureLoop(s, M, n, f) ==
    [i \in 0..n |->
        IF i = 0 THEN {{}} ELSE UNION {ensure_bigalloc(A, M, s[i].addr) : A \in f[i - 1]}]

\* The recursion over the records defines a function.
LEMMA EnsureLoopExists ==
    ASSUME NEW s, NEW M, NEW n \in Nat
    PROVE  \E f : f = EnsureLoop(s, M, n, f)
<1> DEFINE Next1(f, i) == UNION {ensure_bigalloc(A, M, s[i].addr) : A \in f[i - 1]}
<1>1. PICK T : T = {m \in Nat : ~\E f : f = EnsureLoop(s, M, m, f)}
  OBVIOUS
<1>2. SUFFICES ASSUME T # {} PROVE FALSE
  BY <1>1
<1>3. PICK m \in T : \A k \in T : m <= k
  BY <1>1, <1>2, LeastNat
<1>4. m \in Nat /\ ~\E f : f = EnsureLoop(s, M, m, f)
  BY <1>1
<1>5. CASE m = 0
  <2>1. PICK f : f = [i \in 0..0 |-> {{}}]
    OBVIOUS
  <2>2. \A i \in 0..0 : i = 0
    OBVIOUS
  <2>3. f = EnsureLoop(s, M, 0, f)
    BY <2>1, <2>2 DEF EnsureLoop
  <2> QED BY <1>4, <1>5, <2>3
<1>6. CASE m # 0
  <2>1. m - 1 \in Nat /\ ~(m <= m - 1)
    BY <1>4, <1>6
  <2>2. PICK f : f = EnsureLoop(s, M, m - 1, f)
    BY <1>1, <1>3, <2>1
  <2> HIDE DEF Next1
  <2>3. PICK g : g = [i \in 0..m |-> IF i = m THEN Next1(f, m) ELSE f[i]]
    OBVIOUS
  <2>4. ASSUME NEW i \in 0..m
        PROVE  g[i] = IF i = 0 THEN {{}} ELSE Next1(g, i)
    <3>1. CASE i = m
      <4>1. m - 1 \in 0..m /\ m - 1 # m
        BY <1>4, <1>6
      <4>2. g[m - 1] = f[m - 1] /\ g[i] = Next1(f, m)
        BY <2>3, <3>1, <4>1
      <4>3. Next1(g, m) = Next1(f, m)
        BY <4>2 DEF Next1
      <4> QED BY <1>6, <3>1, <4>2, <4>3
    <3>2. CASE i # m
      <4>1. i \in 0..(m - 1) /\ i # m /\ (i # 0 => i - 1 \in 0..m /\ i - 1 # m)
        BY <1>4, <3>2
      <4>2. g[i] = f[i] /\ (i # 0 => g[i - 1] = f[i - 1])
        BY <2>3, <4>1
      <4>3. f[i] = EnsureLoop(s, M, m - 1, f)[i]
        BY <2>2
      <4>4. f[i] = IF i = 0 THEN {{}} ELSE Next1(f, i)
        BY <4>1, <4>3 DEF EnsureLoop, Next1
      <4>5. i # 0 => Next1(g, i) = Next1(f, i)
        BY <4>2 DEF Next1
      <4> QED BY <4>2, <4>4, <4>5
    <3> QED BY <3>1, <3>2
  <2>5. g = [i \in 0..m |-> g[i]]
    BY <2>3
  <2>6. g = EnsureLoop(s, M, m, g)
    BY <2>4, <2>5 DEF EnsureLoop, Next1
  <2> QED BY <1>4, <2>6
<1> QED BY <1>5, <1>6

\* The sets of arenas in S are those of the first n records.
EnsuredUpto(s, M, S, n) ==
    /\ S # {}
    /\ \A B \in S : /\ ArenasOK(B, M)
                    /\ \A i \in 1..n, m \in M :
                         NewArena(m).lo <= s[i].addr /\ s[i].addr < m.hi => NewArena(m) \in B

\* The loop does not abort, and leaves an arena for every record.
LEMMA EnsuredAll ==
    ASSUME NEW M, MapsOK(M), NEW s \in Seq(Rec),
           \A i \in DOMAIN s : \E m \in M : NewArena(m).lo <= s[i].addr /\ s[i].addr < m.hi
    PROVE  EnsuredUpto(s, M, EnsureAll(s, M), Len(s))
<1>1. PICK n \in Nat : n = Len(s)
  OBVIOUS
<1>2. DOMAIN s = 1..n /\ \A i \in 1..n : s[i].addr \in Nat
  <2>1. DOMAIN s = 1..n /\ \A i \in 1..n : s[i] \in Rec
    BY <1>1
  <2> QED BY <2>1 DEF Rec
<1>3. PICK g : g = CHOOSE f : f = EnsureLoop(s, M, n, f)
  OBVIOUS
<1>4. g = EnsureLoop(s, M, n, g)
  BY <1>3, EnsureLoopExists
<1>5. EnsureAll(s, M) = g[n]
  BY <1>1, <1>3 DEF EnsureAll, EnsureLoop
<1>6. \A i \in 0..n : g[i] = IF i = 0 THEN {{}}
                             ELSE UNION {ensure_bigalloc(A, M, s[i].addr) : A \in g[i - 1]}
  <2> TAKE i \in 0..n
  <2>1. g[i] = EnsureLoop(s, M, n, g)[i]
    BY <1>4
  <2> QED BY <2>1 DEF EnsureLoop
<1>7. PICK T : T = {k \in 0..n : ~EnsuredUpto(s, M, g[k], k)}
  OBVIOUS
<1>8. SUFFICES ASSUME T # {} PROVE FALSE
  BY <1>1, <1>5, <1>7
<1>9. PICK k \in T : \A j \in T : k <= j
  <2>1. T \subseteq Nat
    BY <1>7
  <2> QED BY <1>8, <2>1, LeastNat
<1>10. k \in 0..n /\ ~EnsuredUpto(s, M, g[k], k)
  BY <1>7
<1>11. k # 0
  <2>1. g[0] = {{}}
    <3>1. 0 \in 0..n
      OBVIOUS
    <3> QED BY <1>6, <3>1
  <2>2. EnsuredUpto(s, M, {{}}, 0)
    BY DEF EnsuredUpto, ArenasOK
  <2> QED BY <1>10, <2>1, <2>2
<1>12. k - 1 \in 0..n /\ ~(k <= k - 1) /\ k \in 1..n
  BY <1>10, <1>11
<1>13. EnsuredUpto(s, M, g[k - 1], k - 1)
  BY <1>7, <1>9, <1>12
<1>14. g[k] = UNION {ensure_bigalloc(A, M, s[k].addr) : A \in g[k - 1]}
  BY <1>6, <1>10, <1>11
<1>15. PICK x \in M : NewArena(x).lo <= s[k].addr /\ s[k].addr < x.hi
  BY <1>2, <1>12
<1>16. g[k] # {}
  <2>1. PICK A \in g[k - 1] : ArenasOK(A, M)
    BY <1>13 DEF EnsuredUpto
  <2>2. ensure_bigalloc(A, M, s[k].addr) # {}
    BY <1>2, <1>12, <1>15, <2>1, EnsureIs
  <2> QED BY <1>14, <2>2
<1>17. ASSUME NEW B \in g[k]
       PROVE  /\ ArenasOK(B, M)
              /\ \A i \in 1..k, m \in M :
                   NewArena(m).lo <= s[i].addr /\ s[i].addr < m.hi => NewArena(m) \in B
  <2>1. PICK A \in g[k - 1] : B \in ensure_bigalloc(A, M, s[k].addr)
    BY <1>14
  <2>2. ArenasOK(A, M) /\ \A i \in 1..(k - 1), m \in M :
                   NewArena(m).lo <= s[i].addr /\ s[i].addr < m.hi => NewArena(m) \in A
    BY <1>13 DEF EnsuredUpto
  <2>3. \A m \in M : NewArena(m).lo <= s[k].addr /\ s[k].addr < m.hi =>
                       A \subseteq B /\ ArenasOK(B, M) /\ NewArena(m) \in B
    BY <1>2, <1>12, <2>1, <2>2, EnsureIs
  <2>4. A \subseteq B /\ ArenasOK(B, M)
    BY <1>15, <2>3
  <2>5. \A i \in 1..k : i = k \/ i \in 1..(k - 1)
    BY <1>12
  <2> QED BY <2>2, <2>3, <2>4, <2>5
<1> QED BY <1>10, <1>16, <1>17 DEF EnsuredUpto

-----------------------------------------------------------------------------
(* Where the malloc of ld.so puts a block. *)

\* A region that the kernel maps becomes a mapping, or the end of the one below.
LEMMA RegionIs ==
    ASSUME NEW M, MapsOK(M), NEW r \in Regions,
           \A m \in M : m.hi <= r[1] \/ r[2] <= m.lo,
           \A m \in M : m.hi - r[1] < IntRange /\ r[2] - m.lo < IntRange
    PROVE  /\ MapsOK(WithRegion(M, r))
           /\ \E g \in WithRegion(M, r) :
                /\ g.hi = r[2] /\ NewArena(g).lo <= r[1]
                /\ \A m \in M : m.hi = r[1] => NewArena(g).lo = NewArena(m).lo
           /\ \A m \in M : m.hi # r[1] => m \in WithRegion(M, r)
<1> DEFINE W == WithRegion(M, r)
<1>1. r[1] \in Nat \ {0} /\ r[2] \in Nat /\ r[1] < r[2] /\ r[2] % Word = 0 /\ IntRange \in Nat
  BY LinearMallocAssumption
<1>2. \A m \in M : IsMapping(m)
  BY DEF MapsOK
<1>3. \E g \in W : /\ IsMapping(g) /\ g.hi = r[2] /\ NewArena(g).lo <= r[1]
                   /\ \A x \in W : x = g \/ (x \in M /\ x.hi # r[1])
                   /\ \A m \in M : m.hi # r[1] => m \in W /\ (m.hi <= g.lo \/ r[2] <= m.lo)
                   /\ \A m \in M : m.hi = r[1] => NewArena(g).lo = NewArena(m).lo
                   /\ \A m \in M : m.hi - g.lo < IntRange
                   /\ r[2] - g.lo < IntRange
  <2>1. CASE \E m \in M : m.hi = r[1]
    <3>1. PICK m \in M : m.hi = r[1]
      BY <2>1
    <3>2. \A n \in M : n.hi = r[1] => n = m
      BY <1>2, <3>1 DEF MapsOK, IsMapping
    <3>3. PICK g : g = [m EXCEPT !.hi = r[2]]
      OBVIOUS
    <3>4. g = [lo |-> m.lo, hi |-> r[2], file |-> m.file]
      <4>1. m = [lo |-> m.lo, hi |-> m.hi, file |-> m.file]
        BY <1>2 DEF IsMapping
      <4> QED BY <3>3, <4>1
    <3>5. W = {IF n.hi = r[1] THEN [n EXCEPT !.hi = r[2]] ELSE n : n \in M}
      BY <2>1 DEF WithRegion
    <3>6. g \in W /\ \A n \in M : n.hi # r[1] => n \in W
      BY <3>1, <3>3, <3>5
    <3>7. \A x \in W : x = g \/ (x \in M /\ x.hi # r[1])
      <4> TAKE x \in W
      <4>1. PICK n \in M : x = IF n.hi = r[1] THEN [n EXCEPT !.hi = r[2]] ELSE n
        BY <3>5
      <4> QED BY <3>2, <3>3, <4>1
    <3>8. IsMapping(g) /\ g.hi = r[2] /\ g.lo = m.lo
      BY <1>1, <1>2, <3>1, <3>4 DEF IsMapping
    <3>9. NewArena(g).lo = NewArena(m).lo /\ NewArena(m).lo <= r[1]
      <4>1. NewArena(m).lo <= r[1]
        BY <1>2, <3>1, ArenaIs
      <4> QED BY <3>4, <4>1 DEF NewArena
    <3>10. ASSUME NEW n \in M, n.hi # r[1] PROVE n.hi <= g.lo \/ r[2] <= n.lo
      <4>1. n.hi <= m.lo \/ m.hi <= n.lo
        BY <3>1, <3>10 DEF MapsOK
      <4> QED BY <1>1, <1>2, <3>1, <3>8, <4>1 DEF IsMapping
    <3>11. \A n \in M : n.hi - g.lo < IntRange
      BY <3>8 DEF MapsOK
    <3>12. r[2] - g.lo < IntRange
      BY <3>8
    <3>13. \A n \in M : n.hi = r[1] => NewArena(g).lo = NewArena(n).lo
      BY <3>2, <3>9
    <3> QED BY <3>6, <3>7, <3>8, <3>9, <3>10, <3>11, <3>12, <3>13
  <2>2. CASE ~\E m \in M : m.hi = r[1]
    <3>1. PICK g : g = [lo |-> r[1], hi |-> r[2], file |-> 0]
      OBVIOUS
    <3>2. W = M \cup {g}
      BY <2>2, <3>1 DEF WithRegion
    <3>3. IsMapping(g) /\ g.lo = r[1] /\ g.hi = r[2] /\ NewArena(g).lo = r[1]
      BY <1>1, <3>1 DEF IsMapping, NewArena
    <3>4. r[2] - r[1] < IntRange
      <4>1. PICK m \in M : TRUE
        BY DEF MapsOK
      <4>2. m.lo \in Nat /\ m.hi \in Nat /\ m.lo < m.hi
        BY <1>2 DEF IsMapping
      <4>3. (m.hi <= r[1] \/ r[2] <= m.lo) /\ m.hi - r[1] < IntRange /\ r[2] - m.lo < IntRange
        OBVIOUS
      <4> QED BY <1>1, <4>2, <4>3
    <3> QED BY <1>1, <2>2, <3>2, <3>3, <3>4
  <2> QED BY <2>1, <2>2
<1>4. PICK g \in W : /\ IsMapping(g) /\ g.hi = r[2] /\ NewArena(g).lo <= r[1]
                     /\ \A x \in W : x = g \/ (x \in M /\ x.hi # r[1])
                     /\ \A m \in M : m.hi # r[1] => m \in W /\ (m.hi <= g.lo \/ r[2] <= m.lo)
                     /\ \A m \in M : m.hi = r[1] => NewArena(g).lo = NewArena(m).lo
                     /\ \A m \in M : m.hi - g.lo < IntRange
                     /\ r[2] - g.lo < IntRange
  BY <1>3
<1> HIDE DEF W
<1>5. W # {} /\ \A x \in W : IsMapping(x)
  BY <1>2, <1>4
<1>6. ASSUME NEW x \in W, NEW y \in W PROVE x.hi - y.lo < IntRange
  <2>1. CASE x = g
    <3>1. y = g \/ y \in M
      BY <1>4
    <3> QED BY <1>4, <2>1, <3>1
  <2>2. CASE x # g
    <3>1. x \in M /\ (y = g \/ y \in M)
      BY <1>4, <2>2
    <3> QED BY <1>4, <3>1 DEF MapsOK
  <2> QED BY <2>1, <2>2
<1>7. ASSUME NEW x \in W, NEW y \in W, x # y PROVE x.hi <= y.lo \/ y.hi <= x.lo
  <2>1. CASE x = g
    BY <1>4, <1>7, <2>1
  <2>2. CASE y = g
    BY <1>4, <1>7, <2>2
  <2>3. CASE x # g /\ y # g
    <3>1. x \in M /\ y \in M
      BY <1>4, <2>3
    <3> QED BY <1>7, <3>1 DEF MapsOK
  <2> QED BY <2>1, <2>2, <2>3
<1>8. MapsOK(W)
  BY <1>5, <1>6, <1>7 DEF MapsOK
<1> QED BY <1>4, <1>8 DEF W

\* Blocks C, and what is left from the address given up to the end that the malloc
\* knows: nothing of C is there.
Left(from, C, M) ==
    /\ from \in Nat /\ from <= bump[2] /\ bump[2] \in Nat
    /\ \E m \in M : m.hi = bump[2] /\ NewArena(m).lo <= from
    /\ \A c \in C : c.addr + c.size <= from \/ bump[2] <= c.addr

\* A place p for n bytes is in a mapping of p.maps, and nothing of C is there.
IsPlace(p, n, C) ==
    /\ p.at \in Nat \ {0} /\ p.end \in Nat /\ p.at + n <= p.end
    /\ MapsOK(p.maps) /\ ArenasOK(arenas, p.maps)
    /\ \E m \in p.maps : m.hi = p.end /\ NewArena(m).lo <= p.at
    /\ \A c \in C : \E m \in p.maps : InArena(c, NewArena(m))
    /\ \A c \in C : c.addr + c.size <= p.at \/ p.end <= c.addr

\* A place that the malloc chooses is one: in what is left, or in a new region.
LEMMA PlaceIs ==
    ASSUME AllLinearContracts, MapsOK(mappings), ArenasOK(arenas, mappings),
           NEW C, ChunksOK(C, mappings), NEW from, Left(from, C, mappings),
           NEW n \in Nat, NEW p \in Placements(from, n)
    PROVE  IsPlace(p, n, C)
<1>1. PICK at0 : at0 = PAD_TO_ALIGN(from)
  OBVIOUS
<1>2. PICK m \in mappings : m.hi = bump[2] /\ NewArena(m).lo <= from
  BY DEF Left
<1>3. IsMapping(m) /\ NewArena(m).lo \in Nat \ {0}
  BY ArenaIs DEF MapsOK
<1>4. /\ from \in Nat /\ bump[2] \in Nat /\ at0 \in Nat \ {0} /\ from <= at0 /\ at0 <= bump[2]
      /\ NewArena(m).lo <= at0
  <2>1. from \in Nat /\ bump[2] \in Nat /\ from <= bump[2] /\ bump[2] % Word = 0
    BY <1>2, <1>3 DEF Left, IsMapping
  <2>2. at0 \in Nat /\ from <= at0 /\ at0 <= bump[2]
    BY <1>1, <2>1, PadIs
  <2> QED BY <1>2, <1>3, <2>1, <2>2
<1>5. \A c \in C : c.addr \in Nat /\ c.size \in Nat \ {0} /\ IsHeld(c)
  BY LinearMallocAssumption DEF ChunksOK, IsHeld
<1>6. \A c \in C : c.addr + c.size <= at0 \/ bump[2] <= c.addr
  BY <1>4, <1>5 DEF Left
<1>7. CASE at0 + n <= bump[2]
  <2>1. p = [at |-> at0, end |-> bump[2], maps |-> mappings]
    BY <1>1, <1>7 DEF Placements
  <2>2. \A c \in C : \E x \in mappings : InArena(c, NewArena(x))
    BY DEF ChunksOK
  <2> QED BY <1>2, <1>4, <1>6, <1>7, <2>1, <2>2 DEF IsPlace
<1>8. CASE ~(at0 + n <= bump[2])
  <2>1. PICK r \in Regions :
          /\ p = [at |-> IF r[1] = bump[2] THEN at0 ELSE r[1], end |-> r[2],
                  maps |-> WithRegion(mappings, r)]
          /\ \A x \in mappings : x.hi <= r[1] \/ r[2] <= x.lo
          /\ n <= r[2] - r[1] /\ RegionContract(r)
    BY <1>1, <1>8 DEF Placements
  <2>2. /\ \A a \in arenas : a.hi # r[1]
        /\ \A x \in mappings : x.hi - r[1] < IntRange /\ r[2] - x.lo < IntRange
    BY <2>1 DEF RegionContract, AllLinearContracts
  <2>3. r[1] \in Nat \ {0} /\ r[2] \in Nat /\ r[1] < r[2]
    BY LinearMallocAssumption
  <2>4. PICK W : W = WithRegion(mappings, r)
    OBVIOUS
  <2>5. p.at = (IF r[1] = bump[2] THEN at0 ELSE r[1]) /\ p.end = r[2] /\ p.maps = W
    BY <2>1, <2>4
  <2>6. /\ MapsOK(W) /\ \A x \in mappings : x.hi # r[1] => x \in W
        /\ \E g \in W : /\ g.hi = r[2] /\ NewArena(g).lo <= r[1]
                        /\ \A x \in mappings : x.hi = r[1] => NewArena(g).lo = NewArena(x).lo
    BY <2>1, <2>2, <2>4, RegionIs
  <2>7. PICK g \in W : /\ g.hi = r[2] /\ NewArena(g).lo <= r[1]
                       /\ \A x \in mappings : x.hi = r[1] => NewArena(g).lo = NewArena(x).lo
    BY <2>6
  <2>8. p.at \in Nat \ {0} /\ p.end \in Nat /\ p.at + n <= p.end
    BY <1>4, <2>1, <2>3, <2>5
  <2>9. ArenasOK(arenas, W)
    <3>1. SUFFICES ASSUME NEW a \in arenas PROVE \E x \in W : a = NewArena(x)
      BY DEF ArenasOK
    <3>2. PICK x \in mappings : a = NewArena(x)
      BY DEF ArenasOK
    <3>3. x.hi # r[1]
      BY <2>2, <3>2 DEF NewArena
    <3> QED BY <2>6, <3>2, <3>3
  <2>10. g.hi = p.end /\ NewArena(g).lo <= p.at
    BY <1>2, <1>4, <2>5, <2>7
  <2>11. ASSUME NEW c \in C PROVE \E x \in W : InArena(c, NewArena(x))
    <3>1. PICK x \in mappings : InArena(c, NewArena(x))
      BY DEF ChunksOK
    <3>2. CASE x.hi # r[1]
      BY <2>6, <3>1, <3>2
    <3>3. CASE x.hi = r[1]
      <4>1. NewArena(g).lo = NewArena(x).lo /\ NewArena(g).hi = r[2] /\ NewArena(x).hi = r[1]
        BY <2>7, <3>3 DEF NewArena
      <4>2. c.addr + c.size <= r[2]
        BY <1>5, <2>3, <3>1, <4>1 DEF InArena
      <4> QED BY <3>1, <4>1, <4>2 DEF InArena
    <3> QED BY <3>2, <3>3
  <2>12. ASSUME NEW c \in C PROVE c.addr + c.size <= p.at \/ p.end <= c.addr
    <3>1. PICK x \in mappings : InArena(c, NewArena(x))
      BY DEF ChunksOK
    <3>2. IsMapping(x) /\ x.lo <= c.addr /\ c.addr + c.size <= x.hi
      <4>1. IsMapping(x)
        BY DEF MapsOK
      <4>2. x.lo <= NewArena(x).lo /\ NewArena(x).hi = x.hi /\ NewArena(x).lo \in Nat
        BY <4>1, ArenaIs
      <4> QED BY <1>5, <3>1, <4>1, <4>2 DEF InArena, IsMapping
    <3>3. c.addr + c.size <= r[1] \/ r[2] <= c.addr
      BY <1>5, <2>1, <2>3, <3>2 DEF IsMapping
    <3> QED BY <1>4, <1>5, <1>6, <2>3, <2>5, <3>3
  <2> QED BY <2>5, <2>6, <2>8, <2>9, <2>10, <2>11, <2>12, ZenonT(30) DEF IsPlace
<1> QED BY <1>7, <1>8

\* A block is put at a place.
LEMMA PutIs ==
    ASSUME NEW C, NEW M, ChunksOK(C, M), NEW n \in Nat, NEW p, IsPlace(p, n, C),
           NEW q \in Nat \ {0}, q + InsertSize <= n,
           NEW D, D = C \cup {[addr |-> p.at, requested |-> q, size |-> n]}
    PROVE  ChunksOK(D, p.maps) /\ BumpOK(<<p.at + n, p.end, p.at>>, D, p.maps)
<1>1. PICK k : k = [addr |-> p.at, requested |-> q, size |-> n]
  OBVIOUS
<1>2. k.addr = p.at /\ k.requested = q /\ k.size = n /\ D = C \cup {k}
  BY <1>1
<1>3. p.at \in Nat \ {0} /\ p.end \in Nat /\ p.at + n <= p.end /\ InsertSize \in Nat \ {0} /\ n > 0
  BY LinearMallocAssumption DEF IsPlace
<1>4. IsHeld(k)
  BY <1>1, <1>2, <1>3 DEF IsHeld
<1>5. \A c \in C : c.addr \in Nat /\ c.size \in Nat \ {0} /\ IsHeld(c)
  BY LinearMallocAssumption DEF ChunksOK, IsHeld
<1>6. PICK m \in p.maps : m.hi = p.end /\ NewArena(m).lo <= p.at
  BY DEF IsPlace
<1>7. InArena(k, NewArena(m))
  BY <1>2, <1>3, <1>6 DEF InArena, NewArena
<1>8. \A c \in C : (c.addr + c.size <= p.at \/ p.end <= c.addr) /\ c.addr # p.at
  BY <1>3, <1>5 DEF IsPlace
<1>9. \A c \in C : Apart(c, k) /\ Apart(k, c)
  BY <1>2, <1>3, <1>5, <1>8 DEF Apart
<1>10. ChunksOK(D, p.maps)
  <2>1. \A c \in D : IsHeld(c) /\ \E x \in p.maps : InArena(c, NewArena(x))
    BY <1>2, <1>4, <1>5, <1>7 DEF IsPlace
  <2>2. \A c, d \in D : c # d => Apart(c, d)
    BY <1>2, <1>9 DEF ChunksOK
  <2> QED BY <2>1, <2>2, ZenonT(30) DEF ChunksOK
<1>11. BumpOK(<<p.at + n, p.end, p.at>>, D, p.maps)
  <2>1. PICK b : b = <<p.at + n, p.end, p.at>>
    OBVIOUS
  <2>2. b[1] = p.at + n /\ b[2] = p.end /\ b[3] = p.at /\ b = <<b[1], b[2], b[3]>>
    BY <2>1
  <2>3. b[1] \in Nat /\ b[2] \in Nat /\ b[3] \in Nat /\ b[3] <= b[1] /\ b[1] <= b[2]
    BY <1>3, <2>2
  <2>4. m.hi = b[2] /\ NewArena(m).lo <= b[1] /\ NewArena(m).lo <= b[3]
    <3>1. NewArena(m).lo \in Nat
      BY ArenaIs DEF IsPlace, MapsOK
    <3> QED BY <1>3, <1>6, <2>2, <3>1
  <2>5. ASSUME NEW c \in D
        PROVE  IF c.addr = b[3] THEN c.addr + c.size <= b[1]
               ELSE c.addr + c.size <= b[3] \/ b[2] <= c.addr
    <3>1. CASE c = k
      BY <1>2, <1>3, <2>2, <3>1
    <3>2. CASE c \in C
      BY <1>8, <2>2, <3>2
    <3> QED BY <1>2, <3>1, <3>2
  <2> QED BY <2>1, <2>2, <2>3, <2>4, <2>5, ZenonT(30) DEF BumpOK
<1> QED BY <1>10, <1>11

-----------------------------------------------------------------------------
(* The records follow the blocks. *)

\* A block that is put apart from the others is recorded by the insert.
LEMMA MirrorGrows ==
    ASSUME NEW s, NEW C, NEW M, MirrorOK(s, C), MapsOK(M),
           NEW n \in Nat, NEW k, k.size = n, k \notin C, ChunksOK(C \cup {k}, M),
           NEW w \in Nat, k.requested <= w, w + InsertSize <= n, CHUNK_SIZE_WITH_TRAILER(w) = n,
           NEW r \in linear_malloc_index_insert(s, k.addr, w)
    PROVE  MirrorOK(r, C \cup {k})
<1>1. InsertSize \in Nat \ {0} /\ n - InsertSize - w \in Nat
  BY LinearMallocAssumption
<1>2. IsHeld(k) /\ \A c \in C : IsHeld(c) /\ Apart(c, k)
  BY DEF ChunksOK
<1>3. \A c \in C : c.addr # k.addr
  BY <1>1, <1>2 DEF IsHeld, Apart
<1>4. ChunksOK(C, M)
  BY DEF ChunksOK
<1>5. RecsOK(s) /\ Near(s)
  BY <1>4, RecsNear DEF MirrorOK
<1>6. ASSUME NEW i \in DOMAIN s
      PROVE  s[i].addr # k.addr /\ s[i].addr - k.addr < IntRange /\ k.addr - s[i].addr < IntRange
  <2>1. PICK c \in C : c.addr = s[i].addr
    BY DEF MirrorOK, Recorded
  <2>2. c \in C \cup {k} /\ k \in C \cup {k}
    OBVIOUS
  <2> QED BY <1>3, <2>1, <2>2, ChunksNear
<1>7. PICK x : x = [addr |-> k.addr, requested |-> w, padding |-> n - InsertSize - w]
  OBVIOUS
<1>8. RecsOK(r) /\ \A y : Among(y, r) <=> Among(y, s) \/ y = x
  <2>1. k.addr \in Nat \ {0}
    BY <1>2 DEF IsHeld
  <2> QED BY <1>1, <1>5, <1>6, <1>7, <2>1, RecInserts
<1>9. Recorded(k, x)
  BY <1>1, <1>7 DEF Recorded
<1>10. ASSUME NEW i \in DOMAIN r PROVE \E c \in C \cup {k} : Recorded(c, r[i])
  <2>1. Among(r[i], s) \/ r[i] = x
    BY <1>8 DEF Among
  <2> QED BY <1>9, <2>1 DEF Among, MirrorOK
<1>11. ASSUME NEW c \in C \cup {k} PROVE \E i \in DOMAIN r : Recorded(c, r[i])
  <2>1. PICK y : Recorded(c, y) /\ (Among(y, s) \/ y = x)
    BY <1>9 DEF Among, MirrorOK
  <2>2. Among(y, r)
    BY <1>8, <2>1
  <2> QED BY <2>1, <2>2 DEF Among
<1> QED BY <1>8, <1>10, <1>11 DEF MirrorOK

\* A block that is freed is looked up by its address, and its record deleted.
LEMMA MirrorShrinks ==
    ASSUME NEW s, NEW C, NEW M, MirrorOK(s, C), MapsOK(M), ChunksOK(C, M), NEW c \in C,
           NEW k \in find_linear_malloc_rec(s, c.addr), NEW r \in linear_malloc_index_delete(s, k)
    PROVE  MirrorOK(r, C \ {c})
<1>1. c.addr \in c.addr..(c.addr + c.requested - 1)
  BY DEF ChunksOK, IsHeld
<1>2. k \in DOMAIN s /\ Recorded(c, s[k])
  <2>1. PICK i \in DOMAIN s : Recorded(c, s[i]) /\ find_linear_malloc_rec(s, c.addr) = {i}
    BY <1>1, FindIs
  <2> QED BY <2>1
<1>3. RecsOK(s) /\ Near(s)
  BY RecsNear DEF MirrorOK
<1>4. RecsOK(r) /\ \A y : Among(y, r) <=> Among(y, s) /\ y # s[k]
  BY <1>2, <1>3, RecDeletes
<1>5. \A d \in C : d # c => d.addr # c.addr
  BY LinearMallocAssumption DEF ChunksOK, IsHeld, Apart
<1>6. ASSUME NEW i \in DOMAIN s, s[i].addr = c.addr PROVE s[i] = s[k]
  <2>1. PICK n \in Nat : DOMAIN s = 1..n
    BY DEF MirrorOK, RecsOK
  <2>2. i < k \/ k < i \/ i = k
    BY <1>2, <2>1
  <2>3. s[i].addr \in Nat /\ s[k].addr = c.addr
    <3>1. s[i] \in Rec
      BY <1>3, <2>1 DEF RecsOK
    <3> QED BY <1>2, <3>1 DEF Rec, Recorded
  <2>4. ~(i < k) /\ ~(k < i)
    BY <1>2, <1>3, <1>6, <2>3 DEF RecsOK, Sorted
  <2> QED BY <2>2, <2>4
<1>7. ASSUME NEW i \in DOMAIN r PROVE \E d \in C \ {c} : Recorded(d, r[i])
  <2>1. Among(r[i], s) /\ r[i] # s[k]
    BY <1>4 DEF Among
  <2>2. PICK j \in DOMAIN s : s[j] = r[i]
    BY <2>1 DEF Among
  <2>3. PICK d \in C : Recorded(d, s[j])
    BY DEF MirrorOK
  <2>4. d # c
    BY <1>6, <2>1, <2>2, <2>3 DEF Recorded
  <2> QED BY <2>2, <2>3, <2>4
<1>8. ASSUME NEW d \in C \ {c} PROVE \E i \in DOMAIN r : Recorded(d, r[i])
  <2>1. PICK j \in DOMAIN s : Recorded(d, s[j])
    BY DEF MirrorOK
  <2>2. s[j] # s[k]
    BY <1>2, <1>5, <2>1 DEF Recorded
  <2>3. Among(s[j], r)
    BY <1>4, <2>2 DEF Among
  <2> QED BY <2>1, <2>3 DEF Among
<1> QED BY <1>4, <1>7, <1>8 DEF MirrorOK

-----------------------------------------------------------------------------
(* The actions. *)

\* What the arenas B are to blocks D in mappings M.
Served(B, D, M) ==
    ArenasOK(B, M) /\ (started => Covered(D, B)) /\ (~started => B = {})

\* The chained functions leave an arena for a block put at a place.
LEMMA ChainedIs ==
    ASSUME LinearInv, NEW C, C \subseteq chunks, NEW n \in Nat \ {0}, NEW p, IsPlace(p, n, C),
           NEW k, k.addr = p.at, k.size = n
    PROVE  /\ Chained(p.maps, p.at) # {}
           /\ \A B \in Chained(p.maps, p.at) : Served(B, C \cup {k}, p.maps)
<1>1. MapsOK(p.maps) /\ ArenasOK(arenas, p.maps) /\ p.at \in Nat /\ p.at + n <= p.end /\ p.end \in Nat
  BY DEF IsPlace
<1>2. CASE ~started
  <2>1. Chained(p.maps, p.at) = {arenas} /\ arenas = {}
    BY <1>2 DEF Chained, LinearInv
  <2> QED BY <1>1, <1>2, <2>1 DEF Served
<1>3. CASE started
  <2>1. PICK m \in p.maps : m.hi = p.end /\ NewArena(m).lo <= p.at
    BY DEF IsPlace
  <2>2. Chained(p.maps, p.at) = ensure_bigalloc(arenas, p.maps, p.at)
    BY <1>3 DEF Chained
  <2>3. p.at < m.hi
    BY <1>1, <2>1
  <2>4. /\ Chained(p.maps, p.at) # {}
        /\ \A B \in Chained(p.maps, p.at) :
             arenas \subseteq B /\ ArenasOK(B, p.maps) /\ NewArena(m) \in B
    BY <1>1, <2>1, <2>2, <2>3, EnsureIs
  <2>5. InArena(k, NewArena(m))
    BY <2>1, <1>1 DEF InArena, NewArena
  <2>6. ASSUME NEW B \in Chained(p.maps, p.at) PROVE Covered(C \cup {k}, B)
    <3>1. Covered(chunks, arenas)
      BY <1>3 DEF LinearInv
    <3> QED BY <2>4, <2>5, <3>1 DEF Covered
  <2> QED BY <1>3, <2>4, <2>6 DEF Served
<1> QED BY <1>2, <1>3

\* What holds once blocks D have records r, one of them being put at p.
PutOK(p, n, D, r) ==
    /\ MapsOK(p.maps) /\ ChunksOK(D, p.maps) /\ MirrorOK(r, D)
    /\ BumpOK(<<p.at + n, p.end, p.at>>, D, p.maps)
    /\ Chained(p.maps, p.at) # {}
    /\ \A B \in Chained(p.maps, p.at) : Served(B, D, p.maps)

\* A block of n bytes is put at p beside the blocks C, and recorded with w for
\* its requested size beside the records s of C.
LEMMA PutKeeps ==
    ASSUME AllLinearContracts, LinearInv, NEW C, C \subseteq chunks,
           NEW from, Left(from, C, mappings), NEW s, MirrorOK(s, C),
           NEW q \in Nat \ {0}, NEW w \in Nat, q <= w, NEW n \in Nat, w + InsertSize <= n,
           CHUNK_SIZE_WITH_TRAILER(w) = n, NEW p \in Placements(from, n),
           NEW r \in linear_malloc_index_insert(s, p.at, w),
           NEW D, D = C \cup {[addr |-> p.at, requested |-> q, size |-> n]}
    PROVE  PutOK(p, n, D, r)
<1>1. PICK k : k = [addr |-> p.at, requested |-> q, size |-> n]
  BY ZenonT(30)
<1>2. k.addr = p.at /\ k.requested = q /\ k.size = n /\ D = C \cup {k}
  BY <1>1
<1>3. InsertSize \in Nat \ {0} /\ q + InsertSize <= n /\ n \in Nat \ {0}
  BY LinearMallocAssumption
<1>4. ChunksOK(C, mappings) /\ MapsOK(mappings) /\ ArenasOK(arenas, mappings)
  BY DEF LinearInv, ChunksOK
<1>5. IsPlace(p, n, C)
  BY <1>4, PlaceIs, ZenonT(30)
<1>6. MapsOK(p.maps)
  BY <1>5, ZenonT(30) DEF IsPlace
<1>7. ChunksOK(D, p.maps) /\ BumpOK(<<p.at + n, p.end, p.at>>, D, p.maps)
  BY <1>3, <1>4, <1>5, PutIs
<1>8. k \notin C
  <2>1. SUFFICES ASSUME k \in C PROVE FALSE
    OBVIOUS
  <2>2. p.at \in Nat /\ p.end \in Nat /\ p.at + n <= p.end
        /\ (p.at + n <= p.at \/ p.end <= p.at)
    BY <1>2, <1>5, <2>1, ZenonT(30) DEF IsPlace
  <2> QED BY <1>3, <2>2
<1>9. MirrorOK(r, D)
  <2>1. /\ k.requested <= w /\ k.size = n /\ ChunksOK(C \cup {k}, p.maps)
        /\ r \in linear_malloc_index_insert(s, k.addr, w)
    BY <1>2, <1>7
  <2>2. MirrorOK(r, C \cup {k})
    BY <1>6, <1>8, <2>1, MirrorGrows, ZenonT(60)
  <2> QED BY <1>2, <2>2
<1>10. Chained(p.maps, p.at) # {} /\ \A B \in Chained(p.maps, p.at) : Served(B, D, p.maps)
  <2>1. n \in Nat \ {0} /\ k.addr = p.at /\ k.size = n
    BY <1>2, <1>3
  <2>2. Chained(p.maps, p.at) # {}
    BY <1>5, <2>1, ChainedIs, ZenonT(30)
  <2>3. \A B \in Chained(p.maps, p.at) : Served(B, C \cup {k}, p.maps)
    BY <1>5, <2>1, ChainedIs, ZenonT(30)
  <2> QED BY <1>2, <2>2, <2>3
<1> QED BY <1>6, <1>7, <1>9, <1>10 DEF PutOK

\* Putting a block leaves the invariant true.
LEMMA PutInv ==
    ASSUME NEW p, NEW n, PutOK(p, n, chunks', recs'), bump' = <<p.at + n, p.end, p.at>>,
           mappings' = p.maps, arenas' \in Chained(p.maps, p.at), failed' = FALSE,
           started' = started, started \in BOOLEAN
    PROVE  LinearInv'
<1>1. Served(arenas', chunks', mappings')
  BY DEF PutOK
<1> QED BY <1>1 DEF PutOK, Served, LinearInv, MapsOK, ChunksOK, BumpOK, MirrorOK, ArenasOK, Covered

\* The detour of __minimal_malloc keeps the invariant.
LEMMA LinearMallocKeeps ==
    ASSUME AllLinearContracts, LinearInv, NEW q \in Requests, detour_malloc(q)
    PROVE  LinearInv'
<1>1. PICK n : n = CHUNK_SIZE_WITH_TRAILER(q)
  OBVIOUS
<1>2. q \in Nat \ {0} /\ Len(recs) < MAX_LINEAR_MALLOCS /\ started' = started
  BY LinearMallocAssumption DEF detour_malloc, AllLinearContracts
<1>3. n \in Nat /\ q + InsertSize <= n
  BY <1>1, <1>2, SizeIs
<1>4. PICK p \in Placements(bump[1], n) :
        /\ bump' = <<p.at + n, p.end, p.at>> /\ mappings' = p.maps
        /\ chunks' = chunks \cup {[addr |-> p.at, requested |-> q, size |-> n]}
        /\ recs' \in linear_malloc_index_insert(recs, p.at, q)
        /\ arenas' \in IF Chained(p.maps, p.at) = {} THEN {arenas} ELSE Chained(p.maps, p.at)
        /\ failed' = (Chained(p.maps, p.at) = {} \/ Len(recs) = MAX_LINEAR_MALLOCS)
  BY <1>1 DEF detour_malloc
<1>5. Left(bump[1], chunks, mappings)
  <2>1. BumpOK(bump, chunks, mappings) /\ ChunksOK(chunks, mappings)
    BY DEF LinearInv
  <2>2. bump[1] \in Nat /\ bump[1] <= bump[2] /\ bump[2] \in Nat
    BY <2>1 DEF BumpOK
  <2>3. \E m \in mappings : m.hi = bump[2] /\ NewArena(m).lo <= bump[1]
    BY <2>1 DEF BumpOK
  <2>4. \A c \in chunks : c.addr + c.size <= bump[1] \/ bump[2] <= c.addr
    BY <2>1 DEF BumpOK, ChunksOK, IsHeld
  <2> QED BY <2>2, <2>3, <2>4 DEF Left
<1>6. MirrorOK(recs, chunks)
  BY DEF LinearInv
<1>7. PutOK(p, n, chunks', recs')
  <2>1. CHUNK_SIZE_WITH_TRAILER(q) = n /\ q \in Nat /\ q <= q
    BY <1>1, <1>2
  <2> QED BY <1>2, <1>3, <1>4, <1>5, <1>6, <2>1, PutKeeps
<1>8. MAX_LINEAR_MALLOCS \in Nat /\ Len(recs) \in Nat
  BY LinearMallocAssumption DEF LinearInv, MirrorOK, RecsOK
<1>9. arenas' \in Chained(p.maps, p.at) /\ failed' = FALSE
  <2>1. Len(recs) # MAX_LINEAR_MALLOCS
    BY <1>2, <1>8
  <2> QED BY <1>4, <1>7, <2>1, Zenon DEF PutOK
<1>10. started \in BOOLEAN
  BY DEF LinearInv
<1> QED BY <1>2, <1>4, <1>7, <1>9, <1>10, PutInv

\* So does that of __minimal_free, whether or not the block is the last one.
LEMMA LinearFreeKeeps ==
    ASSUME AllLinearContracts, LinearInv, NEW c \in chunks, detour_free(c)
    PROVE  LinearInv'
<1>1. /\ MapsOK(mappings) /\ ChunksOK(chunks, mappings) /\ MirrorOK(recs, chunks)
      /\ BumpOK(bump, chunks, mappings) /\ ArenasOK(arenas, mappings)
      /\ started \in BOOLEAN /\ failed = FALSE
  BY DEF LinearInv
<1>2. c.addr \in c.addr..(c.addr + c.requested - 1) /\ IsHeld(c) /\ c.size \in Nat \ {0}
  BY <1>1, LinearMallocAssumption DEF ChunksOK, IsHeld
<1>3. find_linear_malloc_rec(recs, c.addr) # {}
  <2>1. PICK i : find_linear_malloc_rec(recs, c.addr) = {i}
    BY <1>1, <1>2, FindIs
  <2> QED BY <2>1
<1>4. PICK i \in find_linear_malloc_rec(recs, c.addr) :
        recs' \in linear_malloc_index_delete(recs, i)
  BY <1>3 DEF detour_free
<1>5. /\ chunks' = chunks \ {c} /\ mappings' = mappings /\ started' = started
      /\ arenas' \in Chained(mappings, c.addr) /\ failed' = failed
      /\ bump' = IF c.addr = bump[3] THEN [bump EXCEPT ![1] = c.addr] ELSE bump
  BY <1>3 DEF detour_free
<1>6. MirrorOK(recs', chunks')
  BY <1>1, <1>4, <1>5, MirrorShrinks
<1>7. ChunksOK(chunks', mappings)
  BY <1>1, <1>5 DEF ChunksOK
<1>8. BumpOK(bump', chunks', mappings)
  <2>1. CASE c.addr # bump[3]
    BY <1>1, <1>5, <2>1 DEF BumpOK
  <2>2. CASE c.addr = bump[3]
    <3>1. /\ bump = <<bump[1], bump[2], bump[3]>> /\ bump[1] \in Nat /\ bump[2] \in Nat
          /\ bump[3] \in Nat /\ bump[3] <= bump[1] /\ bump[1] <= bump[2]
      BY <1>1 DEF BumpOK
    <3>2. bump' = <<c.addr, bump[2], bump[3]>>
      BY <1>5, <2>2, <3>1
    <3>3. bump'[1] = c.addr /\ bump'[2] = bump[2] /\ bump'[3] = c.addr
          /\ bump' = <<bump'[1], bump'[2], bump'[3]>>
      BY <2>2, <3>2
    <3>4. PICK m \in mappings : m.hi = bump[2] /\ NewArena(m).lo <= c.addr
      BY <1>1, <1>2, <2>2 DEF BumpOK, IsHeld
    <3>5. ASSUME NEW d \in chunks' PROVE d.addr # c.addr /\ (d.addr + d.size <= c.addr \/ bump[2] <= d.addr)
      <4>1. d \in chunks /\ d # c
        BY <1>5
      <4>2. IsHeld(d) /\ Apart(d, c)
        BY <1>1, <4>1 DEF ChunksOK
      <4>3. d.addr # c.addr
        BY <1>2, <4>2, LinearMallocAssumption DEF IsHeld, Apart
      <4> QED BY <1>1, <2>2, <4>1, <4>3 DEF BumpOK
    <3>6. c.addr \in Nat /\ c.addr <= bump[2]
      BY <2>2, <3>1
    <3> QED BY <3>1, <3>3, <3>4, <3>5, <3>6 DEF BumpOK
  <2> QED BY <2>1, <2>2
<1>9. Served(arenas', chunks', mappings)
  <2>1. CASE ~started
    BY <1>1, <1>5, <2>1 DEF Served, Chained, LinearInv
  <2>2. CASE started
    <3>1. PICK m \in mappings : InArena(c, NewArena(m))
      BY <1>1 DEF ChunksOK
    <3>2. NewArena(m).lo <= c.addr /\ c.addr < m.hi /\ c.addr \in Nat
      <4>1. m.hi \in Nat /\ NewArena(m).hi = m.hi
        BY <1>1, ArenaIs DEF MapsOK, IsMapping
      <4> QED BY <1>2, <3>1, <4>1 DEF InArena, IsHeld
    <3>3. arenas' \in ensure_bigalloc(arenas, mappings, c.addr)
      BY <1>5, <2>2 DEF Chained
    <3>4. arenas \subseteq arenas' /\ ArenasOK(arenas', mappings)
      BY <1>1, <3>2, <3>3, EnsureIs
    <3>5. Covered(chunks, arenas)
      BY <2>2 DEF LinearInv
    <3>6. Covered(chunks', arenas')
      BY <1>5, <3>4, <3>5 DEF Covered
    <3> QED BY <2>2, <3>4, <3>6 DEF Served
  <2> QED BY <2>1, <2>2
<1> QED BY <1>1, <1>5, <1>6, <1>7, <1>8, <1>9
        DEF Served, LinearInv, MapsOK, ChunksOK, BumpOK, MirrorOK, ArenasOK, Covered

\* So does that of __minimal_realloc, which deletes a record and inserts another.
LEMMA LinearReallocKeeps ==
    ASSUME AllLinearContracts, LinearInv, NEW c \in chunks, NEW q \in Requests,
           detour_realloc(c, q)
    PROVE  LinearInv'
<1>1. /\ MapsOK(mappings) /\ ChunksOK(chunks, mappings) /\ MirrorOK(recs, chunks)
      /\ BumpOK(bump, chunks, mappings) /\ ArenasOK(arenas, mappings)
      /\ started \in BOOLEAN /\ failed = FALSE
  BY DEF LinearInv
<1>2. PICK n : n = CHUNK_SIZE_WITH_TRAILER(q)
  OBVIOUS
<1>3. q \in Nat \ {0} /\ c.addr = bump[3] /\ started' = started /\ failed' = failed
  BY LinearMallocAssumption DEF detour_realloc
<1>4. PICK w : w = ReinsertedSize(n)
  OBVIOUS
<1>5. w \in Nat /\ n \in Nat /\ q <= w /\ w + InsertSize <= n /\ CHUNK_SIZE_WITH_TRAILER(w) = n
  <2>1. w \in Nat /\ n \in Nat /\ q + InsertSize <= n /\ CHUNK_SIZE_WITH_TRAILER(w) = n
    BY <1>2, <1>3, <1>4, SizeIs
  <2> QED BY <1>3, <1>4, <2>1, LinearMallocAssumption DEF ReinsertedSize
<1>6. PICK C : C = chunks \ {c}
  OBVIOUS
<1>7. ChunksOK(C, mappings) /\ C \subseteq chunks
  BY <1>1, <1>6 DEF ChunksOK
<1>8. Left(c.addr, C, mappings)
  <2>1. IsHeld(c)
    BY <1>1 DEF ChunksOK
  <2>2. c.addr \in Nat /\ c.addr <= bump[2] /\ bump[2] \in Nat
    BY <1>1, <1>3 DEF BumpOK
  <2>3. \E m \in mappings : m.hi = bump[2] /\ NewArena(m).lo <= c.addr
    BY <1>1, <1>3, <2>1 DEF BumpOK, IsHeld
  <2>4. ASSUME NEW d \in C PROVE d.addr + d.size <= c.addr \/ bump[2] <= d.addr
    <3>1. d \in chunks /\ d # c
      BY <1>6
    <3>2. IsHeld(d) /\ Apart(d, c)
      BY <1>1, <3>1 DEF ChunksOK
    <3>3. d.addr # c.addr
      BY <2>1, <3>2, LinearMallocAssumption DEF IsHeld, Apart
    <3> QED BY <1>1, <1>3, <3>1, <3>3 DEF BumpOK
  <2> QED BY <2>2, <2>3, <2>4 DEF Left
<1>9. NoPlace = {}
  BY DEF NoPlace, AllLinearContracts
<1>10. PICK i \in find_linear_malloc_rec(recs, c.addr) :
         \E s \in linear_malloc_index_delete(recs, i) : \E p \in Placements(c.addr, n) :
           IF p.at = 0
           THEN recs' = s /\ UNCHANGED <<mappings, chunks, bump, arenas>>
           ELSE /\ bump' = <<p.at + n, p.end, p.at>>
                /\ mappings' = p.maps
                /\ chunks' = C \cup {[addr |-> p.at, requested |-> q, size |-> n]}
                /\ recs' \in linear_malloc_index_insert(s, p.at, w)
                /\ arenas' \in Chained(p.maps, p.at)
  BY <1>2, <1>4, <1>6, <1>9 DEF detour_realloc
<1>11. PICK s \in linear_malloc_index_delete(recs, i), p \in Placements(c.addr, n) :
           IF p.at = 0
           THEN recs' = s /\ UNCHANGED <<mappings, chunks, bump, arenas>>
           ELSE /\ bump' = <<p.at + n, p.end, p.at>>
                /\ mappings' = p.maps
                /\ chunks' = C \cup {[addr |-> p.at, requested |-> q, size |-> n]}
                /\ recs' \in linear_malloc_index_insert(s, p.at, w)
                /\ arenas' \in Chained(p.maps, p.at)
  BY <1>10
<1>12. p.at # 0
  <2>1. IsPlace(p, n, C)
    BY <1>1, <1>5, <1>7, <1>8, PlaceIs
  <2> QED BY <2>1 DEF IsPlace
<1>13. /\ bump' = <<p.at + n, p.end, p.at>> /\ mappings' = p.maps
       /\ chunks' = C \cup {[addr |-> p.at, requested |-> q, size |-> n]}
       /\ recs' \in linear_malloc_index_insert(s, p.at, w)
       /\ arenas' \in Chained(p.maps, p.at)
  BY <1>11, <1>12
<1>14. MirrorOK(s, C)
  BY <1>1, <1>6, MirrorShrinks
<1>15. PutOK(p, n, chunks', recs')
  BY <1>3, <1>5, <1>7, <1>8, <1>13, <1>14, PutKeeps
<1> QED BY <1>1, <1>3, <1>13, <1>15, PutInv

\* So does the start of liballocs, which makes the arenas of what was allocated before.
LEMMA LinearStartKeeps ==
    ASSUME LinearInv, ld_so_malloc_allocator_init
    PROVE  LinearInv'
<1>1. /\ MapsOK(mappings) /\ ChunksOK(chunks, mappings) /\ MirrorOK(recs, chunks)
  BY DEF LinearInv
<1>2. recs \in Seq(Rec) /\ DOMAIN recs = 1..Len(recs)
  BY <1>1 DEF MirrorOK, RecsOK
<1>3. ASSUME NEW c \in chunks, NEW m \in mappings, InArena(c, NewArena(m))
      PROVE  NewArena(m).lo <= c.addr /\ c.addr < m.hi
  <2>1. m.hi \in Nat /\ NewArena(m).hi = m.hi /\ IsHeld(c)
    BY <1>1, ArenaIs DEF MapsOK, IsMapping, ChunksOK
  <2> QED BY <1>3, <2>1, LinearMallocAssumption DEF InArena, IsHeld
<1>4. ASSUME NEW i \in DOMAIN recs
      PROVE  \E m \in mappings : NewArena(m).lo <= recs[i].addr /\ recs[i].addr < m.hi
  <2>1. PICK c \in chunks : c.addr = recs[i].addr
    BY <1>1 DEF MirrorOK, Recorded
  <2>2. PICK m \in mappings : InArena(c, NewArena(m))
    BY <1>1 DEF ChunksOK
  <2> QED BY <1>3, <2>1, <2>2
<1>5. EnsuredUpto(recs, mappings, EnsureAll(recs, mappings), Len(recs))
  BY <1>1, <1>2, <1>4, EnsuredAll, ZenonT(30)
<1>6. /\ EnsureAll(recs, mappings) # {} /\ ArenasOK(arenas', mappings)
      /\ \A i \in DOMAIN recs, m \in mappings :
           NewArena(m).lo <= recs[i].addr /\ recs[i].addr < m.hi => NewArena(m) \in arenas'
  <2>1. EnsureAll(recs, mappings) # {}
    BY <1>5 DEF EnsuredUpto
  <2>2. arenas' \in EnsureAll(recs, mappings)
    BY <2>1 DEF ld_so_malloc_allocator_init
  <2> QED BY <1>2, <1>5, <2>1, <2>2 DEF EnsuredUpto
<1>7. Covered(chunks, arenas')
  <2>1. SUFFICES ASSUME NEW c \in chunks PROVE \E a \in arenas' : InArena(c, a)
    BY DEF Covered
  <2>2. PICK m \in mappings : InArena(c, NewArena(m))
    BY <1>1 DEF ChunksOK
  <2>3. PICK i \in DOMAIN recs : c.addr = recs[i].addr
    BY <1>1 DEF MirrorOK, Recorded
  <2> QED BY <1>3, <1>6, <2>2, <2>3
<1>8. failed' = FALSE /\ started' = TRUE /\ UNCHANGED <<recs, mappings, chunks, bump>>
  BY <1>6 DEF ld_so_malloc_allocator_init
<1> QED BY <1>6, <1>7, <1>8
        DEF LinearInv, MapsOK, ChunksOK, BumpOK, MirrorOK, ArenasOK, Covered

\* It holds before the first allocation.
LEMMA LinearInitInv == LinearInit => LinearInv
<1>1. SUFFICES ASSUME LinearInit PROVE LinearInv
  OBVIOUS
<1>2. MapsOK(mappings)
  BY <1>1, LinearMallocAssumption DEF LinearInit, MapsOK, IsMapping
<1>3. BumpOK(bump, chunks, mappings)
  BY <1>1, LinearMallocAssumption DEF LinearInit, BumpOK, NewArena
<1>4. MirrorOK(recs, chunks)
  BY <1>1 DEF LinearInit, MirrorOK, RecsOK, Sorted
<1> QED BY <1>1, <1>2, <1>3, <1>4 DEF LinearInit, LinearInv, ChunksOK, ArenasOK

\* It implies that the index is exact.
LEMMA LinearInvIsExact == LinearInv => LinearIndexExact
<1>1. SUFFICES ASSUME LinearInv PROVE LinearIndexExact
  OBVIOUS
<1>2. /\ ChunksOK(chunks, mappings) /\ MirrorOK(recs, chunks) /\ failed = FALSE
  BY <1>1 DEF LinearInv
<1>3. Sorted(recs)
  BY <1>2 DEF MirrorOK, RecsOK
<1>4. {recs[i].addr : i \in DOMAIN recs} = {c.addr : c \in chunks}
  BY <1>2 DEF MirrorOK, Recorded
<1>5. \A i \in DOMAIN recs : \E c \in chunks :
        /\ c.addr = recs[i].addr /\ c.requested <= recs[i].requested
        /\ recs[i].requested + recs[i].padding + InsertSize = c.size
  BY <1>2 DEF MirrorOK, Recorded
<1>6. ASSUME started, NEW c \in chunks, NEW obj \in c.addr..(c.addr + c.requested - 1)
      PROVE  get_info(obj) = {c.addr}
  <2>1. PICK i \in DOMAIN recs : Recorded(c, recs[i]) /\ find_linear_malloc_rec(recs, obj) = {i}
    BY <1>2, FindIs
  <2>2. PICK a \in arenas : InArena(c, a)
    BY <1>1, <1>6 DEF LinearInv, Covered
  <2>3. a.lo <= obj /\ obj < a.hi
    <3>1. PICK m \in mappings : a = NewArena(m)
      BY <1>1 DEF LinearInv, ArenasOK
    <3>2. a.lo \in Nat /\ a.hi \in Nat
      BY <1>1, <3>1, ArenaIs DEF LinearInv, MapsOK, IsMapping
    <3>3. IsHeld(c) /\ InsertSize \in Nat
      BY <1>2, LinearMallocAssumption DEF ChunksOK
    <3> QED BY <2>2, <3>2, <3>3 DEF InArena, IsHeld
  <2>4. get_info(obj) = {recs[j].addr : j \in {i}}
    BY <2>1, <2>3 DEF get_info
  <2> QED BY <2>1, <2>4 DEF Recorded
<1> QED BY <1>2, <1>3, <1>4, <1>5, <1>6 DEF LinearIndexExact

\* Every step keeps it.
LEMMA LinearNextInv ==
    ASSUME AllLinearContracts, LinearInv, [LinearNext]_linearVars
    PROVE  LinearInv'
<1>1. CASE ld_so_malloc_allocator_init
  BY <1>1, LinearStartKeeps
<1>2. CASE \E q \in Requests : detour_malloc(q)
  BY <1>2, LinearMallocKeeps
<1>3. CASE \E c \in chunks : detour_free(c)
  BY <1>3, LinearFreeKeeps
<1>4. CASE \E c \in chunks : \E q \in Requests : detour_realloc(c, q)
  BY <1>4, LinearReallocKeeps
<1>5. CASE UNCHANGED linearVars
  BY <1>5 DEF linearVars, LinearInv, MapsOK, ChunksOK, BumpOK, MirrorOK, ArenasOK, Covered
<1> QED BY <1>1, <1>2, <1>3, <1>4, <1>5 DEF LinearNext

\* The index of the dynamic linker's malloc is exact: whatever the program asks
\* of it and wherever the kernel maps its memory, the sorted records are the
\* blocks it holds, and once liballocs has started a query about any requested
\* byte of any block finds it.
THEOREM LinearHeapIndexed ==
    ASSUME AllLinearContracts
    PROVE  LinearSpec => []LinearIndexExact
<1>1. LinearInit => LinearInv
  BY LinearInitInv
<1>2. LinearInv /\ [LinearNext]_linearVars => LinearInv'
  BY LinearNextInv
<1>3. LinearInv => LinearIndexExact
  BY LinearInvIsExact
<1> QED BY <1>1, <1>2, <1>3, PTL DEF LinearSpec

=============================================================================
