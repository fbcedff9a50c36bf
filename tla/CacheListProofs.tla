-------------------------- MODULE CacheListProofs --------------------------
(***************************************************************************)
(* The memory range cache as a data structure, for any number of slots:    *)
(* its links hold one list of the valid slots, which unlinking, pushing,   *)
(* the lookups and the invalidation read and change as the same operations *)
(* on sequences; and what that does to the ranges in order of use.         *)
(***************************************************************************)
EXTENDS MemRangeCache, WellFoundedInduction, TLAPS

-----------------------------------------------------------------------------
(* Sequences of slots, and the least of some numbers. *)

LEMMA LeastOf ==
    ASSUME NEW T, T \subseteq Nat, T # {}
    PROVE  \E x \in T : \A y \in T : x <= y
<1>1. PICK x \in T : \A y \in T : ~(<<y, x>> \in OpToRel(<, Nat))
  BY NatLessThanWellFounded, WFMin
<1>2. \A y \in T : y < x => <<y, x>> \in OpToRel(<, Nat)
  BY DEF OpToRel
<1>3. \A y \in T : ~(y < x)
  BY <1>1, <1>2
<1> QED BY <1>3

LEMMA MinIs ==
    ASSUME NEW T, T \subseteq Nat, T # {}
    PROVE  Min(T) \in T /\ \A y \in T : Min(T) <= y
BY LeastOf DEF Min

LEMMA SeqForm ==
    ASSUME NEW n \in Nat, NEW S, NEW f \in [1..n -> S]
    PROVE  f \in Seq(S) /\ Len(f) = n
OBVIOUS

LEMMA SeqSame ==
    ASSUME NEW S, NEW s \in Seq(S), NEW t \in Seq(S), Len(s) = Len(t),
           \A j \in 1..Len(s) : s[j] = t[j]
    PROVE  s = t
<1>1. s = [j \in 1..Len(s) |-> s[j]] /\ t = [j \in 1..Len(t) |-> t[j]]
  OBVIOUS
<1> QED BY <1>1

LEMMA ConcatIs ==
    ASSUME NEW S, NEW s \in Seq(S), NEW t \in Seq(S)
    PROVE  /\ s \o t \in Seq(S) /\ Len(s \o t) = Len(s) + Len(t)
           /\ \A j \in 1..(Len(s) + Len(t)) :
                (s \o t)[j] = IF j <= Len(s) THEN s[j] ELSE t[j - Len(s)]
OBVIOUS

\* More than m things do not go into m places, one each.
LEMMA Pigeonhole ==
    ASSUME NEW n \in Nat, NEW m \in Nat, NEW f \in [1..n -> 1..m],
           \A j, k \in 1..n : f[j] = f[k] => j = k
    PROVE  n <= m
<1> DEFINE OneEach(q, g) == \A j, k \in 1..(q + 1) : g[j] = g[k] => j = k
<1> DEFINE Fits == {q \in Nat : \E g \in [1..(q + 1) -> 1..q] : OneEach(q, g)}
<1>1. SUFFICES ASSUME Fits = {} PROVE n <= m
  <2>1. SUFFICES ASSUME Fits # {} PROVE FALSE
    BY Zenon
  <2>2. PICK q \in Fits : \A p \in Fits : q <= p
    BY <2>1, LeastOf
  <2>3. PICK g \in [1..(q + 1) -> 1..q] : OneEach(q, g)
    OBVIOUS
  <2>4. q \in Nat /\ q # 0
    <3>1. q \in Nat /\ g[1] \in 1..q
      OBVIOUS
    <3> QED BY <3>1
  <2>5. PICK h : h = [j \in 1..q |-> IF g[j] = q THEN g[q + 1] ELSE g[j]]
    OBVIOUS
  <2>6. ASSUME NEW j \in 1..q PROVE h[j] \in 1..(q - 1)
    <3>1. j \in 1..(q + 1) /\ q + 1 \in 1..(q + 1) /\ j # q + 1
      BY <2>4
    <3>2. g[j] \in 1..q /\ g[q + 1] \in 1..q /\ g[j] # g[q + 1]
      BY <2>3, <3>1
    <3>3. h[j] = IF g[j] = q THEN g[q + 1] ELSE g[j]
      BY <2>5, Zenon
    <3>4. \A a \in 1..q : a # q => a \in 1..(q - 1)
      BY <2>4
    <3> QED BY <3>2, <3>3, <3>4, Zenon
  <2>7. ASSUME NEW j \in 1..q, NEW k \in 1..q, h[j] = h[k] PROVE j = k
    <3>1. /\ j \in 1..(q + 1) /\ k \in 1..(q + 1) /\ q + 1 \in 1..(q + 1)
          /\ j # q + 1 /\ k # q + 1
      BY <2>4
    <3>2. g[j] # g[q + 1] /\ g[k] # g[q + 1] /\ (g[j] = g[k] => j = k)
      BY <2>3, <3>1
    <3>3. /\ h[j] = IF g[j] = q THEN g[q + 1] ELSE g[j]
          /\ h[k] = IF g[k] = q THEN g[q + 1] ELSE g[k]
      BY <2>5, Zenon
    <3> QED BY <2>7, <3>2, <3>3
  <2>8. q - 1 \in Nat /\ (q - 1) + 1 = q
    BY <2>4
  <2>9. h \in [1..q -> 1..(q - 1)]
    BY <2>5, <2>6
  <2>10. q - 1 \in Fits
    BY <2>7, <2>8, <2>9
  <2>11. q <= q - 1
    BY <2>2, <2>10, Zenon
  <2> QED BY <2>4, <2>11
<1>2. SUFFICES ASSUME m < n PROVE FALSE
  OBVIOUS
<1>3. PICK g : g = [j \in 1..(m + 1) |-> f[j]]
  OBVIOUS
<1>4. \A j \in 1..(m + 1) : j \in 1..n
  BY <1>2
<1>5. g \in [1..(m + 1) -> 1..m] /\ OneEach(m, g)
  BY <1>3, <1>4, SMTT(20)
<1> QED BY <1>1, <1>5

LEMMA SlotIs == Slots \in Nat \ {0} /\ Slot = 1..Slots /\ 0 \notin Slot
BY CacheAssumption DEF Slot

-----------------------------------------------------------------------------
(* The linked list of slots. *)

CacheOK(c) ==
    /\ c = [validity |-> c.validity, head_mru |-> c.head_mru, tail_mru |-> c.tail_mru,
            next_victim |-> c.next_victim, next_mru |-> c.next_mru,
            prev_mru |-> c.prev_mru, entries |-> c.entries]
    /\ c.next_mru = [i \in Slot |-> c.next_mru[i]]
    /\ c.entries = [i \in Slot |-> c.entries[i]]
    /\ c.validity \subseteq Slot

\* The list has the slots of s, in this order: forwards by next_mru, backwards
\* by prev_mru.
IsList(c, s) ==
    /\ s \in Seq(Slot)
    /\ \A j, k \in 1..Len(s) : j # k => s[j] # s[k]
    /\ c.validity = {s[k] : k \in 1..Len(s)}
    /\ c.head_mru = IF Len(s) = 0 THEN 0 ELSE s[1]
    /\ c.tail_mru = IF Len(s) = 0 THEN 0 ELSE s[Len(s)]
    /\ \A k \in 1..Len(s) : c.next_mru[s[k]] = IF k = Len(s) THEN 0 ELSE s[k + 1]
    /\ \A k \in 1..Len(s) : c.prev_mru[s[k]] = IF k = 1 THEN 0 ELSE s[k - 1]

Without(s, k) == [j \in 1..(Len(s) - 1) |-> IF j < k THEN s[j] ELSE s[j + 1]]
WithHead(i, s) == [j \in 1..(Len(s) + 1) |-> IF j = 1 THEN i ELSE s[j - 1]]

LEMMA WithoutIs ==
    ASSUME NEW S, NEW s \in Seq(S), NEW k \in 1..Len(s)
    PROVE  /\ Without(s, k) \in Seq(S) /\ Len(Without(s, k)) = Len(s) - 1
           /\ \A j \in 1..(Len(s) - 1) : Without(s, k)[j] = IF j < k THEN s[j] ELSE s[j + 1]
<1>1. Len(s) - 1 \in Nat
  OBVIOUS
<1>2. Without(s, k) \in [1..(Len(s) - 1) -> S]
  BY DEF Without
<1>3. Without(s, k) \in Seq(S) /\ Len(Without(s, k)) = Len(s) - 1
  BY <1>1, <1>2, SeqForm
<1> QED BY <1>3 DEF Without

LEMMA WithHeadIs ==
    ASSUME NEW S, NEW s \in Seq(S), NEW i \in S
    PROVE  /\ WithHead(i, s) \in Seq(S) /\ Len(WithHead(i, s)) = Len(s) + 1
           /\ \A j \in 1..(Len(s) + 1) : WithHead(i, s)[j] = IF j = 1 THEN i ELSE s[j - 1]
<1>1. Len(s) + 1 \in Nat
  OBVIOUS
<1>2. WithHead(i, s) \in [1..(Len(s) + 1) -> S]
  BY DEF WithHead
<1>3. WithHead(i, s) \in Seq(S) /\ Len(WithHead(i, s)) = Len(s) + 1
  BY <1>1, <1>2, SeqForm
<1> QED BY <1>3 DEF WithHead

\* The parts of IsList that the proofs below use one at a time.
LEMMA ListSlots ==
    ASSUME NEW c, NEW s, IsList(c, s)
    PROVE  s \in Seq(Slot) /\ Len(s) \in Nat /\ \A j \in 1..Len(s) : s[j] \in Slot
<1>1. s \in Seq(Slot)
  BY Zenon DEF IsList
<1> QED BY <1>1

LEMMA ListLinks ==
    ASSUME NEW c, NEW s, IsList(c, s)
    PROVE  /\ \A j, k \in 1..Len(s) : s[j] = s[k] => j = k
           /\ c.head_mru = IF Len(s) = 0 THEN 0 ELSE s[1]
           /\ c.tail_mru = IF Len(s) = 0 THEN 0 ELSE s[Len(s)]
           /\ \A k \in 1..Len(s) : c.next_mru[s[k]] = IF k = Len(s) THEN 0 ELSE s[k + 1]
           /\ \A k \in 1..Len(s) : c.prev_mru[s[k]] = IF k = 1 THEN 0 ELSE s[k - 1]
BY Zenon DEF IsList

LEMMA ListValid ==
    ASSUME NEW c, NEW s, IsList(c, s)
    PROVE  /\ c.validity = {s[k] : k \in 1..Len(s)}
           /\ \A x : x \in c.validity <=> \E k \in 1..Len(s) : x = s[k]
<1>1. c.validity = {s[k] : k \in 1..Len(s)}
  BY Zenon DEF IsList
<1> QED BY <1>1

\* A list has no more slots than there are, and all of them only if every slot
\* is valid.
LEMMA ListShort ==
    ASSUME NEW c, CacheOK(c), NEW s, IsList(c, s)
    PROVE  Len(s) <= Slots /\ (Len(s) = Slots <=> c.validity = Slot)
<1>1. Len(s) \in Nat /\ \A j \in 1..Len(s) : s[j] \in 1..Slots
  BY ListSlots, SlotIs
<1>2. \A j, k \in 1..Len(s) : s[j] = s[k] => j = k
  BY ListLinks
<1>3. Slots \in Nat
  BY SlotIs
<1>4. Len(s) <= Slots
  <2>1. PICK f : f = [j \in 1..Len(s) |-> s[j]]
    OBVIOUS
  <2>2. f \in [1..Len(s) -> 1..Slots] /\ \A j, k \in 1..Len(s) : f[j] = f[k] => j = k
    BY <1>1, <1>2, <2>1
  <2> QED BY <1>1, <1>3, <2>2, Pigeonhole
<1>5. ASSUME c.validity = Slot PROVE Slots <= Len(s)
  <2>1. \A i \in 1..Slots : \E k \in 1..Len(s) : i = s[k]
    BY <1>5, SlotIs, ListValid
  <2>2. PICK f : f = [i \in 1..Slots |-> CHOOSE k \in 1..Len(s) : i = s[k]]
    OBVIOUS
  <2>3. ASSUME NEW i \in 1..Slots PROVE f[i] \in 1..Len(s) /\ i = s[f[i]]
    BY <2>1, <2>2
  <2>4. f \in [1..Slots -> 1..Len(s)] /\ \A i, j \in 1..Slots : f[i] = f[j] => i = j
    BY <2>2, <2>3
  <2> QED BY <1>1, <1>3, <2>4, Pigeonhole
<1>6. ASSUME c.validity # Slot PROVE Len(s) < Slots
  <2>1. PICK x \in 1..Slots : \A k \in 1..Len(s) : s[k] # x
    <3>1. PICK x \in Slot : x \notin c.validity
      BY <1>6, Zenon DEF CacheOK
    <3>2. \A k \in 1..Len(s) : s[k] # x
      BY <3>1, ListValid, Zenon
    <3> QED BY <3>1, <3>2, SlotIs
  <2>2. PICK f : f = [j \in 1..(Len(s) + 1) |-> IF j = 1 THEN x ELSE s[j - 1]]
    OBVIOUS
  <2>3. \A j \in 1..(Len(s) + 1) : j # 1 => j - 1 \in 1..Len(s)
    BY <1>1
  <2>4. f \in [1..(Len(s) + 1) -> 1..Slots]
    BY <1>1, <2>2, <2>3
  <2>5. ASSUME NEW j \in 1..(Len(s) + 1), NEW k \in 1..(Len(s) + 1), f[j] = f[k] PROVE j = k
    <3>1. CASE j = 1 \/ k = 1
      BY <2>1, <2>2, <2>3, <2>5, <3>1
    <3>2. CASE j # 1 /\ k # 1
      <4>1. s[j - 1] = s[k - 1] /\ j - 1 \in 1..Len(s) /\ k - 1 \in 1..Len(s)
        BY <2>2, <2>3, <2>5, <3>2
      <4>2. j - 1 = k - 1
        BY <1>2, <4>1
      <4> QED BY <1>1, <4>2
    <3> QED BY <3>1, <3>2
  <2>6. Len(s) + 1 \in Nat
    BY <1>1
  <2>7. Len(s) + 1 <= Slots
    BY <1>3, <2>4, <2>5, <2>6, Pigeonhole
  <2> QED BY <1>1, <1>3, <2>7
<1> QED BY <1>1, <1>3, <1>4, <1>5, <1>6

\* __liballocs_cache_unlink takes one slot out of the list.
LEMMA Unlinked ==
    ASSUME NEW c, CacheOK(c), NEW s, IsList(c, s), NEW k \in 1..Len(s)
    PROVE  /\ CacheOK(unlink(c, s[k])) /\ IsList(unlink(c, s[k]), Without(s, k))
           /\ unlink(c, s[k]).entries = c.entries
           /\ unlink(c, s[k]).validity = c.validity \ {s[k]}
<1>1. s \in Seq(Slot) /\ Len(s) \in Nat /\ \A j \in 1..Len(s) : s[j] \in Slot
  BY ListSlots
<1>2. PICK i \in Slot : i = s[k]
  BY <1>1
<1>3. PICK n : n = IF k = Len(s) THEN 0 ELSE s[k + 1]
  OBVIOUS
<1>4. PICK p : p = IF k = 1 THEN 0 ELSE s[k - 1]
  OBVIOUS
<1>5. c.next_mru[i] = n /\ c.prev_mru[i] = p
  BY <1>2, <1>3, <1>4, ListLinks
<1>6. PICK u : u = unlink(c, i)
  OBVIOUS
<1>7. /\ u = [validity |-> u.validity, head_mru |-> u.head_mru, tail_mru |-> u.tail_mru,
              next_victim |-> u.next_victim, next_mru |-> u.next_mru,
              prev_mru |-> u.prev_mru, entries |-> u.entries]
      /\ u.validity = c.validity \ {i} /\ u.entries = c.entries
      /\ u.next_mru = [j \in Slot |-> IF j = p THEN n ELSE c.next_mru[j]]
      /\ u.prev_mru = [j \in Slot |-> IF j = n THEN p ELSE c.prev_mru[j]]
      /\ u.head_mru = (IF c.head_mru = i THEN n ELSE c.head_mru)
      /\ u.tail_mru = (IF c.tail_mru = i THEN p ELSE c.tail_mru)
  BY <1>5, <1>6 DEF unlink, CacheOK
<1>8. CacheOK(u)
  BY <1>7 DEF CacheOK
<1>9. PICK w : w = Without(s, k)
  OBVIOUS
<1>10. /\ w \in Seq(Slot) /\ Len(w) = Len(s) - 1 /\ Len(w) \in Nat
       /\ \A j \in 1..Len(w) : w[j] = IF j < k THEN s[j] ELSE s[j + 1]
  <2>1. /\ Without(s, k) \in Seq(Slot) /\ Len(Without(s, k)) = Len(s) - 1
        /\ \A j \in 1..(Len(s) - 1) : Without(s, k)[j] = IF j < k THEN s[j] ELSE s[j + 1]
    BY <1>1, WithoutIs
  <2> QED BY <1>1, <1>9, <2>1
<1>11. \A j, m \in 1..Len(s) : s[j] = s[m] => j = m
  BY ListLinks
<1>12. \A j, m \in 1..Len(w) : j # m => w[j] # w[m]
  BY <1>1, <1>10, <1>11
<1>13. u.validity = {w[m] : m \in 1..Len(w)}
  <2>1. ASSUME NEW x \in u.validity PROVE \E m \in 1..Len(w) : x = w[m]
    <3>1. PICK j \in 1..Len(s) : x = s[j]
      BY <1>7, ListValid
    <3>2. j # k
      BY <1>2, <1>7, <3>1
    <3>3. CASE j < k
      <4>1. j \in 1..Len(w) /\ w[j] = s[j]
        BY <1>1, <1>10, <3>3
      <4> QED BY <3>1, <4>1
    <3>4. CASE j > k
      <4>1. j - 1 \in 1..Len(w) /\ ~(j - 1 < k) /\ (j - 1) + 1 = j
        BY <1>1, <1>10, <3>4
      <4>2. w[j - 1] = s[j]
        BY <1>10, <4>1
      <4> QED BY <3>1, <4>1, <4>2
    <3> QED BY <3>2, <3>3, <3>4
  <2>2. ASSUME NEW m \in 1..Len(w) PROVE w[m] \in u.validity
    <3>1. PICK j \in 1..Len(s) : w[m] = s[j] /\ j # k
      <4>1. CASE m < k
        BY <4>1, <1>1, <1>10
      <4>2. CASE ~(m < k)
        <5>1. m + 1 \in 1..Len(s) /\ w[m] = s[m + 1] /\ m + 1 # k
          BY <4>2, <1>1, <1>10
        <5> QED BY <5>1
      <4> QED BY <4>1, <4>2
    <3>2. s[j] # i /\ s[j] \in c.validity
      BY <1>2, <1>11, <3>1, ListValid
    <3> QED BY <1>7, <3>1, <3>2
  <2> QED BY <2>1, <2>2
<1>15. u.head_mru = IF Len(w) = 0 THEN 0 ELSE w[1]
  <2>1. c.head_mru = s[1]
    BY <1>1, ListLinks
  <2>2. CASE k = 1
    <3>1. u.head_mru = n
      BY <1>2, <1>7, <2>1, <2>2
    <3>2. CASE Len(s) = 1
      BY <1>3, <1>10, <2>2, <3>1, <3>2
    <3>3. CASE Len(s) # 1
      <4>1. 1 \in 1..Len(w) /\ Len(w) # 0 /\ n = s[2] /\ ~(1 < k)
        BY <1>1, <1>3, <1>10, <2>2, <3>3
      <4>2. w[1] = s[2]
        BY <1>10, <4>1
      <4> QED BY <3>1, <4>1, <4>2
    <3> QED BY <3>2, <3>3
  <2>3. CASE k # 1
    BY <1>1, <1>2, <1>7, <1>10, <1>11, <2>1, <2>3
  <2> QED BY <2>2, <2>3
<1>16. u.tail_mru = IF Len(w) = 0 THEN 0 ELSE w[Len(w)]
  <2>1. c.tail_mru = s[Len(s)]
    BY <1>1, ListLinks
  <2>2. CASE k = Len(s)
    <3>1. u.tail_mru = p
      BY <1>2, <1>7, <2>1, <2>2
    <3>2. CASE k = 1
      BY <1>4, <1>10, <2>2, <3>1, <3>2
    <3>3. CASE k # 1
      <4>1. Len(w) \in 1..Len(w) /\ Len(w) = k - 1 /\ Len(w) # 0 /\ p = s[k - 1] /\ Len(w) < k
        BY <1>1, <1>4, <1>10, <2>2, <3>3
      <4>2. w[Len(w)] = s[Len(w)]
        BY <1>10, <4>1
      <4> QED BY <3>1, <4>1, <4>2
    <3> QED BY <3>2, <3>3
  <2>3. CASE k # Len(s)
    <3>1. Len(s) \in 1..Len(s) /\ s[Len(s)] # s[k]
      BY <1>1, <1>11, <2>3
    <3>2. u.tail_mru = s[Len(s)]
      BY <1>2, <1>7, <2>1, <3>1
    <3>3. Len(w) \in 1..Len(w) /\ Len(w) + 1 = Len(s) /\ Len(w) # 0 /\ ~(Len(w) < k)
      BY <1>1, <1>10, <2>3
    <3>4. w[Len(w)] = s[Len(w) + 1]
      BY <1>10, <3>3
    <3> QED BY <3>2, <3>3, <3>4
  <2> QED BY <2>2, <2>3
<1>17. ASSUME NEW m \in 1..Len(w)
       PROVE  /\ u.next_mru[w[m]] = IF m = Len(w) THEN 0 ELSE w[m + 1]
              /\ u.prev_mru[w[m]] = IF m = 1 THEN 0 ELSE w[m - 1]
  <2>1. PICK j \in 1..Len(s) : j = IF m < k THEN m ELSE m + 1
    BY <1>1, <1>10
  <2>2. w[m] = s[j] /\ j # k /\ s[j] \in Slot
    BY <1>1, <1>10, <2>1
  <2>3. /\ c.next_mru[s[j]] = IF j = Len(s) THEN 0 ELSE s[j + 1]
        /\ c.prev_mru[s[j]] = IF j = 1 THEN 0 ELSE s[j - 1]
    BY ListLinks, SMTT(20)
  <2>4. s[j] = p <=> j = k - 1
    BY <1>1, <1>4, <1>11, SlotIs, <2>2, SMTT(20)
  <2>5. s[j] = n <=> j = k + 1
    BY <1>1, <1>3, <1>11, SlotIs, <2>2
  <2>6. u.next_mru[w[m]] = IF j = k - 1 THEN n ELSE c.next_mru[s[j]]
    BY <1>7, <2>2, <2>4
  <2>7. u.prev_mru[w[m]] = IF j = k + 1 THEN p ELSE c.prev_mru[s[j]]
    BY <1>7, <2>2, <2>5
  <2>8. u.next_mru[w[m]] = IF m = Len(w) THEN 0 ELSE w[m + 1]
    <3>1. CASE j = k - 1
      BY <1>1, <1>3, <1>10, <2>1, <2>6, <3>1
    <3>2. CASE j < k - 1
      <4>1. m = j /\ m # Len(w) /\ j # Len(s) /\ m + 1 \in 1..Len(w) /\ m + 1 < k /\ j # k - 1
        BY <1>1, <1>10, <2>1, <3>2
      <4>2. w[m + 1] = s[m + 1]
        BY <1>10, <4>1
      <4> QED BY <2>3, <2>6, <4>1, <4>2
    <3>3. CASE j > k
      BY <1>1, <1>10, <2>1, <2>3, <2>6, <3>3
    <3>4. k \in Int /\ j \in Int /\ (j = k - 1 \/ j < k - 1 \/ j > k)
      BY <1>1, <2>2
    <3> QED BY <3>1, <3>2, <3>3, <3>4
  <2>9. u.prev_mru[w[m]] = IF m = 1 THEN 0 ELSE w[m - 1]
    <3>1. CASE j = k + 1
      BY <1>1, <1>4, <1>10, <2>1, <2>7, <3>1
    <3>2. CASE j > k + 1
      BY <1>1, <1>10, <2>1, <2>3, <2>7, <3>2
    <3>3. CASE j < k
      BY <1>1, <1>10, <2>1, <2>3, <2>7, <3>3
    <3> QED BY <1>1, <2>2, <3>1, <3>2, <3>3
  <2> QED BY <2>8, <2>9
<1>18. IsList(u, w)
  BY <1>10, <1>12, <1>13, <1>15, <1>16, <1>17 DEF IsList
<1> QED BY <1>2, <1>6, <1>7, <1>8, <1>9, <1>18

\* __liballocs_cache_push_head_mru puts a slot in front.
LEMMA Pushed ==
    ASSUME NEW c, CacheOK(c), NEW s, IsList(c, s), NEW i \in Slot \ c.validity
    PROVE  /\ CacheOK(push_head_mru(c, i)) /\ IsList(push_head_mru(c, i), WithHead(i, s))
           /\ push_head_mru(c, i).entries = c.entries
           /\ push_head_mru(c, i).validity = c.validity \cup {i}
<1>1. s \in Seq(Slot) /\ Len(s) \in Nat /\ \A j \in 1..Len(s) : s[j] \in Slot
  BY ListSlots
<1>2. PICK h : h = IF Len(s) = 0 THEN 0 ELSE s[1]
  OBVIOUS
<1>3. c.head_mru = h
  BY <1>2, ListLinks
<1>4. PICK u : u = push_head_mru(c, i)
  OBVIOUS
<1>5. /\ u = [validity |-> u.validity, head_mru |-> u.head_mru, tail_mru |-> u.tail_mru,
              next_victim |-> u.next_victim, next_mru |-> u.next_mru,
              prev_mru |-> u.prev_mru, entries |-> u.entries]
      /\ u.validity = c.validity \cup {i} /\ u.entries = c.entries
      /\ u.next_mru = [c.next_mru EXCEPT ![i] = h]
      /\ u.prev_mru = [j \in Slot |-> IF j = i THEN 0 ELSE IF j = h THEN i ELSE c.prev_mru[j]]
      /\ u.head_mru = i
      /\ u.tail_mru = (IF c.tail_mru = 0 THEN i ELSE c.tail_mru)
  BY <1>3, <1>4 DEF push_head_mru, CacheOK
<1>6. u.next_mru = [j \in Slot |-> IF j = i THEN h ELSE c.next_mru[j]]
  BY <1>5 DEF CacheOK
<1>7. CacheOK(u)
  BY <1>5, <1>6 DEF CacheOK
<1>8. PICK w : w = WithHead(i, s)
  OBVIOUS
<1>9. /\ w \in Seq(Slot) /\ Len(w) = Len(s) + 1
      /\ \A j \in 1..Len(w) : w[j] = IF j = 1 THEN i ELSE s[j - 1]
  <2>1. /\ WithHead(i, s) \in Seq(Slot) /\ Len(WithHead(i, s)) = Len(s) + 1
        /\ \A j \in 1..(Len(s) + 1) : WithHead(i, s)[j] = IF j = 1 THEN i ELSE s[j - 1]
    <3>1. s \in Seq(Slot) /\ i \in Slot
      BY <1>1
    <3> QED BY <3>1, WithHeadIs
  <2> QED BY <1>1, <1>8, <2>1
<1>10. \A j \in 1..Len(s) : s[j] # i
  BY ListValid
<1>11. \A j, m \in 1..Len(s) : s[j] = s[m] => j = m
  BY ListLinks
<1>12. \A j, m \in 1..Len(w) : j # m => w[j] # w[m]
  <2> TAKE j, m \in 1..Len(w)
  <2> HAVE j # m
  <2>1. CASE j = 1
    BY <1>1, <1>9, <1>10, <2>1
  <2>2. CASE m = 1
    BY <1>1, <1>9, <1>10, <2>2
  <2>3. CASE j # 1 /\ m # 1
    <3>1. /\ j - 1 \in 1..Len(s) /\ m - 1 \in 1..Len(s) /\ w[j] = s[j - 1] /\ w[m] = s[m - 1]
          /\ j - 1 # m - 1
      BY <1>1, <1>9, <2>3
    <3> QED BY <1>11, <3>1
  <2> QED BY <2>1, <2>2, <2>3
<1>13. u.validity = {w[m] : m \in 1..Len(w)}
  <2>1. ASSUME NEW x \in u.validity PROVE \E m \in 1..Len(w) : x = w[m]
    <3>1. CASE x = i
      <4>1. 1 \in 1..Len(w) /\ w[1] = i
        BY <1>1, <1>9
      <4> QED BY <3>1, <4>1
    <3>2. CASE x \in c.validity
      <4>1. PICK j \in 1..Len(s) : x = s[j]
        BY <3>2, ListValid
      <4>2. j + 1 \in 1..Len(w) /\ j + 1 # 1 /\ (j + 1) - 1 = j
        BY <1>1, <1>9
      <4>3. w[j + 1] = s[j]
        BY <1>9, <4>2
      <4> QED BY <4>1, <4>2, <4>3
    <3> QED BY <1>5, <3>1, <3>2
  <2>2. ASSUME NEW m \in 1..Len(w) PROVE w[m] \in u.validity
    <3>1. CASE m = 1
      BY <1>5, <1>9, <3>1
    <3>2. CASE m # 1
      <4>1. m - 1 \in 1..Len(s) /\ w[m] = s[m - 1]
        BY <1>1, <1>9, <3>2
      <4> QED BY <1>5, <4>1, ListValid
    <3> QED BY <3>1, <3>2
  <2> QED BY <2>1, <2>2
<1>15. u.head_mru = IF Len(w) = 0 THEN 0 ELSE w[1]
  BY <1>1, <1>5, <1>9
<1>16. u.tail_mru = IF Len(w) = 0 THEN 0 ELSE w[Len(w)]
  <2>1. CASE Len(s) = 0
    BY <2>1, <1>5, <1>9, ListLinks
  <2>2. CASE Len(s) # 0
    <3>1. c.tail_mru = s[Len(s)] /\ s[Len(s)] \in Slot
      BY <2>2, <1>1, ListLinks
    <3> QED BY <2>2, <1>1, <1>5, <1>9, <3>1, SlotIs, SMTT(20)
  <2> QED BY <2>1, <2>2
<1>17. ASSUME NEW m \in 1..Len(w)
       PROVE  /\ u.next_mru[w[m]] = IF m = Len(w) THEN 0 ELSE w[m + 1]
              /\ u.prev_mru[w[m]] = IF m = 1 THEN 0 ELSE w[m - 1]
  <2>1. CASE m = 1
    <3>1. w[m] = i
      BY <1>9, <2>1
    <3>2. u.next_mru[i] = h /\ u.prev_mru[i] = 0
      BY <1>5, <1>6
    <3> QED BY <1>1, <1>2, <1>9, <2>1, <3>1, <3>2
  <2>2. CASE m # 1
    <3>1. PICK j \in 1..Len(s) : m = j + 1
      <4>1. m - 1 \in 1..Len(s) /\ m = (m - 1) + 1
        BY <1>1, <1>9, <2>2
      <4> QED BY <4>1
    <3>2. w[m] = s[j] /\ s[j] # i /\ s[j] \in Slot
      BY <1>1, <1>9, <1>10, <2>2, <3>1
    <3>3. /\ c.next_mru[s[j]] = IF j = Len(s) THEN 0 ELSE s[j + 1]
          /\ c.prev_mru[s[j]] = IF j = 1 THEN 0 ELSE s[j - 1]
      BY ListLinks
    <3>4. u.next_mru[w[m]] = c.next_mru[s[j]]
      BY <1>6, <3>2
    <3>5. s[j] = h <=> j = 1
      BY <1>1, <1>2, <1>11
    <3>6. u.prev_mru[w[m]] = IF j = 1 THEN i ELSE c.prev_mru[s[j]]
      BY <1>5, <3>2, <3>5
    <3>7. u.next_mru[w[m]] = IF m = Len(w) THEN 0 ELSE w[m + 1]
      BY <1>1, <1>9, <3>1, <3>3, <3>4
    <3>8. u.prev_mru[w[m]] = IF m = 1 THEN 0 ELSE w[m - 1]
      BY <1>1, <1>9, <3>1, <3>3, <3>6
    <3> QED BY <3>7, <3>8
  <2> QED BY <2>1, <2>2
<1>18. IsList(u, w)
  BY <1>9, <1>12, <1>13, <1>15, <1>16, <1>17 DEF IsList
<1> QED BY <1>4, <1>5, <1>7, <1>8, <1>18

-----------------------------------------------------------------------------
(* The walk of the list from its head. *)

\* The first n slots of the list, or all.
Upto(s, n) == [j \in 1..(IF n < Len(s) THEN n ELSE Len(s)) |-> s[j]]

LEMMA UptoIs ==
    ASSUME NEW S, NEW s \in Seq(S), NEW n \in Nat
    PROVE  /\ Upto(s, 0) = <<>>
           /\ Upto(s, n) \in Seq(S) /\ Len(Upto(s, n)) = IF n < Len(s) THEN n ELSE Len(s)
           /\ n >= Len(s) => Upto(s, n) = s /\ Upto(s, n + 1) = s
           /\ n < Len(s) => Append(Upto(s, n), s[n + 1]) = Upto(s, n + 1)
<1>1. Len(s) \in Nat /\ s = [j \in 1..Len(s) |-> s[j]] /\ \A j \in 1..Len(s) : s[j] \in S
  OBVIOUS
<1>2. Upto(s, n) \in Seq(S) /\ Len(Upto(s, n)) = IF n < Len(s) THEN n ELSE Len(s)
  <2>1. PICK m \in Nat : m = IF n < Len(s) THEN n ELSE Len(s)
    BY <1>1
  <2>2. Upto(s, n) \in [1..m -> S]
    BY <1>1, <2>1 DEF Upto
  <2> QED BY <2>1, <2>2, SeqForm
<1>3. ASSUME n >= Len(s) PROVE Upto(s, n) = s /\ Upto(s, n + 1) = s
  <2>1. ~(n < Len(s)) /\ ~(n + 1 < Len(s))
    BY <1>1, <1>3
  <2> QED BY <1>1, <2>1 DEF Upto
<1>4. ASSUME n < Len(s) PROVE Append(Upto(s, n), s[n + 1]) = Upto(s, n + 1)
  <2>1. Upto(s, n + 1) \in [1..(n + 1) -> S] /\ Upto(s, n) \in [1..n -> S]
    BY <1>1, <1>4 DEF Upto
  <2>2. Upto(s, n + 1) \in Seq(S) /\ Len(Upto(s, n + 1)) = n + 1 /\ Len(Upto(s, n)) = n
    BY <2>1, SeqForm
  <2>3. s[n + 1] \in S
    BY <1>1, <1>4
  <2>4. PICK a : a = Append(Upto(s, n), s[n + 1])
    OBVIOUS
  <2>5. a \in Seq(S) /\ Len(a) = n + 1
    BY <1>2, <2>2, <2>3, <2>4
  <2>6. ASSUME NEW j \in 1..(n + 1) PROVE a[j] = Upto(s, n + 1)[j]
    <3>1. Upto(s, n + 1)[j] = s[j]
      BY <1>1, <1>4 DEF Upto
    <3>2. CASE j = n + 1
      BY <1>2, <2>2, <2>4, <3>1, <3>2
    <3>3. CASE j # n + 1
      <4>1. j \in 1..n /\ Upto(s, n)[j] = s[j]
        BY <1>1, <1>4, <3>3 DEF Upto
      <4> QED BY <1>2, <2>2, <2>4, <3>1, <4>1
    <3> QED BY <3>2, <3>3
  <2>7. a = Upto(s, n + 1)
    BY <2>2, <2>5, <2>6, SeqSame
  <2> QED BY <2>4, <2>7
<1>5. Upto(s, 0) = <<>>
  <2>1. Upto(s, 0) \in [1..0 -> S]
    BY <1>1 DEF Upto
  <2> QED BY <2>1, SeqForm
<1> QED BY <1>2, <1>3, <1>4, <1>5

\* One step of the walk that MruOrder makes.
Walked(c, f) ==
    [n \in 0..(Slots + 1) |->
       IF n = 0 THEN <<>>
       ELSE IF After(c, f[n - 1]) = 0 THEN f[n - 1]
       ELSE Append(f[n - 1], After(c, f[n - 1]))]

\* The walk from head_mru along next_mru has exactly the slots of the list.
LEMMA MruOrderIs ==
    ASSUME NEW c, CacheOK(c), NEW s, IsList(c, s)
    PROVE  MruOrder(c) = s
<1>1. s \in Seq(Slot) /\ Len(s) \in Nat /\ \A j \in 1..Len(s) : s[j] \in Slot
  BY ListSlots
<1>2. Slots \in Nat
  BY SlotIs
<1>3. Len(s) <= Slots
  BY ListShort
<1>4. ASSUME NEW n \in Nat
      PROVE  /\ n < Len(s) => After(c, Upto(s, n)) = s[n + 1]
             /\ n >= Len(s) => After(c, Upto(s, n)) = 0
  <2>1. /\ Upto(s, n) \in Seq(Slot) /\ Len(Upto(s, n)) = IF n < Len(s) THEN n ELSE Len(s)
        /\ n >= Len(s) => Upto(s, n) = s
    BY <1>1, UptoIs
  <2>2. CASE n = 0
    <3>1. Upto(s, n) = <<>>
      BY <1>1, <2>2, UptoIs
    <3>2. After(c, Upto(s, n)) = c.head_mru
      BY <3>1 DEF After
    <3> QED BY <1>1, <2>2, <3>2, ListLinks
  <2>3. CASE n # 0 /\ n < Len(s)
    <3>1. Upto(s, n) # <<>> /\ Len(Upto(s, n)) = n
      BY <1>1, <2>1, <2>3
    <3>2. Upto(s, n)[n] = s[n] /\ n \in 1..Len(s)
      BY <1>1, <2>3 DEF Upto
    <3>3. After(c, Upto(s, n)) = c.next_mru[s[n]]
      BY <3>1, <3>2 DEF After
    <3>4. c.next_mru[s[n]] = IF n = Len(s) THEN 0 ELSE s[n + 1]
      BY <3>2, ListLinks
    <3> QED BY <1>1, <2>3, <3>3, <3>4
  <2>4. CASE n # 0 /\ n >= Len(s)
    <3>1. Upto(s, n) = s
      BY <2>1, <2>4
    <3>2. CASE Len(s) = 0
      <4>1. s = <<>>
        BY <1>1, <3>2
      <4> QED BY <2>4, <3>1, <3>2, <4>1, ListLinks DEF After
    <3>3. CASE Len(s) # 0
      <4>1. s # <<>> /\ Len(s) \in 1..Len(s)
        BY <1>1, <3>3
      <4>2. c.next_mru[s[Len(s)]] = 0
        BY <4>1, ListLinks
      <4> QED BY <1>1, <2>4, <3>1, <4>1, <4>2 DEF After
    <3> QED BY <3>2, <3>3
  <2>5. n >= Len(s) \/ n < Len(s)
    BY <1>1
  <2> QED BY <2>2, <2>3, <2>4, <2>5
<1>5. PICK g : g = [n \in 0..(Slots + 1) |-> Upto(s, n)]
  OBVIOUS
<1>6. ASSUME NEW n \in 0..(Slots + 1), n # 0
      PROVE  g[n] = IF After(c, g[n - 1]) = 0 THEN g[n - 1] ELSE Append(g[n - 1], After(c, g[n - 1]))
  <2>1. n - 1 \in Nat /\ n - 1 \in 0..(Slots + 1) /\ (n - 1) + 1 = n
    BY <1>2, <1>6
  <2>2. g[n] = Upto(s, n) /\ g[n - 1] = Upto(s, n - 1)
    BY <1>5, <2>1
  <2>3. CASE n - 1 < Len(s)
    <3>1. After(c, Upto(s, n - 1)) = s[n] /\ s[n] # 0
      <4>1. After(c, Upto(s, n - 1)) = s[(n - 1) + 1]
        BY <1>4, <2>1, <2>3
      <4>2. n \in 1..Len(s)
        BY <1>1, <2>1, <2>3
      <4> QED BY <1>1, <2>1, <4>1, <4>2, SlotIs
    <3>2. Append(Upto(s, n - 1), s[(n - 1) + 1]) = Upto(s, (n - 1) + 1)
      BY <1>1, <2>1, <2>3, UptoIs
    <3> QED BY <2>1, <2>2, <3>1, <3>2
  <2>4. CASE n - 1 >= Len(s)
    <3>1. After(c, Upto(s, n - 1)) = 0
      BY <1>4, <2>1, <2>4
    <3>2. Upto(s, n - 1) = s /\ Upto(s, (n - 1) + 1) = s
      BY <1>1, <2>1, <2>4, UptoIs
    <3> QED BY <2>1, <2>2, <3>1, <3>2
  <2> QED BY <1>1, <2>1, <2>3, <2>4
<1>7. g = Walked(c, g)
  <2>1. g[0] = <<>>
    BY <1>1, <1>2, <1>5, UptoIs
  <2>2. g = [n \in 0..(Slots + 1) |-> g[n]]
    BY <1>5
  <2> QED BY <1>6, <2>1, <2>2 DEF Walked
<1>8. ASSUME NEW f, f = Walked(c, f) PROVE f = g
  <2>1. PICK T : T = {n \in 0..(Slots + 1) : f[n] # g[n]}
    OBVIOUS
  <2>2. T = {}
    <3>1. SUFFICES ASSUME T # {} PROVE FALSE
      OBVIOUS
    <3>2. PICK n \in T : \A m \in T : n <= m
      BY <1>2, <2>1, <3>1, LeastOf
    <3>3. n \in 0..(Slots + 1) /\ f[n] # g[n]
      BY <2>1
    <3>4. n # 0
      <4>1. f[0] = <<>> /\ g[0] = <<>>
        BY <1>2, <1>7, <1>8 DEF Walked
      <4> QED BY <3>3, <4>1
    <3>5. n - 1 \in 0..(Slots + 1) /\ ~(n <= n - 1)
      BY <1>2, <3>3, <3>4
    <3>6. f[n - 1] = g[n - 1]
      BY <2>1, <3>2, <3>5
    <3>7. f[n] = Walked(c, f)[n] /\ g[n] = Walked(c, g)[n]
      BY <1>7, <1>8
    <3> QED BY <3>3, <3>6, <3>7 DEF Walked
  <2>3. f = [n \in 0..(Slots + 1) |-> f[n]] /\ g = [n \in 0..(Slots + 1) |-> g[n]]
    <3>1. Walked(c, f) = [n \in 0..(Slots + 1) |-> Walked(c, f)[n]]
      BY DEF Walked
    <3>2. f = [n \in 0..(Slots + 1) |-> f[n]]
      BY <1>8, <3>1, Zenon
    <3> QED BY <1>5, <3>2
  <2> QED BY <2>1, <2>2, <2>3
<1>9. MruOrder(c) = (CHOOSE f : f = Walked(c, f))[Slots + 1]
  BY DEF MruOrder, Walked
<1>10. (CHOOSE f : f = Walked(c, f)) = g
  BY <1>7, <1>8
<1>11. g[Slots + 1] = s
  <2>1. Slots + 1 \in 0..(Slots + 1) /\ Slots + 1 \in Nat /\ Slots + 1 >= Len(s)
    BY <1>1, <1>2, <1>3
  <2>2. Upto(s, Slots + 1) = s
    BY <1>1, <2>1, UptoIs
  <2> QED BY <1>5, <2>1, <2>2
<1> QED BY <1>9, <1>10, <1>11

-----------------------------------------------------------------------------
(* The lookups, and the invalidation. *)

\* The untyped lookup answers with a slot of the list whose range spans the address.
LEMMA NotypeFinds ==
    ASSUME NEW c, CacheOK(c), NEW s, IsList(c, s), NEW obj,
           lookup_notype(c, obj, 0) # 0
    PROVE  \E k \in 1..Len(s) : /\ s[k] = lookup_notype(c, obj, 0)
                                /\ Spans(c.entries[s[k]], obj)
<1>1. s \in Seq(Slot) /\ Len(s) \in Nat /\ DOMAIN s = 1..Len(s)
  BY ListSlots
<1>2. PICK H : H = {k \in DOMAIN s : /\ s[k] \in c.validity
                                     /\ Spans(c.entries[s[k]], obj)
                                     /\ \/ obj = c.entries[s[k]].obj_base /\ 0 = 0
                                        \/ AtPeriod(c.entries[s[k]], obj, 0)}
  OBVIOUS
<1>3. MruOrder(c) = s
  BY MruOrderIs
<1>4. lookup_notype(c, obj, 0) = IF H = {} THEN 0 ELSE s[Min(H)]
  BY <1>2, <1>3 DEF lookup_notype, FirstOf
<1>5. H # {} /\ H \subseteq Nat
  BY <1>1, <1>2, <1>4
<1>6. Min(H) \in H
  BY <1>5, MinIs
<1> QED BY <1>1, <1>2, <1>4, <1>5, <1>6

\* So does the typed one.
LEMMA TypedFinds ==
    ASSUME NEW c, CacheOK(c), NEW s, IsList(c, s), NEW obj, NEW p,
           lookup(c, obj, 1, p) # 0
    PROVE  \E k \in 1..Len(s) : s[k] = lookup(c, obj, 1, p)
<1>1. s \in Seq(Slot) /\ Len(s) \in Nat /\ DOMAIN s = 1..Len(s)
  BY ListSlots
<1>2. PICK H : H = {k \in DOMAIN s : /\ s[k] \in c.validity
                                     /\ c.entries[s[k]].depth = 1
                                     /\ Spans(c.entries[s[k]], obj)
                                     /\ \/ obj = c.entries[s[k]].obj_base
                                        \/ AtPeriod(c.entries[s[k]], obj, p)}
  OBVIOUS
<1>3. MruOrder(c) = s
  BY MruOrderIs
<1>4. lookup(c, obj, 1, p) = IF H = {} THEN 0 ELSE s[Min(H)]
  BY <1>2, <1>3 DEF lookup, FirstOf
<1>5. H # {} /\ H \subseteq Nat
  BY <1>1, <1>2, <1>4
<1>6. Min(H) \in H
  BY <1>5, MinIs
<1> QED BY <1>1, <1>2, <1>4, <1>5, <1>6

\* w is s with some of its places left out.
Thinned(w, s) ==
    \E place \in [1..Len(w) -> 1..Len(s)] :
        /\ \A j, k \in 1..Len(w) : j < k => place[j] < place[k]
        /\ \A j \in 1..Len(w) : w[j] = s[place[j]]

LEMMA ThinnedSelf ==
    ASSUME NEW S, NEW s \in Seq(S)
    PROVE  Thinned(s, s)
<1>1. PICK place : place = [j \in 1..Len(s) |-> j]
  OBVIOUS
<1>2. /\ place \in [1..Len(s) -> 1..Len(s)]
      /\ \A j, k \in 1..Len(s) : j < k => place[j] < place[k]
      /\ \A j \in 1..Len(s) : s[j] = s[place[j]]
  BY <1>1
<1> QED BY <1>2 DEF Thinned

LEMMA ThinnedMore ==
    ASSUME NEW S, NEW s \in Seq(S), NEW w \in Seq(S), Thinned(w, s), NEW m \in 1..Len(w)
    PROVE  Thinned(Without(w, m), s)
<1>1. PICK place \in [1..Len(w) -> 1..Len(s)] :
        /\ \A j, k \in 1..Len(w) : j < k => place[j] < place[k]
        /\ \A j \in 1..Len(w) : w[j] = s[place[j]]
  BY SMTT(20) DEF Thinned
<1>2. PICK x : x = Without(w, m)
  OBVIOUS
<1>3. /\ Len(x) = Len(w) - 1 /\ Len(w) \in Nat
      /\ \A j \in 1..Len(x) : x[j] = IF j < m THEN w[j] ELSE w[j + 1]
  <2>1. /\ Len(Without(w, m)) = Len(w) - 1
        /\ \A j \in 1..(Len(w) - 1) : Without(w, m)[j] = IF j < m THEN w[j] ELSE w[j + 1]
    BY WithoutIs
  <2> QED BY <1>2, <2>1
<1>4. PICK q : q = [j \in 1..Len(x) |-> IF j < m THEN place[j] ELSE place[j + 1]]
  OBVIOUS
<1>5. \A j \in 1..Len(x) : j \in 1..Len(w) /\ j + 1 \in 1..Len(w)
  BY <1>3
<1>6. q \in [1..Len(x) -> 1..Len(s)]
  BY <1>1, <1>4, <1>5
<1>7. \A j \in 1..Len(x) : x[j] = s[q[j]]
  BY <1>1, <1>3, <1>4, <1>5
<1>8. ASSUME NEW j \in 1..Len(x), NEW k \in 1..Len(x), j < k PROVE q[j] < q[k]
  <2>1. PICK a \in 1..Len(w) : a = (IF j < m THEN j ELSE j + 1) /\ q[j] = place[a]
    BY <1>4, <1>5
  <2>2. PICK b \in 1..Len(w) : b = (IF k < m THEN k ELSE k + 1) /\ q[k] = place[b]
    BY <1>4, <1>5
  <2>3. a < b
    BY <1>3, <1>8, <2>1, <2>2
  <2> QED BY <1>1, <2>1, <2>2, <2>3
<1>9. Thinned(x, s)
  BY <1>6, <1>7, <1>8 DEF Thinned
<1> QED BY <1>2, <1>9

\* What uncache_all has done once it has been through the slots up to n.
DoneUpto(c, s, lo, hi, u, n) ==
    /\ CacheOK(u) /\ u.entries = c.entries
    /\ u.validity = {x \in c.validity : x > n \/ ~Doomed(c.entries[x], lo, hi)}
    /\ \E w : IsList(u, w) /\ Thinned(w, s)

LEMMA DoneOneMore ==
    ASSUME NEW c, CacheOK(c), NEW s, IsList(c, s), NEW lo, NEW hi,
           NEW u, NEW n \in Nat, DoneUpto(c, s, lo, hi, u, n), NEW m, m = n + 1
    PROVE  DoneUpto(c, s, lo, hi, uncache(u, m, lo, hi), m)
<1>1. CacheOK(u) /\ u.entries = c.entries
  BY DEF DoneUpto
<1>2. u.validity = {x \in c.validity : x > n \/ ~Doomed(c.entries[x], lo, hi)}
  BY DEF DoneUpto
<1>3. PICK w : IsList(u, w) /\ Thinned(w, s)
  BY DEF DoneUpto
<1>4. c.validity \subseteq Nat
  <2>1. c.validity \subseteq Slot /\ Slot \subseteq Nat
    BY SlotIs DEF CacheOK, Slot
  <2> QED BY <2>1
<1>5. \A x \in c.validity : x > n <=> (x > m \/ x = m)
  BY <1>4
<1>6. s \in Seq(Slot) /\ w \in Seq(Slot)
  BY <1>3, ListSlots
<1>7. PICK D : D = Doomed(c.entries[m], lo, hi)
  OBVIOUS
<1>8. CASE m \in u.validity /\ D
  <2>1. uncache(u, m, lo, hi) = unlink(u, m)
    BY <1>1, <1>7, <1>8 DEF uncache
  <2>2. PICK k \in 1..Len(w) : m = w[k]
    BY <1>3, <1>8, ListValid
  <2>3. /\ CacheOK(unlink(u, m)) /\ IsList(unlink(u, m), Without(w, k))
        /\ unlink(u, m).entries = u.entries
        /\ unlink(u, m).validity = u.validity \ {m}
    BY <1>1, <1>3, <2>2, Unlinked
  <2>4. Thinned(Without(w, k), s)
    BY <1>3, <1>6, ThinnedMore
  <2>5. u.validity \ {m} = {x \in c.validity : x > m \/ ~Doomed(c.entries[x], lo, hi)}
    <3>1. ~(m > m) /\ Doomed(c.entries[m], lo, hi)
      BY <1>7, <1>8
    <3>2. \A x \in c.validity : (x # m /\ (x > n \/ ~Doomed(c.entries[x], lo, hi)))
                              <=> (x > m \/ ~Doomed(c.entries[x], lo, hi))
      BY <1>5, <3>1
    <3>3. u.validity \ {m} = {x \in c.validity : x # m /\ (x > n \/ ~Doomed(c.entries[x], lo, hi))}
      BY <1>2
    <3> QED BY <3>2, <3>3
  <2> QED BY <1>1, <2>1, <2>3, <2>4, <2>5 DEF DoneUpto
<1>9. CASE ~(m \in u.validity /\ D)
  <2>1. uncache(u, m, lo, hi) = u
    BY <1>1, <1>7, <1>9 DEF uncache
  <2>2. u.validity = {x \in c.validity : x > m \/ ~Doomed(c.entries[x], lo, hi)}
    BY <1>2, <1>5, <1>7, <1>9
  <2> QED BY <1>1, <1>3, <2>1, <2>2 DEF DoneUpto
<1> QED BY <1>8, <1>9

\* uncache_all's loop, as far as slot n.
Loop(c, lo, hi, n, f) ==
    [i \in 0..n |-> IF i = 0 THEN c ELSE uncache(f[i - 1], i, lo, hi)]

LEMMA LoopExists ==
    ASSUME NEW c, NEW lo, NEW hi, NEW n \in Nat
    PROVE  \E f : f = Loop(c, lo, hi, n, f)
<1>1. PICK T : T = {m \in Nat : ~\E f : f = Loop(c, lo, hi, m, f)}
  OBVIOUS
<1>2. SUFFICES ASSUME T # {} PROVE FALSE
  BY <1>1
<1>3. PICK m \in T : \A k \in T : m <= k
  BY <1>1, <1>2, LeastOf, SMTT(20)
<1>4. m \in Nat /\ ~\E f : f = Loop(c, lo, hi, m, f)
  BY <1>1
<1>5. CASE m = 0
  <2>1. PICK f : f = [i \in 0..0 |-> c]
    OBVIOUS
  <2>2. \A i \in 0..0 : i = 0
    OBVIOUS
  <2>3. f = Loop(c, lo, hi, 0, f)
    BY <2>1, <2>2 DEF Loop
  <2> QED BY <1>4, <1>5, <2>3
<1>6. CASE m # 0
  <2>1. m - 1 \in Nat /\ ~(m <= m - 1)
    BY <1>4, <1>6
  <2>2. PICK f : f = Loop(c, lo, hi, m - 1, f)
    BY <1>1, <1>3, <2>1
  <2>3. PICK g : g = [i \in 0..m |-> IF i = m THEN uncache(f[m - 1], m, lo, hi) ELSE f[i]]
    OBVIOUS
  <2>4. ASSUME NEW i \in 0..m
        PROVE  g[i] = IF i = 0 THEN c ELSE uncache(g[i - 1], i, lo, hi)
    <3>1. CASE i = m
      <4>1. m - 1 \in 0..m /\ m - 1 # m
        BY <1>4, <1>6
      <4>2. g[m - 1] = f[m - 1] /\ g[i] = uncache(f[m - 1], m, lo, hi)
        BY <2>3, <3>1, <4>1
      <4> QED BY <1>6, <3>1, <4>2
    <3>2. CASE i # m
      <4>1. i \in 0..(m - 1) /\ i # m /\ (i # 0 => i - 1 \in 0..m /\ i - 1 # m)
        BY <1>4, <3>2
      <4>2. g[i] = f[i] /\ (i # 0 => g[i - 1] = f[i - 1])
        BY <2>3, <4>1
      <4>3. f[i] = Loop(c, lo, hi, m - 1, f)[i]
        BY <2>2
      <4>4. f[i] = IF i = 0 THEN c ELSE uncache(f[i - 1], i, lo, hi)
        BY <4>1, <4>3 DEF Loop
      <4> QED BY <4>2, <4>4
    <3> QED BY <3>1, <3>2
  <2>5. g = [i \in 0..m |-> g[i]]
    BY <2>3
  <2>6. g = Loop(c, lo, hi, m, g)
    BY <2>4, <2>5 DEF Loop
  <2> QED BY <1>4, <2>6
<1> QED BY <1>5, <1>6

\* __liballocs_uncache_all drops exactly what begins in [lo, hi), and the other
\* slots stay in order.
LEMMA UncachedAll ==
    ASSUME NEW c, CacheOK(c), NEW s, IsList(c, s), NEW lo, NEW hi
    PROVE  DoneUpto(c, s, lo, hi, uncache_all(c, lo, hi), Slots)
<1>1. Slots \in Nat
  BY SlotIs
<1>2. PICK g : g = CHOOSE f : f = Loop(c, lo, hi, Slots, f)
  OBVIOUS
<1>3. g = Loop(c, lo, hi, Slots, g)
  BY <1>1, <1>2, LoopExists
<1>4. uncache_all(c, lo, hi) = g[Slots]
  BY <1>2 DEF uncache_all, Loop
<1>5. \A i \in 0..Slots : g[i] = IF i = 0 THEN c ELSE uncache(g[i - 1], i, lo, hi)
  <2> TAKE i \in 0..Slots
  <2>1. g[i] = Loop(c, lo, hi, Slots, g)[i]
    BY <1>3
  <2> QED BY <2>1 DEF Loop
<1>6. DoneUpto(c, s, lo, hi, g[0], 0)
  <2>1. g[0] = c
    BY <1>1, <1>5
  <2>2. c.validity \subseteq Slot /\ \A x \in Slot : x > 0
    BY SlotIs DEF CacheOK, Slot
  <2>3. c.validity = {x \in c.validity : x > 0 \/ ~Doomed(c.entries[x], lo, hi)}
    BY <2>2
  <2>4. Thinned(s, s)
    <3>1. s \in Seq(Slot)
      BY ListSlots
    <3> QED BY <3>1, ThinnedSelf
  <2> QED BY <2>1, <2>3, <2>4 DEF DoneUpto
<1>7. PICK T : T = {n \in 0..Slots : ~DoneUpto(c, s, lo, hi, g[n], n)}
  OBVIOUS
<1>8. T = {}
  <2>1. SUFFICES ASSUME T # {} PROVE FALSE
    OBVIOUS
  <2>2. PICK n \in T : \A m \in T : n <= m
    BY <1>1, <1>7, <2>1, LeastOf
  <2>3. n \in 0..Slots /\ ~DoneUpto(c, s, lo, hi, g[n], n)
    BY <1>7
  <2>4. n # 0
    BY <1>6, <2>3
  <2>5. n - 1 \in 0..Slots /\ n - 1 \in Nat /\ ~(n <= n - 1) /\ n = (n - 1) + 1
    BY <1>1, <2>3, <2>4
  <2>6. DoneUpto(c, s, lo, hi, g[n - 1], n - 1)
    BY <1>7, <2>2, <2>5
  <2>7. DoneUpto(c, s, lo, hi, uncache(g[n - 1], n, lo, hi), n)
    BY <2>5, <2>6, DoneOneMore
  <2>8. g[n] = uncache(g[n - 1], n, lo, hi)
    BY <1>5, <2>3, <2>4
  <2> QED BY <2>3, <2>7, <2>8
<1> QED BY <1>1, <1>4, <1>7, <1>8

-----------------------------------------------------------------------------
(* The inductive invariant, over the values of the four variables: c, B, C and *)
(* d are those of cache, big, chunks and doing.                                *)

\* A range of depth 0 is an allocation: a big one that nothing is allocated in,
\* or a chunk.
Truthful(e, B, C) ==
    \/ \E b \in B : ~b.sub /\ b.by # "stack" /\ b.lo = e.obj_base /\ b.hi = e.obj_limit
    \/ \E r \in C : r.lo = e.obj_base /\ r.hi = e.obj_limit
Fine(e, B, C) == e \in Entry /\ (e.depth = 0 => Truthful(e, B, C))

IsBig(b) ==
    /\ b = [lo |-> b.lo, hi |-> b.hi, by |-> b.by, sub |-> b.sub]
    /\ b.lo \in 0..Limit /\ b.hi \in 0..Limit /\ b.lo < b.hi
    /\ b.by \in {"mmap", "stack"} /\ b.sub \in BOOLEAN
IsChunk(r, B) ==
    /\ r.lo \in 0..Limit /\ r.hi \in 0..Limit /\ r.lo < r.hi
    /\ \E b \in B : b.sub /\ b.lo <= r.lo /\ r.hi <= b.hi
\* Big allocations are apart, and every chunk is in one that is suballocated.
MemoryInv(B, C) ==
    /\ \A b \in B : IsBig(b)
    /\ \A a, b \in B : a # b => a.hi <= b.lo \/ b.hi <= a.lo
    /\ \A r \in C : IsChunk(r, B)

\* The links make a list, and every range in it is fine.
ListInv(c, B, C) ==
    /\ CacheOK(c) /\ IsList(c, MruOrder(c))
    /\ \A i \in c.validity : Fine(c.entries[i], B, C)

\* What a thread may be in the middle of: a bump, with its slot in no list, or a
\* free, with nothing cached that begins where it frees.
Bumping(r, c, B, C) ==
    /\ r.op \in {"hit", "insert"} /\ r.slot \in Slot \ c.validity
    /\ Fine(c.entries[r.slot], B, C)
Freeing(r, c) ==
    /\ r.op = "free"
    /\ \A i \in c.validity : c.entries[i].obj_base # r.lo
\* At most one thread is in the middle of something.
DoingInv(d, c, B, C) ==
    \/ d = [t \in Threads |-> Idle]
    \/ \E t \in Threads : /\ d = [u \in Threads |-> IF u = t THEN d[t] ELSE Idle]
                          /\ Bumping(d[t], c, B, C) \/ Freeing(d[t], c)

CacheInv ==
    /\ ListInv(cache, big, chunks)
    /\ DoingInv(doing, cache, big, chunks)
    /\ MemoryInv(big, chunks)

-----------------------------------------------------------------------------
(* The ranges in order of use. *)

\* The ranges at the slots a, when entries is E.
View(E, a) == [j \in 1..Len(a) |-> E[a[j]]]

\* RecentlyUsed, over the values of cache and InTransit.
RecentOf(c, T) ==
    LET moved == IF T = {} THEN <<>> ELSE <<CHOOSE i \in T : TRUE>>
        all == moved \o MruOrder(c)
    IN  [k \in DOMAIN all |-> c.entries[all[k]]]
TransitOf(d) == {d[t].slot : t \in {u \in Threads : d[u].op \in {"hit", "insert"}}}
Quiet == [t \in Threads |-> Idle]

\* A cache c and its thread's business d, when the slots in order of use are a.
Ordered(c, d, a) ==
    /\ CacheOK(c)
    /\ \/ d = Quiet /\ IsList(c, a)
       \/ \E t \in Threads, i \in Slot \ c.validity, s \in Seq(Slot) :
            /\ d = [u \in Threads |-> IF u = t THEN d[t] ELSE Idle]
            /\ d[t].op \in {"hit", "insert"} /\ d[t].slot = i
            /\ IsList(c, s) /\ a = WithHead(i, s)

LEMMA IdleIs ==
    /\ Idle.op = "idle" /\ Idle.slot = 0 /\ Idle.lo = 0 /\ Idle.hi = 0
    /\ \A t \in Threads : Quiet[t] = Idle
BY DEF Idle, Quiet

LEMMA ConcatOne ==
    ASSUME NEW S, NEW s \in Seq(S), NEW i \in S
    PROVE  <<i>> \o s = WithHead(i, s)
<1>1. <<i>> \in Seq(S) /\ Len(<<i>>) = 1 /\ <<i>>[1] = i
  OBVIOUS
<1>2. PICK w : w = <<i>> \o s
  OBVIOUS
<1>3. /\ w \in Seq(S) /\ Len(w) = 1 + Len(s)
      /\ \A j \in 1..(1 + Len(s)) : w[j] = IF j <= 1 THEN i ELSE s[j - 1]
  <2>1. /\ <<i>> \o s \in Seq(S)
        /\ Len(<<i>> \o s) = Len(<<i>>) + Len(s)
        /\ \A j \in 1..(Len(<<i>>) + Len(s)) :
             (<<i>> \o s)[j] = IF j <= Len(<<i>>) THEN <<i>>[j] ELSE s[j - Len(<<i>>)]
    BY <1>1, ConcatIs
  <2> QED BY <1>1, <1>2, <2>1
<1>4. PICK x : x = WithHead(i, s)
  OBVIOUS
<1>5. /\ x \in Seq(S) /\ Len(x) = Len(s) + 1
      /\ \A j \in 1..(Len(s) + 1) : x[j] = IF j = 1 THEN i ELSE s[j - 1]
  <2>1. /\ WithHead(i, s) \in Seq(S) /\ Len(WithHead(i, s)) = Len(s) + 1
        /\ \A j \in 1..(Len(s) + 1) : WithHead(i, s)[j] = IF j = 1 THEN i ELSE s[j - 1]
    BY WithHeadIs
  <2> QED BY <1>4, <2>1
<1>6. Len(w) = Len(x) /\ \A j \in 1..Len(w) : w[j] = x[j]
  BY <1>3, <1>5
<1>7. w = x
  BY <1>3, <1>5, <1>6, SeqSame
<1> QED BY <1>2, <1>4, <1>7

LEMMA OrderedSlots ==
    ASSUME NEW c, NEW d, NEW a, Ordered(c, d, a)
    PROVE  /\ a \in Seq(Slot) /\ Len(a) \in Nat
           /\ \A j \in 1..Len(a) : a[j] \in Slot
           /\ DOMAIN a = 1..Len(a)
<1>1. CASE d = Quiet /\ IsList(c, a)
  <2>1. a \in Seq(Slot)
    BY <1>1, ListSlots
  <2> QED BY <2>1
<1>2. ASSUME NEW t \in Threads, NEW i \in Slot \ c.validity, NEW s \in Seq(Slot), a = WithHead(i, s)
      PROVE  a \in Seq(Slot)
  <2>1. i \in Slot
    OBVIOUS
  <2> QED BY <1>2, <2>1, WithHeadIs
<1>3. a \in Seq(Slot)
  BY <1>1, <1>2 DEF Ordered
<1> QED BY <1>3

\* RecentlyUsed shows the slots in order of use.
LEMMA OrderedView ==
    ASSUME NEW c, NEW d, NEW a, Ordered(c, d, a)
    PROVE  RecentOf(c, TransitOf(d)) = View(c.entries, a)
<1>0. DOMAIN a = 1..Len(a)
  BY OrderedSlots
<1>1. CASE d = Quiet /\ IsList(c, a)
  <2>1. TransitOf(d) = {}
    BY <1>1, IdleIs DEF TransitOf
  <2>2. MruOrder(c) = a /\ a \in Seq(Slot)
    BY <1>1, MruOrderIs, ListSlots DEF Ordered
  <2>3. <<>> \o a = a
    BY <2>2
  <2> QED BY <1>0, <2>1, <2>2, <2>3 DEF RecentOf, View
<1>2. ASSUME NEW t \in Threads, NEW i \in Slot \ c.validity, NEW s \in Seq(Slot),
             d = [u \in Threads |-> IF u = t THEN d[t] ELSE Idle],
             d[t].op \in {"hit", "insert"}, d[t].slot = i,
             IsList(c, s), a = WithHead(i, s)
      PROVE  RecentOf(c, TransitOf(d)) = View(c.entries, a)
  <2>1. \A u \in Threads : d[u].op \in {"hit", "insert"} <=> u = t
    <3>1. ASSUME NEW u \in Threads, u # t PROVE d[u] = Idle
      BY <1>2, <3>1
    <3> QED BY <1>2, <3>1, IdleIs
  <2>2. TransitOf(d) = {i}
    BY <1>2, <2>1 DEF TransitOf
  <2>3. MruOrder(c) = s
    BY <1>2, MruOrderIs DEF Ordered
  <2>4. (CHOOSE x \in {i} : TRUE) = i
    OBVIOUS
  <2>5. <<i>> \o s = a
    BY <1>2, ConcatOne
  <2> QED BY <1>0, <2>2, <2>3, <2>4, <2>5 DEF RecentOf, View
<1> QED BY <1>1, <1>2 DEF Ordered

\* When every range in order of use is fine, the invariant holds of the cache.
LEMMA OrderedInv ==
    ASSUME NEW c, NEW d, NEW a, Ordered(c, d, a), NEW B, NEW C,
           \A j \in 1..Len(a) : Fine(c.entries[a[j]], B, C)
    PROVE  ListInv(c, B, C) /\ DoingInv(d, c, B, C)
<1>1. CASE d = Quiet /\ IsList(c, a)
  <2>1. CacheOK(c) /\ MruOrder(c) = a
    BY <1>1, MruOrderIs DEF Ordered
  <2>2. \A i \in c.validity : Fine(c.entries[i], B, C)
    BY <1>1, ListValid
  <2> QED BY <1>1, <2>1, <2>2 DEF ListInv, DoingInv, Quiet
<1>2. ASSUME NEW t \in Threads, NEW i \in Slot \ c.validity, NEW s \in Seq(Slot),
             d = [u \in Threads |-> IF u = t THEN d[t] ELSE Idle],
             d[t].op \in {"hit", "insert"}, d[t].slot = i,
             IsList(c, s), a = WithHead(i, s)
      PROVE  ListInv(c, B, C) /\ DoingInv(d, c, B, C)
  <2>1. CacheOK(c) /\ MruOrder(c) = s
    BY <1>2, MruOrderIs DEF Ordered
  <2>2. /\ Len(a) = Len(s) + 1 /\ Len(s) \in Nat
        /\ \A j \in 1..(Len(s) + 1) : a[j] = IF j = 1 THEN i ELSE s[j - 1]
    <3>1. i \in Slot
      OBVIOUS
    <3>2. /\ Len(WithHead(i, s)) = Len(s) + 1
          /\ \A j \in 1..(Len(s) + 1) : WithHead(i, s)[j] = IF j = 1 THEN i ELSE s[j - 1]
      BY <3>1, WithHeadIs
    <3> QED BY <1>2, <3>2
  <2>3. Fine(c.entries[i], B, C)
    <3>1. 1 \in 1..Len(a) /\ a[1] = i
      BY <2>2
    <3> QED BY <3>1
  <2>4. ASSUME NEW x \in c.validity PROVE Fine(c.entries[x], B, C)
    <3>1. PICK k \in 1..Len(s) : x = s[k]
      BY <1>2, ListValid
    <3>2. k + 1 \in 1..Len(a) /\ k + 1 # 1 /\ (k + 1) - 1 = k
      BY <2>2
    <3>3. a[k + 1] = x
      BY <2>2, <3>1, <3>2
    <3> QED BY <3>2, <3>3
  <2>5. Bumping(d[t], c, B, C)
    BY <1>2, <2>3 DEF Bumping
  <2>6. DoingInv(d, c, B, C)
    BY <1>2, <2>5 DEF DoingInv
  <2> QED BY <1>2, <2>1, <2>4, <2>6 DEF ListInv
<1> QED BY <1>1, <1>2 DEF Ordered

-----------------------------------------------------------------------------
(* What a bump and an insertion do to the order. *)

\* Neither next_victim nor the entries matter to the list.
LEMMA SameLinks ==
    ASSUME NEW c, NEW s, IsList(c, s), NEW u,
           u.validity = c.validity, u.head_mru = c.head_mru, u.tail_mru = c.tail_mru,
           u.next_mru = c.next_mru, u.prev_mru = c.prev_mru
    PROVE  IsList(u, s)
BY Zenon DEF IsList

LEMMA VictimKept ==
    ASSUME NEW c, CacheOK(c), NEW s, IsList(c, s), NEW i
    PROVE  /\ CacheOK(bump_victim(c, i)) /\ IsList(bump_victim(c, i), s)
           /\ bump_victim(c, i).entries = c.entries
           /\ bump_victim(c, i).validity = c.validity
<1>1. PICK v : v = 1 + (i % Slots)
  OBVIOUS
<1>2. PICK u : u = [c EXCEPT !.next_victim = v]
  OBVIOUS
<1>3. /\ u = [validity |-> u.validity, head_mru |-> u.head_mru, tail_mru |-> u.tail_mru,
              next_victim |-> u.next_victim, next_mru |-> u.next_mru,
              prev_mru |-> u.prev_mru, entries |-> u.entries]
      /\ u.validity = c.validity /\ u.head_mru = c.head_mru /\ u.tail_mru = c.tail_mru
      /\ u.next_mru = c.next_mru /\ u.prev_mru = c.prev_mru /\ u.entries = c.entries
  BY <1>2 DEF CacheOK
<1>4. IsList(u, s)
  BY <1>3, SameLinks
<1>5. CacheOK(u)
  BY <1>3 DEF CacheOK
<1>6. bump_victim(c, i) = u \/ bump_victim(c, i) = c
  BY <1>1, <1>2 DEF bump_victim
<1> QED BY <1>3, <1>4, <1>5, <1>6

Written(c, i, e) == [c EXCEPT !.entries[i] = e]
LEMMA Overwritten ==
    ASSUME NEW c, CacheOK(c), NEW s, IsList(c, s), NEW i \in Slot, NEW e,
           NEW u, u = Written(c, i, e)
    PROVE  /\ CacheOK(u) /\ IsList(u, s) /\ u.validity = c.validity
           /\ u.entries = [j \in Slot |-> IF j = i THEN e ELSE c.entries[j]]
<1>1. /\ u = [validity |-> u.validity, head_mru |-> u.head_mru, tail_mru |-> u.tail_mru,
              next_victim |-> u.next_victim, next_mru |-> u.next_mru,
              prev_mru |-> u.prev_mru, entries |-> u.entries]
      /\ u.validity = c.validity /\ u.head_mru = c.head_mru /\ u.tail_mru = c.tail_mru
      /\ u.next_mru = c.next_mru /\ u.prev_mru = c.prev_mru
      /\ u.entries = [c.entries EXCEPT ![i] = e]
  BY DEF CacheOK, Written
<1>2. IsList(u, s)
  BY <1>1, SameLinks
<1>3. u.entries = [j \in Slot |-> IF j = i THEN e ELSE c.entries[j]]
  BY <1>1 DEF CacheOK
<1>4. CacheOK(u)
  BY <1>1, <1>3 DEF CacheOK
<1> QED BY <1>1, <1>2, <1>3, <1>4

\* a is s with slot i in front, moved there if it was in s.
Fronted(a, s, i) ==
    \/ i \notin {s[k] : k \in 1..Len(s)} /\ a = WithHead(i, s)
    \/ \E k \in 1..Len(s) : i = s[k] /\ a = WithHead(i, Without(s, k))

LEMMA HeadFronted ==
    ASSUME NEW S, NEW s \in Seq(S), Len(s) # 0
    PROVE  WithHead(s[1], Without(s, 1)) = s
<1>1. 1 \in 1..Len(s) /\ s[1] \in S /\ Len(s) \in Nat
  OBVIOUS
<1>2. PICK w : w = Without(s, 1)
  OBVIOUS
<1>3. /\ w \in Seq(S) /\ Len(w) = Len(s) - 1
      /\ \A j \in 1..(Len(s) - 1) : w[j] = IF j < 1 THEN s[j] ELSE s[j + 1]
  <2>1. /\ Without(s, 1) \in Seq(S) /\ Len(Without(s, 1)) = Len(s) - 1
        /\ \A j \in 1..(Len(s) - 1) : Without(s, 1)[j] = IF j < 1 THEN s[j] ELSE s[j + 1]
    BY <1>1, WithoutIs
  <2> QED BY <1>2, <2>1
<1>4. PICK x : x = WithHead(s[1], w)
  OBVIOUS
<1>5. /\ x \in Seq(S) /\ Len(x) = Len(w) + 1
      /\ \A j \in 1..(Len(w) + 1) : x[j] = IF j = 1 THEN s[1] ELSE w[j - 1]
  <2>1. PICK h \in S : h = s[1]
    BY <1>1
  <2>2. w \in Seq(S)
    BY <1>3
  <2>3. /\ WithHead(h, w) \in Seq(S) /\ Len(WithHead(h, w)) = Len(w) + 1
        /\ \A j \in 1..(Len(w) + 1) : WithHead(h, w)[j] = IF j = 1 THEN h ELSE w[j - 1]
    BY <2>2, WithHeadIs
  <2> QED BY <1>4, <2>1, <2>3
<1>6. ASSUME NEW j \in 1..Len(x) PROVE x[j] = s[j]
  <2>1. CASE j = 1
    BY <1>1, <1>3, <1>5, <2>1
  <2>2. CASE j # 1
    <3>1. j - 1 \in 1..(Len(s) - 1) /\ ~(j - 1 < 1) /\ (j - 1) + 1 = j
      BY <1>1, <1>3, <1>5, <2>2
    <3>2. w[j - 1] = s[j]
      BY <1>3, <3>1
    <3> QED BY <1>1, <1>3, <1>5, <2>2, <3>2
  <2> QED BY <2>1, <2>2
<1>7. Len(x) = Len(s)
  BY <1>1, <1>3, <1>5
<1>8. x = s
  BY <1>5, <1>6, <1>7, SeqSame
<1> QED BY <1>2, <1>4, <1>8

\* The head is in front already.
LEMMA HeadOnly ==
    ASSUME NEW c, CacheOK(c), NEW s, IsList(c, s), NEW i \in Slot, c.head_mru = i,
           NEW a, Fronted(a, s, i)
    PROVE  a = s
<1>1. s \in Seq(Slot) /\ Len(s) \in Nat
  BY ListSlots
<1>2. Len(s) # 0 /\ i = s[1]
  BY ListLinks, SlotIs
<1>3. 1 \in 1..Len(s)
  BY <1>1, <1>2
<1>4. PICK k \in 1..Len(s) : i = s[k] /\ a = WithHead(i, Without(s, k))
  BY <1>2, <1>3 DEF Fronted
<1>5. k = 1
  BY <1>2, <1>3, <1>4, ListLinks
<1> QED BY <1>1, <1>2, <1>4, <1>5, HeadFronted

\* The first half of bump_mru takes the slot out of the list, if it is there.
LEMMA UnlinkedForBump ==
    ASSUME NEW c, CacheOK(c), NEW s, IsList(c, s), NEW i \in Slot, NEW a, Fronted(a, s, i)
    PROVE  \E w \in Seq(Slot) :
             /\ CacheOK(UnlinkForBump(c, i)) /\ IsList(UnlinkForBump(c, i), w)
             /\ UnlinkForBump(c, i).entries = c.entries
             /\ i \notin UnlinkForBump(c, i).validity
             /\ a = WithHead(i, w)
<1>1. i \in c.validity <=> \E k \in 1..Len(s) : i = s[k]
  BY ListValid
<1>2. CASE i \notin c.validity
  <2>1. UnlinkForBump(c, i) = c
    BY <1>2 DEF UnlinkForBump
  <2>2. a = WithHead(i, s) /\ s \in Seq(Slot)
    BY <1>1, <1>2, ListSlots DEF Fronted
  <2> QED BY <1>2, <2>1, <2>2
<1>3. CASE i \in c.validity
  <2>1. UnlinkForBump(c, i) = unlink(c, i)
    BY <1>3 DEF UnlinkForBump
  <2>2. PICK k \in 1..Len(s) : i = s[k] /\ a = WithHead(i, Without(s, k))
    BY <1>1, <1>3 DEF Fronted
  <2>3. /\ CacheOK(unlink(c, i)) /\ IsList(unlink(c, i), Without(s, k))
        /\ unlink(c, i).entries = c.entries
        /\ unlink(c, i).validity = c.validity \ {i}
    BY <2>2, Unlinked
  <2>4. Without(s, k) \in Seq(Slot)
    BY <2>3, ListSlots
  <2> QED BY <2>1, <2>2, <2>3, <2>4
<1> QED BY <1>2, <1>3

\* bump_mru in one go.
LEMMA Bumped ==
    ASSUME NEW c, CacheOK(c), NEW s, IsList(c, s), NEW i \in Slot, NEW a, Fronted(a, s, i)
    PROVE  /\ CacheOK(bump_mru(c, i)) /\ IsList(bump_mru(c, i), a)
           /\ bump_mru(c, i).entries = c.entries
<1>1. CASE c.head_mru = i
  <2>1. bump_mru(c, i) = c /\ a = s
    BY <1>1, HeadOnly DEF bump_mru
  <2> QED BY <2>1
<1>2. CASE c.head_mru # i
  <2>1. PICK u : u = UnlinkForBump(c, i)
    OBVIOUS
  <2>2. PICK w \in Seq(Slot) : /\ CacheOK(u) /\ IsList(u, w) /\ u.entries = c.entries
                               /\ i \notin u.validity /\ a = WithHead(i, w)
    BY <2>1, UnlinkedForBump
  <2>3. /\ CacheOK(push_head_mru(u, i)) /\ IsList(push_head_mru(u, i), WithHead(i, w))
        /\ push_head_mru(u, i).entries = u.entries
    BY <2>2, Pushed
  <2>4. bump_mru(c, i) = push_head_mru(u, i)
    BY <1>2, <2>1 DEF bump_mru
  <2> QED BY <2>2, <2>3, <2>4
<1> QED BY <1>1, <1>2

\* A bump that begins, in halves or at the head.
LEMMA Begins ==
    ASSUME NEW t \in Threads, doing = Quiet,
           NEW c, CacheOK(c), NEW s, IsList(c, s), NEW i \in Slot, NEW op \in {"hit", "insert"},
           BeginBump(t, c, i, op), NEW a, Fronted(a, s, i)
    PROVE  Ordered(cache', doing', a) /\ cache'.entries = c.entries
<1>1. CASE c.head_mru = i
  <2>1. (cache' = bump_victim(c, i) \/ cache' = c) /\ doing' = Quiet
    BY <1>1 DEF BeginBump
  <2>2. a = s
    BY <1>1, HeadOnly
  <2>3. CacheOK(cache') /\ IsList(cache', s) /\ cache'.entries = c.entries
    BY <2>1, VictimKept
  <2> QED BY <2>1, <2>2, <2>3 DEF Ordered
<1>2. CASE c.head_mru # i
  <2>1. PICK r : r = [Idle EXCEPT !.op = op, !.slot = i]
    OBVIOUS
  <2>2. cache' = UnlinkForBump(c, i) /\ doing' = [doing EXCEPT ![t] = r]
    BY <1>2, <2>1 DEF BeginBump
  <2>3. r.op = op /\ r.slot = i
    BY <2>1 DEF Idle
  <2>4. doing' = [u \in Threads |-> IF u = t THEN r ELSE Idle]
    BY <2>2 DEF Quiet
  <2>5. doing'[t] = r
    BY <2>4
  <2>6. PICK w \in Seq(Slot) : /\ CacheOK(cache') /\ IsList(cache', w)
                               /\ cache'.entries = c.entries
                               /\ i \notin cache'.validity /\ a = WithHead(i, w)
    BY <2>2, UnlinkedForBump
  <2>7. /\ i \in Slot \ cache'.validity
        /\ doing' = [u \in Threads |-> IF u = t THEN doing'[t] ELSE Idle]
        /\ doing'[t].op \in {"hit", "insert"} /\ doing'[t].slot = i
    BY <2>3, <2>4, <2>5, <2>6
  <2> QED BY <2>6, <2>7 DEF Ordered
<1> QED BY <1>1, <1>2

LEMMA ViewIs ==
    ASSUME NEW E, NEW a \in Seq(Slot)
    PROVE  /\ Len(View(E, a)) = Len(a) /\ Len(a) \in Nat /\ View(E, a) = [j \in 1..Len(a) |-> E[a[j]]]
           /\ \A j \in 1..Len(a) : View(E, a)[j] = E[a[j]]
<1>1. View(E, a) = [j \in 1..Len(a) |-> E[a[j]]] /\ Len(a) \in Nat
  BY DEF View
<1>2. View(E, a) \in [1..Len(a) -> {E[a[j]] : j \in 1..Len(a)}]
  BY <1>1
<1>3. Len(View(E, a)) = Len(a)
  BY <1>1, <1>2, SeqForm
<1> QED BY <1>1, <1>3

\* Writing e into slot i and putting that in front puts e in front.
LEMMA ViewWithHead ==
    ASSUME NEW E, NEW w \in Seq(Slot), NEW i \in Slot, \A j \in 1..Len(w) : w[j] # i, NEW e,
           NEW F, F[i] = e, \A j \in Slot : j # i => F[j] = E[j]
    PROVE  View(F, WithHead(i, w)) = WithHead(e, View(E, w))
<1>1. PICK a : a = WithHead(i, w)
  OBVIOUS
<1>2. /\ a \in Seq(Slot) /\ Len(a) = Len(w) + 1 /\ Len(w) \in Nat
      /\ \A j \in 1..(Len(w) + 1) : a[j] = IF j = 1 THEN i ELSE w[j - 1]
  <2>1. /\ WithHead(i, w) \in Seq(Slot) /\ Len(WithHead(i, w)) = Len(w) + 1
        /\ \A j \in 1..(Len(w) + 1) : WithHead(i, w)[j] = IF j = 1 THEN i ELSE w[j - 1]
    BY WithHeadIs
  <2> QED BY <1>1, <2>1
<1>3. View(F, a) = [j \in 1..(Len(w) + 1) |-> F[a[j]]]
  BY <1>2 DEF View
<1>4. PICK v : v = View(E, w)
  OBVIOUS
<1>5. Len(v) = Len(w) /\ \A j \in 1..Len(w) : v[j] = E[w[j]]
  BY <1>4, ViewIs
<1>6. WithHead(e, v) = [j \in 1..(Len(w) + 1) |-> IF j = 1 THEN e ELSE v[j - 1]]
  BY <1>5 DEF WithHead
<1>7. ASSUME NEW j \in 1..(Len(w) + 1) PROVE F[a[j]] = IF j = 1 THEN e ELSE v[j - 1]
  <2>1. CASE j = 1
    BY <1>2, <2>1
  <2>2. CASE j # 1
    <3>1. PICK k \in 1..Len(w) : k = j - 1
      BY <1>2, <2>2
    <3>2. a[j] = w[k] /\ w[k] \in Slot /\ w[k] # i
      BY <1>2, <2>2, <3>1
    <3> QED BY <1>5, <2>2, <3>1, <3>2
  <2> QED BY <2>1, <2>2
<1>8. View(F, a) = WithHead(e, v)
  BY <1>3, <1>6, <1>7
<1> QED BY <1>1, <1>4, <1>8

LEMMA ViewWithout ==
    ASSUME NEW E, NEW s \in Seq(Slot), NEW k \in 1..Len(s)
    PROVE  View(E, Without(s, k)) = Without(View(E, s), k)
<1>1. PICK a : a = Without(s, k)
  OBVIOUS
<1>2. /\ Len(a) = Len(s) - 1 /\ Len(s) \in Nat
      /\ \A j \in 1..(Len(s) - 1) : a[j] = IF j < k THEN s[j] ELSE s[j + 1]
  <2>1. /\ Len(Without(s, k)) = Len(s) - 1
        /\ \A j \in 1..(Len(s) - 1) : Without(s, k)[j] = IF j < k THEN s[j] ELSE s[j + 1]
    BY WithoutIs
  <2> QED BY <1>1, <2>1
<1>3. View(E, a) = [j \in 1..(Len(s) - 1) |-> E[a[j]]]
  BY <1>2 DEF View
<1>4. PICK v : v = View(E, s)
  OBVIOUS
<1>5. Len(v) = Len(s) /\ \A j \in 1..Len(s) : v[j] = E[s[j]]
  BY <1>4, ViewIs
<1>6. Without(v, k) = [j \in 1..(Len(s) - 1) |-> IF j < k THEN v[j] ELSE v[j + 1]]
  BY <1>5 DEF Without
<1>7. ASSUME NEW j \in 1..(Len(s) - 1) PROVE E[a[j]] = IF j < k THEN v[j] ELSE v[j + 1]
  <2>1. j \in 1..Len(s) /\ j + 1 \in 1..Len(s)
    BY <1>2
  <2> QED BY <1>2, <1>5, <2>1
<1>8. View(E, a) = Without(v, k)
  BY <1>3, <1>6, <1>7
<1> QED BY <1>1, <1>4, <1>8

\* Where the slot of a list has been moved to the front.
LEMMA ViewUsed ==
    ASSUME NEW c, NEW s, IsList(c, s), NEW E, NEW k \in 1..Len(s)
    PROVE  /\ Fronted(WithHead(s[k], Without(s, k)), s, s[k])
           /\ View(E, WithHead(s[k], Without(s, k))) = WithHead(View(E, s)[k], Without(View(E, s), k))
<1>1. s \in Seq(Slot) /\ Len(s) \in Nat /\ s[k] \in Slot
  BY ListSlots
<1>2. PICK i \in Slot : i = s[k]
  BY <1>1
<1>3. PICK w : w = Without(s, k)
  OBVIOUS
<1>4. /\ w \in Seq(Slot) /\ Len(w) = Len(s) - 1
      /\ \A j \in 1..(Len(s) - 1) : w[j] = IF j < k THEN s[j] ELSE s[j + 1]
  <2>1. /\ Without(s, k) \in Seq(Slot) /\ Len(Without(s, k)) = Len(s) - 1
        /\ \A j \in 1..(Len(s) - 1) : Without(s, k)[j] = IF j < k THEN s[j] ELSE s[j + 1]
    BY <1>1, WithoutIs
  <2> QED BY <1>3, <2>1
<1>5. \A j \in 1..Len(w) : w[j] # i
  <2> TAKE j \in 1..Len(w)
  <2>1. PICK m \in 1..Len(s) : w[j] = s[m] /\ m # k
    <3>1. CASE j < k
      BY <1>1, <1>4, <3>1
    <3>2. CASE ~(j < k)
      <4>1. j + 1 \in 1..Len(s) /\ w[j] = s[j + 1] /\ j + 1 # k
        BY <1>1, <1>4, <3>2
      <4> QED BY <4>1
    <3> QED BY <3>1, <3>2
  <2> QED BY <1>2, <2>1, ListLinks
<1>6. View(E, WithHead(i, w)) = WithHead(E[i], View(E, w))
  <2>1. PICK e : e = E[i]
    OBVIOUS
  <2>2. w \in Seq(Slot)
    BY <1>4
  <2>3. View(E, WithHead(i, w)) = WithHead(e, View(E, w))
    BY <1>5, <2>1, <2>2, ViewWithHead
  <2> QED BY <2>1, <2>3
<1>7. View(E, w) = Without(View(E, s), k)
  BY <1>1, <1>3, ViewWithout
<1>8. View(E, s)[k] = E[i]
  BY <1>1, <1>2, ViewIs
<1>9. Fronted(WithHead(i, w), s, i)
  BY <1>2, <1>3 DEF Fronted
<1> QED BY <1>2, <1>3, <1>6, <1>7, <1>8, <1>9

\* What is kept of the ranges r when another one is cached.
KeptOf(r) == IF Len(r) < Slots THEN r ELSE Without(r, Len(r))

\* The slot that is filled is free, or the last of the list when none is.
LEMMA PositionIs ==
    ASSUME NEW c, CacheOK(c), NEW s, IsList(c, s)
    PROVE  /\ Position(c) \in Slot
           /\ Len(s) < Slots => Position(c) \notin c.validity
           /\ ~(Len(s) < Slots) => Len(s) \in 1..Len(s) /\ Position(c) = s[Len(s)]
<1>1. s \in Seq(Slot) /\ Len(s) \in Nat /\ \A j \in 1..Len(s) : s[j] \in Slot
  BY ListSlots
<1>2. c.validity \subseteq Slot
  BY DEF CacheOK
<1>3. Slots \in Nat \ {0}
  BY SlotIs
<1>4. CASE c.validity = Slot
  <2>1. Len(s) = Slots /\ Len(s) \in 1..Len(s)
    BY <1>1, <1>3, <1>4, ListShort
  <2>2. c.tail_mru = s[Len(s)]
    BY <1>3, <2>1, ListLinks
  <2>3. Position(c) = s[Len(s)]
    BY <1>4, <2>2 DEF Position
  <2> QED BY <1>1, <1>3, <2>1, <2>3
<1>5. CASE c.validity # Slot
  <2>1. Len(s) < Slots
    BY <1>1, <1>3, <1>5, ListShort
  <2>2. PICK T : T = Slot \ c.validity
    OBVIOUS
  <2>3. T # {} /\ T \subseteq Nat
    <3>1. Slot \subseteq Nat
      BY <1>3 DEF Slot
    <3> QED BY <1>2, <1>5, <2>2, <3>1
  <2>4. Min(T) \in T
    BY <2>3, MinIs
  <2>5. Position(c) = Min(T)
    BY <1>5, <2>2 DEF Position
  <2> QED BY <2>1, <2>2, <2>4, <2>5
<1> QED BY <1>4, <1>5

\* __liballocs_cache_with_type puts the new range in front, and drops the range
\* used longest ago when there is no room.
LEMMA Inserts ==
    ASSUME NEW t \in Threads, doing = Quiet,
           NEW c, CacheOK(c), NEW s, IsList(c, s), NEW e, cache_with_type(t, c, e)
    PROVE  \E a : /\ Ordered(cache', doing', a)
                  /\ View(cache'.entries, a) = WithHead(e, KeptOf(View(c.entries, s)))
<1>1. s \in Seq(Slot) /\ Len(s) \in Nat
  BY ListSlots
<1>2. PICK i \in Slot : i = Position(c)
  BY PositionIs
<1>3. PICK u : u = Written(c, i, e)
  OBVIOUS
<1>4. /\ CacheOK(u) /\ IsList(u, s) /\ u.validity = c.validity
      /\ u.entries = [j \in Slot |-> IF j = i THEN e ELSE c.entries[j]]
  BY <1>3, Overwritten
<1>5. u.entries[i] = e /\ \A j \in Slot : j # i => u.entries[j] = c.entries[j]
  BY <1>4
<1>6. BeginBump(t, u, i, "insert")
  BY <1>2, <1>3 DEF cache_with_type, Written
<1>7. Len(View(c.entries, s)) = Len(s)
  BY <1>1, ViewIs
<1>8. ASSUME NEW w \in Seq(Slot), \A j \in 1..Len(w) : w[j] # i, Fronted(WithHead(i, w), s, i),
             View(c.entries, w) = KeptOf(View(c.entries, s))
      PROVE  /\ Ordered(cache', doing', WithHead(i, w))
             /\ View(cache'.entries, WithHead(i, w)) = WithHead(e, KeptOf(View(c.entries, s)))
  <2>1. Ordered(cache', doing', WithHead(i, w)) /\ cache'.entries = u.entries
    BY <1>4, <1>6, <1>8, Begins
  <2>2. View(u.entries, WithHead(i, w)) = WithHead(e, View(c.entries, w))
    BY <1>5, <1>8, ViewWithHead
  <2> QED BY <1>8, <2>1, <2>2
<1>9. CASE Len(s) < Slots
  <2>1. i \notin c.validity
    BY <1>2, <1>9, PositionIs
  <2>2. \A j \in 1..Len(s) : s[j] # i
    BY <2>1, ListValid
  <2>3. Fronted(WithHead(i, s), s, i)
    BY <2>2 DEF Fronted
  <2>4. KeptOf(View(c.entries, s)) = View(c.entries, s)
    BY <1>7, <1>9 DEF KeptOf
  <2> QED BY <1>1, <1>8, <2>2, <2>3, <2>4
<1>10. CASE ~(Len(s) < Slots)
  <2>1. PICK k \in 1..Len(s) : k = Len(s) /\ i = s[k]
    BY <1>2, <1>10, PositionIs
  <2>2. PICK w : w = Without(s, k)
    OBVIOUS
  <2>3. /\ w \in Seq(Slot) /\ Len(w) = Len(s) - 1
        /\ \A j \in 1..(Len(s) - 1) : w[j] = IF j < k THEN s[j] ELSE s[j + 1]
    <3>1. /\ Without(s, k) \in Seq(Slot) /\ Len(Without(s, k)) = Len(s) - 1
          /\ \A j \in 1..(Len(s) - 1) : Without(s, k)[j] = IF j < k THEN s[j] ELSE s[j + 1]
      BY <1>1, WithoutIs
    <3> QED BY <2>2, <3>1
  <2>4. \A j \in 1..Len(w) : w[j] # i
    <3> TAKE j \in 1..Len(w)
    <3>1. j \in 1..Len(s) /\ j < k /\ w[j] = s[j] /\ j # k
      BY <1>1, <2>1, <2>3
    <3> QED BY <2>1, <3>1, ListLinks
  <2>5. Fronted(WithHead(i, w), s, i)
    BY <2>1, <2>2 DEF Fronted
  <2>6. View(c.entries, w) = Without(View(c.entries, s), k)
    BY <1>1, <2>2, ViewWithout
  <2>7. KeptOf(View(c.entries, s)) = Without(View(c.entries, s), k)
    BY <1>7, <1>10, <2>1 DEF KeptOf
  <2> QED BY <1>8, <2>3, <2>4, <2>5, <2>6, <2>7
<1> QED BY <1>9, <1>10

-----------------------------------------------------------------------------
(* The steps of RecentRanges, in the terms above. *)

LEMMA LastWithout ==
    ASSUME NEW S, NEW r \in Seq(S), Len(r) # 0
    PROVE  SubSeq(r, 1, Len(r) - 1) = Without(r, Len(r))
<1>1. Len(r) \in 1..Len(r) /\ Len(r) \in Nat /\ Len(r) - 1 \in Nat
  OBVIOUS
<1>2. PICK w : w = Without(r, Len(r))
  OBVIOUS
<1>3. /\ w \in Seq(S) /\ Len(w) = Len(r) - 1
      /\ \A j \in 1..(Len(r) - 1) : w[j] = IF j < Len(r) THEN r[j] ELSE r[j + 1]
  <2>1. /\ Without(r, Len(r)) \in Seq(S) /\ Len(Without(r, Len(r))) = Len(r) - 1
        /\ \A j \in 1..(Len(r) - 1) : Without(r, Len(r))[j] = IF j < Len(r) THEN r[j] ELSE r[j + 1]
    BY <1>1, WithoutIs, SMTT(20)
  <2> QED BY <1>2, <2>1
<1>4. PICK x : x = SubSeq(r, 1, Len(r) - 1)
  OBVIOUS
<1>5. x \in Seq(S) /\ Len(x) = Len(r) - 1 /\ \A j \in 1..(Len(r) - 1) : x[j] = r[j]
  <2>1. Len(r) - 1 \in 0..Len(r)
    BY <1>1
  <2>3. PICK n \in 0..Len(r) : n = Len(r) - 1
    BY <2>1, Zenon
  <2>2. SubSeq(r, 1, n) \in Seq(S) /\ Len(SubSeq(r, 1, n)) = n /\ \A j \in 1..n : SubSeq(r, 1, n)[j] = r[j]
    BY <1>1
  <2> QED BY <1>4, <2>3, <2>2
<1>6. \A j \in 1..Len(x) : x[j] = w[j]
  BY <1>1, <1>3, <1>5
<1>7. x = w
  BY <1>3, <1>5, <1>6, SeqSame
<1> QED BY <1>2, <1>4, <1>7

LEMMA CutWithout ==
    ASSUME NEW S, NEW r \in Seq(S), NEW k \in 1..Len(r)
    PROVE  /\ SubSeq(r, 1, k - 1) \in Seq(S) /\ SubSeq(r, k + 1, Len(r)) \in Seq(S)
           /\ SubSeq(r, 1, k - 1) \o SubSeq(r, k + 1, Len(r)) = Without(r, k)
<1>1. Len(r) \in Nat
  OBVIOUS
<1>2. PICK x : x = SubSeq(r, 1, k - 1)
  OBVIOUS
<1>3. PICK y : y = SubSeq(r, k + 1, Len(r))
  OBVIOUS
<1>4. x \in Seq(S) /\ Len(x) = k - 1 /\ \A j \in 1..(k - 1) : x[j] = r[j]
  BY <1>1, <1>2
<1>5. y \in Seq(S) /\ Len(y) = Len(r) - k /\ \A j \in 1..(Len(r) - k) : y[j] = r[k + j]
  <2>1. k + 1 \in Nat \ {0} /\ Len(r) \in Nat
    BY <1>1
  <2>2. Len(y) = IF k + 1 <= Len(r) THEN Len(r) - (k + 1) + 1 ELSE 0
    BY <1>1, <1>3, <2>1
  <2>3. Len(y) = Len(r) - k /\ Len(r) - k \in Nat
    BY <1>1, <2>2
  <2>4. y \in Seq(S)
    BY <1>1, <1>3
  <2>5. ASSUME NEW j \in 1..(Len(r) - k) PROVE y[j] = r[k + j]
    <3>1. j \in 1..Len(y) /\ (k + 1) + j - 1 = k + j
      BY <1>1, <2>3
    <3> QED BY <1>1, <1>3, <2>1, <3>1
  <2> QED BY <2>3, <2>4, <2>5
<1>6. PICK z : z = x \o y
  OBVIOUS
<1>7. /\ z \in Seq(S) /\ Len(z) = Len(r) - 1
      /\ \A j \in 1..(Len(r) - 1) : z[j] = IF j <= k - 1 THEN x[j] ELSE y[j - (k - 1)]
  <2>1. /\ x \o y \in Seq(S) /\ Len(x \o y) = Len(x) + Len(y)
        /\ \A j \in 1..(Len(x) + Len(y)) : (x \o y)[j] = IF j <= Len(x) THEN x[j] ELSE y[j - Len(x)]
    BY <1>4, <1>5, ConcatIs
  <2>2. Len(x) + Len(y) = Len(r) - 1
    BY <1>1, <1>4, <1>5
  <2> QED BY <1>4, <1>6, <2>1, <2>2
<1>8. PICK w : w = Without(r, k)
  OBVIOUS
<1>9. /\ w \in Seq(S) /\ Len(w) = Len(r) - 1
      /\ \A j \in 1..(Len(r) - 1) : w[j] = IF j < k THEN r[j] ELSE r[j + 1]
  <2>1. /\ Without(r, k) \in Seq(S) /\ Len(Without(r, k)) = Len(r) - 1
        /\ \A j \in 1..(Len(r) - 1) : Without(r, k)[j] = IF j < k THEN r[j] ELSE r[j + 1]
    BY WithoutIs
  <2> QED BY <1>8, <2>1
<1>10. ASSUME NEW j \in 1..Len(z) PROVE z[j] = w[j]
  <2>0. j \in 1..(Len(r) - 1)
    BY <1>7
  <2>1. CASE j < k
    <3>1. j <= k - 1 /\ j \in 1..(k - 1)
      BY <1>1, <2>0, <2>1
    <3> QED BY <1>4, <1>7, <1>9, <2>0, <2>1, <3>1
  <2>2. CASE ~(j < k)
    <3>1. PICK m \in 1..(Len(r) - k) : m = j - (k - 1) /\ k + m = j + 1 /\ ~(j <= k - 1)
      BY <1>1, <2>0, <2>2
    <3>2. z[j] = y[m] /\ y[m] = r[j + 1]
      BY <1>5, <1>7, <2>0, <3>1, SMTT(20)
    <3> QED BY <1>9, <2>0, <2>2, <3>2
  <2> QED BY <2>1, <2>2
<1>11. z = w
  BY <1>7, <1>9, <1>10, SeqSame
<1> QED BY <1>2, <1>3, <1>4, <1>5, <1>6, <1>8, <1>11

LEMMA FrontedIs ==
    ASSUME NEW S, NEW r \in Seq(S), NEW k \in 1..Len(r)
    PROVE  <<r[k]>> \o (SubSeq(r, 1, k - 1) \o SubSeq(r, k + 1, Len(r))) = WithHead(r[k], Without(r, k))
<1>1. PICK e \in S : e = r[k]
  OBVIOUS
<1>2. PICK x : x = SubSeq(r, 1, k - 1)
  OBVIOUS
<1>3. PICK y : y = SubSeq(r, k + 1, Len(r))
  OBVIOUS
<1>4. x \in Seq(S) /\ y \in Seq(S) /\ x \o y = Without(r, k)
  BY <1>2, <1>3, CutWithout
<1>7. x \o y \in Seq(S)
  BY <1>4, ConcatIs, Zenon
<1>8. <<e>> \o (x \o y) = WithHead(e, x \o y)
  BY <1>7, ConcatOne
<1> QED BY <1>1, <1>2, <1>3, <1>4, <1>8

LEMMA AddedIs ==
    ASSUME NEW S, NEW r \in Seq(S), NEW e \in S
    PROVE  /\ <<e>> \o (IF Len(r) < Slots THEN r ELSE SubSeq(r, 1, Len(r) - 1)) = WithHead(e, KeptOf(r))
           /\ KeptOf(r) \in Seq(S) /\ WithHead(e, KeptOf(r)) \in Seq(S)
<1>1. Slots \in Nat \ {0} /\ Len(r) \in Nat
  BY SlotIs
<1>2. KeptOf(r) = IF Len(r) < Slots THEN r ELSE SubSeq(r, 1, Len(r) - 1)
  <2>1. CASE Len(r) < Slots
    BY <2>1 DEF KeptOf
  <2>2. CASE ~(Len(r) < Slots)
    <3>1. Len(r) # 0
      BY <1>1, <2>2
    <3>2. SubSeq(r, 1, Len(r) - 1) = Without(r, Len(r))
      BY <3>1, LastWithout
    <3> QED BY <2>2, <3>2 DEF KeptOf
  <2> QED BY <2>1, <2>2
<1>3. PICK w : w = KeptOf(r)
  OBVIOUS
<1>4. w \in Seq(S)
  BY <1>1, <1>2, <1>3
<1>5. <<e>> \o w = WithHead(e, w) /\ WithHead(e, w) \in Seq(S)
  BY <1>4, ConcatOne, WithHeadIs
<1> QED BY <1>2, <1>3, <1>4, <1>5

=============================================================================
