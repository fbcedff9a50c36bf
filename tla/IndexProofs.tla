---------------------------- MODULE IndexProofs ----------------------------
(***************************************************************************)
(* Proofs about two indexes that are written word by word.                 *)
(*                                                                         *)
(* LazyIndex is the page index that is mapped as it is touched.  An        *)
(* operation is a sequence of accesses, each of which may trap before it   *)
(* is made; the handler that maps the page finds the others' entries as    *)
(* they were.                                                              *)
(*                                                                         *)
(* PrivateMalloc is liballocs' own heap: its chunks never overlap, and the *)
(* bitmap that is their index, whose wrappers set and clear a bit by       *)
(* reading and writing its word, marks the start of each and nothing else. *)
(***************************************************************************)
EXTENDS LazyIndex, PrivateMalloc, SequenceTheorems, WellFoundedInduction, TLAPS

-----------------------------------------------------------------------------
(* The accesses that memset_bigalloc makes. *)

Access1 == [does : {"check", "store", "read"}, at : Nat, wide : {1, 2}]
Covers(a, s) == a.does = "store" /\ s \in a.at..(a.at + a.wide - 1)

\* A sequence of accesses that checks only slots of K, writes exactly those
\* of W, and checks none that it has written.
Plan(q, K, W) ==
    /\ q \in Seq(Access1)
    /\ \A i \in 1..Len(q) :
         /\ q[i].does # "read"
         /\ q[i].does = "check" => q[i].at \in K
         /\ q[i].wide = 2 => q[i].at % 2 = 0
         /\ \A s \in Nat : Covers(q[i], s) => s \in W
    /\ \A s \in W : \E i \in 1..Len(q) : Covers(q[i], s)
    /\ \A i \in 1..Len(q), j \in 1..Len(q) :
         j < i /\ q[i].does = "check" => ~Covers(q[j], q[i].at)

LEMMA PlanJoin ==
    ASSUME NEW p, NEW q, NEW K, NEW L, NEW V, NEW W, Plan(p, K, V), Plan(q, L, W),
           V \cap L = {}
    PROVE  Plan(p \o q, K \cup L, V \cup W)
<1> DEFINE r == p \o q
<1>1. p \in Seq(Access1) /\ q \in Seq(Access1)
  BY DEF Plan
<1>2. /\ r \in Seq(Access1) /\ Len(r) = Len(p) + Len(q)
      /\ Len(p) \in Nat /\ Len(q) \in Nat
      /\ \A i \in 1..Len(p) : r[i] = p[i]
      /\ \A i \in 1..Len(q) : r[Len(p) + i] = q[i]
  BY <1>1, ConcatProperties, LenProperties
<1>3. \A i \in 1..Len(r) :
        \/ i \in 1..Len(p) /\ r[i] = p[i]
        \/ i - Len(p) \in 1..Len(q) /\ r[i] = q[i - Len(p)]
  <2> TAKE i \in 1..Len(r)
  <2>1. CASE i <= Len(p)
    BY <2>1, <1>2
  <2>2. CASE Len(p) < i
    <3>1. i - Len(p) \in 1..Len(q) /\ Len(p) + (i - Len(p)) = i
      BY <2>2, <1>2
    <3> QED BY <3>1, <1>2
  <2> QED BY <2>1, <2>2, <1>2
<1> HIDE DEF r
<1>4. \A i \in 1..Len(r) :
         /\ r[i].does # "read"
         /\ r[i].does = "check" => r[i].at \in K \cup L
         /\ r[i].wide = 2 => r[i].at % 2 = 0
         /\ \A s \in Nat : Covers(r[i], s) => s \in V \cup W
  <2> TAKE i \in 1..Len(r)
  <2>1. CASE i \in 1..Len(p) /\ r[i] = p[i]
    BY <2>1 DEF Plan
  <2>2. CASE i - Len(p) \in 1..Len(q) /\ r[i] = q[i - Len(p)]
    BY <2>2 DEF Plan
  <2> QED BY <1>3, <2>1, <2>2
<1>5. \A s \in V \cup W : \E i \in 1..Len(r) : Covers(r[i], s)
  <2> TAKE s \in V \cup W
  <2>1. CASE s \in V
    <3>1. PICK i \in 1..Len(p) : Covers(p[i], s)
      BY <2>1 DEF Plan
    <3>2. i \in 1..Len(r) /\ r[i] = p[i]
      BY <1>2
    <3> QED BY <3>1, <3>2
  <2>2. CASE s \in W
    <3>1. PICK i \in 1..Len(q) : Covers(q[i], s)
      BY <2>2 DEF Plan
    <3>2. Len(p) + i \in 1..Len(r)
      BY <1>2
    <3> QED BY <3>1, <3>2, <1>2, SMTT(20)
  <2> QED BY <2>1, <2>2
<1>6. ASSUME NEW i \in 1..Len(r), NEW j \in 1..Len(r), j < i, r[i].does = "check"
      PROVE  ~Covers(r[j], r[i].at)
  <2>1. CASE i \in 1..Len(p)
    <3>1. j \in 1..Len(p) /\ r[i] = p[i] /\ r[j] = p[j]
      BY <2>1, <1>2, <1>6
    <3> QED BY <3>1, <2>1, <1>6 DEF Plan
  <2>2. CASE i \notin 1..Len(p)
    <3>1. i - Len(p) \in 1..Len(q) /\ r[i] = q[i - Len(p)]
      BY <2>2, <1>3
    <3>2. r[i].at \in L /\ r[i].at \in Nat
      <4>1. r[i] \in Access1
        BY <1>2, ElementOfSeq
      <4> QED BY <3>1, <4>1, <1>6 DEF Plan, Access1
    <3>3. CASE j \in 1..Len(p) /\ r[j] = p[j]
      BY <3>2, <3>3 DEF Plan
    <3>4. CASE j - Len(p) \in 1..Len(q) /\ r[j] = q[j - Len(p)]
      <4>1. j - Len(p) < i - Len(p)
        BY <1>2, <1>6
      <4> QED BY <3>1, <3>4, <4>1, <1>6 DEF Plan
    <3> QED BY <3>3, <3>4, <1>3
  <2> QED BY <2>1, <2>2
<1> QED BY <1>2, <1>4, <1>5, <1>6 DEF Plan, r

LEMMA PlanEmpty == Plan(<<>>, {}, {})
BY DEF Plan

LEMMA PlanSingle ==
    ASSUME NEW s \in Nat
    PROVE  Plan(Check(s) \o Store(s, 1), {s}, {s})
<1>1. Plan(Check(s), {s}, {})
  <2>1. PICK q : q = <<[does |-> "check", at |-> s, wide |-> 1]>>
    OBVIOUS
  <2>2. q \in Seq(Access1) /\ Len(q) = 1 /\ q[1].does = "check" /\ q[1].at = s /\ q[1].wide = 1
    BY <2>1 DEF Access1
  <2>3. Plan(q, {s}, {})
    BY <2>2 DEF Plan, Covers
  <2> QED BY <2>1, <2>3 DEF Check
<1>2. Plan(Store(s, 1), {}, {s})
  <2>1. PICK q : q = <<[does |-> "store", at |-> s, wide |-> 1]>>
    OBVIOUS
  <2>2. q \in Seq(Access1) /\ Len(q) = 1 /\ q[1].does = "store" /\ q[1].at = s /\ q[1].wide = 1
    BY <2>1 DEF Access1
  <2>3. \A x \in Nat : Covers(q[1], x) <=> x = s
    BY <2>2 DEF Covers
  <2>4. Plan(q, {}, {s})
    BY <2>2, <2>3 DEF Plan
  <2> QED BY <2>1, <2>4 DEF Store
<1>3. Plan(Check(s) \o Store(s, 1), {s} \cup {}, {} \cup {s})
  BY <1>1, <1>2, PlanJoin, Zenon
<1>4. {s} \cup {} = {s} /\ {} \cup {s} = {s}
  OBVIOUS
<1> QED BY <1>3, <1>4

\* The accesses of a loop of checks, and of a loop of stores of pairs.
Checks(lo, n) == [i \in 1..n |-> [does |-> "check", at |-> lo + (i - 1), wide |-> 1]]
Pairs(lo, k) == [i \in 1..k |-> [does |-> "store", at |-> lo + 2 * (i - 1), wide |-> 2]]

LEMMA PlanChecks ==
    ASSUME NEW lo \in Nat, NEW n \in Nat
    PROVE  Plan(Checks(lo, n), lo..(lo + n - 1), {})
<1>1. PICK q : q = Checks(lo, n)
  OBVIOUS
<1>2. q \in Seq(Access1) /\ Len(q) = n
  BY <1>1 DEF Access1, Checks
<1>3. \A i \in 1..n : /\ q[i].does = "check" /\ q[i].at \in lo..(lo + n - 1) /\ q[i].wide = 1
                      /\ \A s : ~Covers(q[i], s)
  BY <1>1 DEF Covers, Checks
<1>4. Plan(q, lo..(lo + n - 1), {})
  BY <1>2, <1>3 DEF Plan
<1> QED BY <1>1, <1>4

LEMMA PlanPairs ==
    ASSUME NEW lo \in Nat, NEW k \in Nat, lo % 2 = 0
    PROVE  Plan(Pairs(lo, k), {}, lo..(lo + 2 * k - 1))
<1>1. PICK q : q = Pairs(lo, k)
  OBVIOUS
<1>2. q \in Seq(Access1) /\ Len(q) = k
  BY <1>1 DEF Access1, Pairs
<1>3. \A i \in 1..k : /\ q[i].does = "store" /\ q[i].at = lo + 2 * (i - 1)
                      /\ q[i].wide = 2 /\ q[i].at % 2 = 0
  BY <1>1 DEF Pairs
<1>4. \A i \in 1..k : \A s \in Nat : Covers(q[i], s) => s \in lo..(lo + 2 * k - 1)
  BY <1>3 DEF Covers
<1>5. ASSUME NEW s \in lo..(lo + 2 * k - 1)
      PROVE  \E i \in 1..k : Covers(q[i], s)
  <2>1. PICK i : i = (s - lo) \div 2 + 1
    OBVIOUS
  <2>2. i \in 1..k /\ s \in (lo + 2 * (i - 1))..(lo + 2 * (i - 1) + 1)
    BY <2>1
  <2>3. q[i].does = "store" /\ q[i].at = lo + 2 * (i - 1) /\ q[i].wide = 2
    BY <1>3, <2>2
  <2>4. Covers(q[i], s)
    BY <2>2, <2>3 DEF Covers
  <2> QED BY <2>2, <2>4
<1>6. Plan(q, {}, lo..(lo + 2 * k - 1))
  BY <1>2, <1>3, <1>4, <1>5 DEF Plan
<1> QED BY <1>1, <1>6

LEMMA PlanWeaken ==
    ASSUME NEW q, NEW K, NEW L, NEW W, Plan(q, K, W), K \subseteq L
    PROVE  Plan(q, L, W)
BY DEF Plan

LEMMA RangeGrows ==
    ASSUME NEW a \in Int, NEW b \in Int, a <= b
    PROVE  (a..(b - 1)) \cup {b} = a..b
OBVIOUS

\* Its four parts: the odd slot at the beginning, the checks of the others if
\* all are checked, the pairs, and the odd slot at the end.
Parts(first, odd, lo, n, old) ==
    (IF odd = 1 THEN Check(first) \o Store(first, 1) ELSE <<>>)
      \o (IF old # 0 THEN Checks(lo, n) ELSE <<>>)
      \o Pairs(lo, n \div 2)
      \o (IF n % 2 = 1 THEN Check(lo + n - 1) \o Store(lo + n - 1, 1) ELSE <<>>)

LEMMA PlanParts ==
    ASSUME NEW first \in Nat, NEW odd \in {0, 1}, NEW lo \in Nat, NEW n \in Nat, NEW old,
           lo = first + odd, lo % 2 = 0
    PROVE  Plan(Parts(first, odd, lo, n, old), first..(lo + n - 1), first..(lo + n - 1))
<1> DEFINE A == IF odd = 1 THEN Check(first) \o Store(first, 1) ELSE <<>>
           B == IF old # 0 THEN Checks(lo, n) ELSE <<>>
           C == Pairs(lo, n \div 2)
           D == IF n % 2 = 1 THEN Check(lo + n - 1) \o Store(lo + n - 1, 1) ELSE <<>>
<1> DEFINE Odd == IF odd = 1 THEN {first} ELSE {}
           Last == IF n % 2 = 1 THEN {lo + n - 1} ELSE {}
           Middle == lo..(lo + n - 1)
           Even == lo..(lo + 2 * (n \div 2) - 1)
           Checked == IF old # 0 THEN Middle ELSE {}
<1>1. Plan(A, Odd, Odd)
  BY PlanSingle, PlanEmpty
<1>2. Plan(B, Checked, {})
  <2>1. CASE old # 0
    <3>1. B = Checks(lo, n)
      BY <2>1
    <3> QED BY <2>1, <3>1, PlanChecks
  <2>2. CASE old = 0
    BY <2>2, PlanEmpty
  <2> QED BY <2>1, <2>2
<1>3. Plan(C, {}, Even)
  <2>1. n \div 2 \in Nat
    OBVIOUS
  <2> QED BY <2>1, PlanPairs
<1>4. Plan(D, Last, Last)
  <2>1. n % 2 = 1 => lo + n - 1 \in Nat
    OBVIOUS
  <2> QED BY <2>1, PlanSingle, PlanEmpty
<1> HIDE DEF A, B, C, D
<1>5. Plan(A \o B, Odd \cup Checked, Odd \cup {})
  <2>1. Odd \cap Checked = {}
    OBVIOUS
  <2> HIDE DEF Odd, Checked
  <2> QED BY <2>1, <1>1, <1>2, PlanJoin
<1>6. Plan((A \o B) \o C, (Odd \cup Checked) \cup {}, (Odd \cup {}) \cup Even)
  <2>1. (Odd \cup {}) \cap {} = {}
    OBVIOUS
  <2> HIDE DEF Odd, Checked, Even
  <2> QED BY <2>1, <1>3, <1>5, PlanJoin
<1>7. Plan(((A \o B) \o C) \o D, ((Odd \cup Checked) \cup {}) \cup Last,
           ((Odd \cup {}) \cup Even) \cup Last)
  <2>1. ((Odd \cup {}) \cup Even) \cap Last = {}
    OBVIOUS
  <2> HIDE DEF Odd, Checked, Even, Last
  <2> QED BY <2>1, <1>4, <1>6, PlanJoin
<1>8. ((Odd \cup {}) \cup Even) \cup Last = first..(lo + n - 1)
  <2>1. Odd \cup Middle = first..(lo + n - 1)
    <3>1. CASE odd = 0
      BY <3>1
    <3>2. CASE odd = 1
      BY <3>2
    <3> QED BY <3>1, <3>2
  <2>2. Even \cup Last = Middle
    <3>1. PICK k \in Nat : k = n \div 2
      OBVIOUS
    <3>2. CASE n % 2 = 0
      <4>1. n = 2 * k
        BY <3>1, <3>2
      <4> QED BY <3>1, <3>2, <4>1
    <3>3. CASE n % 2 = 1
      <4>1. n = 2 * k + 1
        BY <3>1, <3>3
      <4>2. PICK b : b = lo + 2 * k
        OBVIOUS
      <4>3. b \in Nat /\ lo <= b /\ lo + n - 1 = b /\ lo + 2 * (n \div 2) - 1 = b - 1
        BY <3>1, <4>1, <4>2
      <4>4. Even = lo..(b - 1) /\ Last = {b} /\ Middle = lo..b
        BY <3>3, <4>3
      <4> HIDE DEF Even, Last, Middle
      <4> QED BY <4>3, <4>4, RangeGrows
    <3> QED BY <3>2, <3>3
  <2>3. ((Odd \cup {}) \cup Even) \cup Last = Odd \cup (Even \cup Last)
    OBVIOUS
  <2> HIDE DEF Odd, Middle, Even, Last
  <2> QED BY <2>1, <2>2, <2>3
<1>9. ((Odd \cup Checked) \cup {}) \cup Last \subseteq first..(lo + n - 1)
  OBVIOUS
<1>10. PICK K : K = ((Odd \cup Checked) \cup {}) \cup Last
  OBVIOUS
<1>11. PICK W : W = ((Odd \cup {}) \cup Even) \cup Last
  OBVIOUS
<1> HIDE DEF Odd, Checked, Even, Last
<1>12. Plan(((A \o B) \o C) \o D, K, W) /\ W = first..(lo + n - 1) /\ K \subseteq W
  BY <1>7, <1>8, <1>9, <1>10, <1>11
<1>13. PICK q : q = ((A \o B) \o C) \o D
  OBVIOUS
<1>14. Plan(q, W, W)
  BY <1>12, <1>13, PlanWeaken
<1> QED BY <1>12, <1>13, <1>14 DEF Parts, A, B, C, D

\* What memset_bigalloc does to a run of slots: it writes them all and no
\* other, and checks none that it has written.
LEMMA MemsetPlan ==
    ASSUME NEW c \in Calls
    PROVE  Plan(memset_bigalloc(c), Within(c), Within(c)) /\ memset_bigalloc(c) # <<>>
<1>1. c.lo \in Nat /\ c.n \in Nat \ {0}
  BY UnitAssumption DEF Calls, Slot, AreaBegin, AreaEnd
<1> DEFINE odd == IF c.lo % 2 = 1 THEN 1 ELSE 0
           lo == c.lo + odd
           n == c.n - odd
<1>2. memset_bigalloc(c) = Parts(c.lo, odd, lo, n, c.old)
  <2>1. Times(n, LAMBDA i : Check(lo + i)[1]) = Checks(lo, n)
    BY DEF Times, Check, Checks
  <2>2. Times(n \div 2, LAMBDA i : Store(lo + 2 * i, 2)[1]) = Pairs(lo, n \div 2)
    BY DEF Times, Store, Pairs
  <2> QED BY <2>1, <2>2 DEF memset_bigalloc, Parts
<1>3. /\ odd \in {0, 1} /\ lo \in Nat /\ n \in Nat /\ lo % 2 = 0
      /\ lo = c.lo + odd /\ lo + n - 1 = c.lo + c.n - 1
  BY <1>1
<1> HIDE DEF odd, lo, n
<1>4. Plan(memset_bigalloc(c), Within(c), Within(c))
  BY <1>1, <1>2, <1>3, PlanParts, ZenonT(30) DEF Within
<1>5. c.lo \in Within(c)
  BY <1>1 DEF Within
<1> QED BY <1>4, <1>5 DEF Plan

\* What is left of a plan after its first access.
LEMMA PlanTail ==
    ASSUME NEW q, NEW K, NEW W, Plan(q, K, W), q # <<>>
    PROVE  \E V \in SUBSET W : Plan(Tail(q), K, V) /\ \A s \in W \ V : Covers(q[1], s)
<1>1. /\ q \in Seq(Access1) /\ Tail(q) \in Seq(Access1)
      /\ Len(q) \in Nat \ {0} /\ Len(Tail(q)) = Len(q) - 1
      /\ \A i \in 1..Len(Tail(q)) : i + 1 \in 1..Len(q) /\ Tail(q)[i] = q[i + 1]
  BY DEF Plan
<1>2. PICK r : r = Tail(q)
  OBVIOUS
<1> DEFINE V == {s \in W : \E i \in 1..Len(r) : Covers(r[i], s)}
<1>3. ASSUME NEW s \in W \ V
      PROVE  Covers(q[1], s)
  <2>1. PICK i \in 1..Len(q) : Covers(q[i], s)
    BY DEF Plan
  <2>2. CASE i = 1
    BY <2>1, <2>2
  <2>3. CASE i # 1
    <3>1. i - 1 \in 1..Len(r) /\ (i - 1) + 1 = i
      BY <2>3, <1>1, <1>2
    <3>2. r[i - 1] = q[i]
      BY <3>1, <1>1, <1>2
    <3> QED BY <2>1, <3>1, <3>2
  <2> QED BY <2>2, <2>3
<1>4. \A i \in 1..Len(r) :
         /\ r[i].does # "read"
         /\ r[i].does = "check" => r[i].at \in K
         /\ r[i].wide = 2 => r[i].at % 2 = 0
         /\ \A s \in Nat : Covers(r[i], s) => s \in V
  BY <1>1, <1>2 DEF Plan
<1>5. ASSUME NEW i \in 1..Len(r), NEW j \in 1..Len(r), j < i, r[i].does = "check"
      PROVE  ~Covers(r[j], r[i].at)
  <2>1. i + 1 \in 1..Len(q) /\ j + 1 \in 1..Len(q) /\ j + 1 < i + 1
    BY <1>1, <1>2, <1>5
  <2> QED BY <2>1, <1>1, <1>2, <1>5 DEF Plan
<1>6. Plan(r, K, V)
  BY <1>1, <1>2, <1>4, <1>5 DEF Plan
<1> QED BY <1>2, <1>3, <1>6

-----------------------------------------------------------------------------
(* The page index mapped on demand. *)

AllLazyContracts == {"faults_serialised", "sane_sizes"} \subseteq LazyContracts

\* A write c of which the accesses q are still to be made, with these values
\* in the index and on record.  What is left covers the slots that are not
\* written, and what is left to be checked is not written.
WriteOK(c, q, index, rec) ==
    /\ c \in Calls /\ Within(c) \subseteq Slot /\ c.num # c.old
    /\ q # <<>>
    /\ \A s \in Within(c) : rec[s] = c.old
    /\ \A i \in 1..Len(q) : q[i].does = "check" => index[q[i].at] = c.old
    /\ \E W \in SUBSET Within(c) :
         Plan(q, Within(c), W) /\ \A s \in Within(c) \ W : index[s] = c.num

OnlyReads(q) == \A i \in 1..Len(q) : q[i].does = "read"

LazyInv ==
    /\ pageindex = [s \in Slot |-> pageindex[s]]
    /\ recorded = [s \in Slot |-> recorded[s]]
    /\ todo \in [Threads -> Seq(Access1)]
    /\ call = [t \in Threads |-> call[t]]
    /\ trapped \in [Threads -> Nat]
    /\ dead # "abort"
    /\ lock \in Threads \cup {Nobody}
    /\ \A t \in Threads : trapped[t] \in Slot => range_base(trapped[t]) \notin mapped
    /\ \A t, u \in Threads :
         t # u /\ trapped[t] # Untrapped /\ trapped[u] # Untrapped =>
             range_base(trapped[t]) # range_base(trapped[u])
    /\ \A s \in Slot : range_base(s) \notin mapped => pageindex[s] = 0 /\ recorded[s] = 0
    /\ \A t \in Threads : lock # t => OnlyReads(todo[t])
    /\ \A s \in Slot :
         \/ pageindex[s] = recorded[s]
         \/ \E t \in Threads : lock = t /\ s \in Within(call[t]) /\ pageindex[s] = call[t].num
    /\ \A t \in Threads : lock = t => WriteOK(call[t], todo[t], pageindex, recorded)

\* The two slots of a pair lie in one unit: units have an even number of slots.
LEMMA PairInUnit ==
    ASSUME NEW s \in Nat, s % 2 = 0
    PROVE  range_base(s + 1) = range_base(s)
<1>1. Unit \in Nat \ {0} /\ Unit % 2 = 0
  BY UnitAssumption
<1>2. PICK h \in Nat : Unit = 2 * h
  <2>1. Unit = 2 * (Unit \div 2) /\ Unit \div 2 \in Nat
    BY <1>1
  <2> QED BY <2>1
<1>3. PICK m \in Nat : s = 2 * m
  <2>1. s = 2 * (s \div 2) /\ s \div 2 \in Nat
    OBVIOUS
  <2> QED BY <2>1
<1>4. PICK q \in Nat, r \in Nat : q = s \div Unit /\ r = s % Unit
  BY <1>1
<1>5. s = q * Unit + r /\ r < Unit
  BY <1>1, <1>4
<1>6. PICK x \in Int : x = m - q * h
  OBVIOUS
<1>7. r = 2 * x
  <2>1. q * Unit = 2 * (q * h)
    BY <1>2
  <2>2. PICK y \in Int : y = q * h
    OBVIOUS
  <2> QED BY <2>1, <2>2, <1>3, <1>5, <1>6
<1>8. r + 1 < Unit
  BY <1>2, <1>5, <1>7
<1>9. (s + 1) \div Unit = q
  <2>1. s + 1 = q * Unit + (r + 1)
    BY <1>5, <1>1
  <2> QED BY <2>1, <1>8, <1>1
<1> QED BY <1>4, <1>9 DEF range_base

LEMMA SlotIsNat == Slot \subseteq Nat /\ Untrapped \notin Slot /\ Slot = {a \in Nat : find_deferred_mapping(a)}
<1>1. AreaBegin \in Nat \ {0} /\ AreaEnd \in Nat
  BY UnitAssumption DEF AreaBegin, AreaEnd
<1> QED BY <1>1 DEF Slot, Untrapped, find_deferred_mapping

LEMMA LazyInitInv == LazyInit => LazyInv
<1> SUFFICES ASSUME LazyInit PROVE LazyInv
  OBVIOUS
<1>1. \A t \in Threads : lock # t
  BY NobodyAssumption DEF LazyInit
<1>2. <<>> \in Seq(Access1) /\ Len(<<>>) = 0
  OBVIOUS
<1>3. todo \in [Threads -> Seq(Access1)] /\ \A t \in Threads : OnlyReads(todo[t])
  BY <1>2 DEF LazyInit, OnlyReads
<1>4. trapped \in [Threads -> Nat] /\ \A t \in Threads : trapped[t] = Untrapped
  BY DEF LazyInit, Untrapped
<1> QED BY <1>1, <1>3, <1>4, SlotIsNat DEF LazyInit, LazyInv

LEMMA BeginWriteInv ==
    ASSUME LazyInv, AllLazyContracts, NEW t \in Threads, NEW c \in Calls, BeginWrite(t, c)
    PROVE  LazyInv'
<1>1. c.n \in Nat /\ BiggestRun \in Nat
  BY UnitAssumption DEF Calls, AreaBegin, AreaEnd
<1>2. c.n <= BiggestRun /\ ~(c.n > BiggestRun)
  BY <1>1 DEF BeginWrite, AllLazyContracts
<1>3. /\ lock = Nobody /\ lock' = t /\ dead' = dead
      /\ todo' = [todo EXCEPT ![t] = memset_bigalloc(c)]
      /\ call' = [call EXCEPT ![t] = c]
      /\ UNCHANGED <<mapped, pageindex, recorded, trapped>>
      /\ c.num # c.old
      /\ \A s \in Within(c) : s \in Slot /\ recorded[s] = c.old
  BY <1>2 DEF BeginWrite
<1>4. \A u \in Threads : lock # u
  BY <1>3, NobodyAssumption
<1>5. \A s \in Slot : pageindex[s] = recorded[s]
  BY <1>4 DEF LazyInv
<1>6. Plan(memset_bigalloc(c), Within(c), Within(c)) /\ memset_bigalloc(c) # <<>>
  BY MemsetPlan
<1>7. /\ todo' \in [Threads -> Seq(Access1)] /\ todo'[t] = memset_bigalloc(c)
      /\ \A u \in Threads \ {t} : todo'[u] = todo[u]
  BY <1>3, <1>6 DEF LazyInv, Plan
<1>8. call' = [u \in Threads |-> call'[u]] /\ call'[t] = c
  BY <1>3 DEF LazyInv
<1>9. WriteOK(c, memset_bigalloc(c), pageindex, recorded)
  <2>1. \A i \in 1..Len(memset_bigalloc(c)) :
           memset_bigalloc(c)[i].does = "check" => pageindex[memset_bigalloc(c)[i].at] = c.old
    BY <1>3, <1>5, <1>6 DEF Plan
  <2> QED BY <2>1, <1>3, <1>6 DEF WriteOK
<1>10. \A u \in Threads : lock' = u => WriteOK(call'[u], todo'[u], pageindex', recorded')
  BY <1>3, <1>7, <1>8, <1>9
<1>11. \A u \in Threads : lock' # u => OnlyReads(todo'[u])
  BY <1>3, <1>4, <1>7 DEF LazyInv
<1>12. \A s \in Slot : pageindex'[s] = recorded'[s]
  BY <1>3, <1>5
<1>13. /\ \A u \in Threads : trapped'[u] \in Slot => range_base(trapped'[u]) \notin mapped'
       /\ \A u, v \in Threads :
            u # v /\ trapped'[u] # Untrapped /\ trapped'[v] # Untrapped =>
                range_base(trapped'[u]) # range_base(trapped'[v])
       /\ \A s \in Slot :
            range_base(s) \notin mapped' => pageindex'[s] = 0 /\ recorded'[s] = 0
       /\ pageindex' = [s \in Slot |-> pageindex'[s]]
       /\ recorded' = [s \in Slot |-> recorded'[s]]
       /\ trapped' \in [Threads -> Nat] /\ dead' # "abort"
  BY <1>3 DEF LazyInv
<1> QED BY <1>3, <1>7, <1>8, <1>10, <1>11, <1>12, <1>13, SMTT(20) DEF LazyInv

LEMMA BeginReadInv ==
    ASSUME LazyInv, NEW t \in Threads, NEW addr \in Slot \cup {Elsewhere}, BeginRead(t, addr)
    PROVE  LazyInv'
<1>1. PICK q : q = <<[does |-> "read", at |-> addr, wide |-> 1]>>
  OBVIOUS
<1>2. addr \in Nat
  BY UnitAssumption, SlotIsNat DEF Elsewhere, AreaEnd
<1>3. q \in Seq(Access1) /\ OnlyReads(q)
  BY <1>1, <1>2 DEF Access1, OnlyReads
<1>4. lock # t
  <2>1. todo[t] = <<>>
    BY DEF BeginRead
  <2>2. lock = t => WriteOK(call[t], todo[t], pageindex, recorded)
    BY DEF LazyInv
  <2> QED BY <2>1, <2>2 DEF WriteOK
<1>5. /\ todo' \in [Threads -> Seq(Access1)] /\ todo'[t] = q
      /\ \A u \in Threads \ {t} : todo'[u] = todo[u]
  BY <1>1, <1>3 DEF BeginRead, LazyInv
<1>6. UNCHANGED <<mapped, pageindex, recorded, lock, call, trapped, dead>>
  BY DEF BeginRead
<1>7. \A u \in Threads : lock' = u => WriteOK(call'[u], todo'[u], pageindex', recorded')
  BY <1>4, <1>5, <1>6 DEF LazyInv
<1>8. \A u \in Threads : lock' # u => OnlyReads(todo'[u])
  BY <1>3, <1>4, <1>5, <1>6 DEF LazyInv
<1> QED BY <1>5, <1>6, <1>7, <1>8 DEF LazyInv

AfterAccess(index, index2, a, num) ==
    \A s \in Slot : index2[s] = IF Covers(a, s) THEN num ELSE index[s]

\* The first of the accesses that a write has still to make changes only slots
\* of the write and of the unit it touches, and leaves the write in order.
OneMade(c, q, r, index, index2, rec) ==
    /\ q[1].at \in Within(c) /\ q[1] \in Access1
    /\ q[1].does = "check" => index[q[1].at] = c.old
    /\ \A s \in Slot : index2[s] = index[s] \/ (s \in Within(c) /\ index2[s] = c.num)
    /\ \A s \in Slot : range_base(s) # range_base(q[1].at) => index2[s] = index[s]
    /\ r = <<>> => \A s \in Within(c) : index2[s] = c.num
    /\ r # <<>> => WriteOK(c, r, index2, rec)

LEMMA WriteGoesOn ==
    ASSUME NEW c, NEW q, NEW index, NEW rec, NEW index2, NEW r, r = Tail(q),
           WriteOK(c, q, index, rec), AfterAccess(index, index2, q[1], c.num)
    PROVE  OneMade(c, q, r, index, index2, rec)
<1>1. PICK W \in SUBSET Within(c) :
         Plan(q, Within(c), W) /\ \A s \in Within(c) \ W : index[s] = c.num
  BY DEF WriteOK
<1>2. PICK V \in SUBSET W :
         Plan(r, Within(c), V) /\ \A s \in W \ V : Covers(q[1], s)
  BY <1>1, PlanTail DEF WriteOK
<1>3. /\ q \in Seq(Access1) /\ 1 \in 1..Len(q) /\ q[1] \in Access1
      /\ r \in Seq(Access1) /\ Len(r) = Len(q) - 1
      /\ \A i \in 1..Len(r) : i + 1 \in 1..Len(q) /\ r[i] = q[i + 1]
  BY <1>1 DEF Plan, WriteOK
<1>4. /\ q[1].at \in Nat /\ q[1].does \in {"check", "store"} /\ q[1].wide \in {1, 2}
      /\ q[1].wide = 2 => q[1].at % 2 = 0
  <2>1. q[1].does # "read" /\ (q[1].wide = 2 => q[1].at % 2 = 0)
    BY <1>1, <1>3 DEF Plan
  <2>2. q[1].at \in Nat /\ q[1].does \in {"check", "store", "read"} /\ q[1].wide \in {1, 2}
    BY <1>3 DEF Access1
  <2> QED BY <2>1, <2>2
<1>5. \A s \in Nat : Covers(q[1], s) => s \in W
  BY <1>1, <1>3 DEF Plan
<1>6. q[1].at \in Within(c)
  <2>1. CASE q[1].does = "check"
    BY <2>1, <1>1, <1>3 DEF Plan
  <2>2. CASE q[1].does = "store"
    <3>1. Covers(q[1], q[1].at)
      BY <2>2, <1>4 DEF Covers
    <3> QED BY <3>1, <1>4, <1>5
  <2> QED BY <2>1, <2>2, <1>4
<1>7. \A s \in Slot : index2[s] = index[s] \/ (s \in Within(c) /\ index2[s] = c.num)
  BY <1>1, <1>5, SlotIsNat DEF AfterAccess
<1>8. ASSUME NEW s \in Slot, Covers(q[1], s)
      PROVE  range_base(s) = range_base(q[1].at)
  <2>1. s \in Nat /\ s \in q[1].at..(q[1].at + q[1].wide - 1)
    BY <1>8, SlotIsNat DEF Covers
  <2>2. s = q[1].at \/ (s = q[1].at + 1 /\ q[1].at % 2 = 0)
    BY <2>1, <1>4
  <2> QED BY <2>2, <1>4, PairInUnit
<1>9. Within(c) \subseteq Slot
  BY DEF WriteOK
<1>10. \A s \in Within(c) \ V : index2[s] = c.num
  BY <1>1, <1>2, <1>9 DEF AfterAccess
<1>11. ASSUME r = <<>>
       PROVE  \A s \in Within(c) : index2[s] = c.num
  <2>1. Len(r) = 0
    BY <1>3, <1>11, EmptySeq, ZenonT(30)
  <2>2. V = {}
    BY <2>1, <1>2 DEF Plan
  <2> QED BY <2>2, <1>10
<1>12. ASSUME r # <<>>
       PROVE  WriteOK(c, r, index2, rec)
  <2>1. ASSUME NEW i \in 1..Len(r), r[i].does = "check"
        PROVE  index2[r[i].at] = c.old
    <3>1. i + 1 \in 1..Len(q) /\ 1 < i + 1 /\ q[i + 1].does = "check" /\ r[i] = q[i + 1]
      BY <2>1, <1>3
    <3>2. ~Covers(q[1], q[i + 1].at) /\ q[i + 1].at \in Within(c)
      BY <3>1, <1>1, <1>3 DEF Plan
    <3>3. index[q[i + 1].at] = c.old
      BY <3>1 DEF WriteOK
    <3> QED BY <3>1, <3>2, <3>3, <1>9 DEF AfterAccess
  <2> QED BY <2>1, <1>2, <1>10, <1>12 DEF WriteOK
<1>13. \A s \in Slot : range_base(s) # range_base(q[1].at) => index2[s] = index[s]
  BY <1>8 DEF AfterAccess
<1> QED BY <1>3, <1>6, <1>7, <1>11, <1>12, <1>13 DEF WriteOK, OneMade

\* The owner of the lock makes an access to a unit that is mapped.
LEMMA PerformWriteInv ==
    ASSUME LazyInv, NEW t \in Threads, lock = t, todo[t] # <<>>,
           range_base(Head(todo[t]).at) \in mapped,
           Perform(t, Head(todo[t])), UNCHANGED <<mapped, handlers>>
    PROVE  LazyInv'
<1>1. PICK q, c : q = todo[t] /\ c = call[t]
  OBVIOUS
<1>2. WriteOK(c, q, pageindex, recorded)
  BY <1>1 DEF LazyInv
<1>3. q \in Seq(Access1) /\ q # <<>> /\ Head(q) = q[1] /\ Tail(q) \in Seq(Access1)
  BY <1>1 DEF LazyInv
<1>4. pageindex' = [s \in Slot |-> IF Covers(q[1], s) THEN c.num ELSE pageindex[s]]
  BY <1>1, <1>3 DEF Perform, Covers
<1>5. /\ q[1].at \in Within(c)
      /\ q[1].does = "check" => pageindex[q[1].at] = c.old
      /\ \A s \in Slot : pageindex'[s] = pageindex[s] \/ (s \in Within(c) /\ pageindex'[s] = c.num)
      /\ \A s \in Slot : range_base(s) # range_base(q[1].at) => pageindex'[s] = pageindex[s]
      /\ Tail(q) = <<>> => \A s \in Within(c) : pageindex'[s] = c.num
      /\ Tail(q) # <<>> => WriteOK(c, Tail(q), pageindex', recorded)
  <2>1. PICK index, rec, index2, r :
          index = pageindex /\ rec = recorded /\ index2 = pageindex' /\ r = Tail(q)
    OBVIOUS
  <2>2. /\ WriteOK(c, q, index, rec)
        /\ AfterAccess(index, index2, q[1], c.num)
    BY <2>1, <1>2, <1>4 DEF AfterAccess
  <2>3. OneMade(c, q, r, index, index2, rec)
    BY <2>1, <2>2, WriteGoesOn
  <2> QED BY <2>1, <2>3 DEF OneMade
<1>6. dead' = dead /\ trapped' = trapped /\ mapped' = mapped
  BY <1>1, <1>3, <1>5 DEF Perform, BadValue
<1>7. /\ todo' \in [Threads -> Seq(Access1)] /\ todo'[t] = Tail(q)
      /\ \A u \in Threads \ {t} : todo'[u] = todo[u]
  BY <1>1, <1>3 DEF Perform, LazyInv
<1>8. \A s \in Slot : range_base(s) \notin mapped => pageindex'[s] = 0
  BY <1>1, <1>3, <1>5 DEF LazyInv
<1>9. \A s \in Slot \ Within(c) : pageindex'[s] = recorded[s]
  BY <1>1, <1>5 DEF LazyInv
<1>10. /\ \A u \in Threads : trapped'[u] \in Slot => range_base(trapped'[u]) \notin mapped'
       /\ \A u, v \in Threads :
            u # v /\ trapped'[u] # Untrapped /\ trapped'[v] # Untrapped =>
                range_base(trapped'[u]) # range_base(trapped'[v])
       /\ pageindex' = [s \in Slot |-> pageindex'[s]]
       /\ trapped' \in [Threads -> Nat] /\ dead' # "abort"
  BY <1>4, <1>6 DEF LazyInv
<1>11. \A u \in Threads \ {t} : OnlyReads(todo'[u])
  BY <1>7 DEF LazyInv
<1>12. CASE Tail(q) = <<>>
  <2>1. /\ lock' = Nobody
        /\ recorded' = [s \in Slot |-> IF s \in Within(c) THEN c.num ELSE recorded[s]]
        /\ call' = [call EXCEPT ![t] = NoCall]
    BY <1>1, <1>12 DEF Perform
  <2>2. \A s \in Slot : pageindex'[s] = recorded'[s]
    BY <2>1, <1>5, <1>9, <1>12
  <2>3. OnlyReads(todo'[t])
    BY <1>7, <1>12 DEF OnlyReads
  <2>4. \A u \in Threads : lock' # u
    BY <2>1, NobodyAssumption
  <2>5. call' = [u \in Threads |-> call'[u]] /\ recorded' = [s \in Slot |-> recorded'[s]]
    BY <2>1 DEF LazyInv
  <2>6. \A s \in Slot : range_base(s) \notin mapped' => pageindex'[s] = 0 /\ recorded'[s] = 0
    BY <2>2, <1>6, <1>8
  <2> QED BY <2>1, <2>2, <2>3, <2>4, <2>5, <2>6, <1>7, <1>10, <1>11 DEF LazyInv
<1>13. CASE Tail(q) # <<>>
  <2>1. lock' = t /\ recorded' = [s \in Slot |-> recorded[s]] /\ call' = call
    BY <1>1, <1>13 DEF Perform
  <2>2. recorded' = recorded
    BY <2>1 DEF LazyInv
  <2>3. WriteOK(call'[t], todo'[t], pageindex', recorded')
    BY <2>1, <2>2, <1>1, <1>5, <1>7, <1>13
  <2>4. \A s \in Slot :
          \/ pageindex'[s] = recorded'[s]
          \/ s \in Within(call'[t]) /\ pageindex'[s] = call'[t].num
    <3> TAKE s \in Slot
    <3>1. CASE s \notin Within(c)
      BY <3>1, <2>2, <1>9
    <3>2. CASE s \in Within(c) /\ pageindex'[s] = c.num
      BY <3>2, <2>1, <1>1
    <3>3. CASE pageindex'[s] = pageindex[s]
      BY <3>3, <2>1, <2>2, <1>1 DEF LazyInv
    <3> QED BY <3>1, <3>2, <3>3, <1>5
  <2>5. \A s \in Slot : range_base(s) \notin mapped' => pageindex'[s] = 0 /\ recorded'[s] = 0
    BY <2>2, <1>6, <1>8 DEF LazyInv
  <2>6. call' = [u \in Threads |-> call'[u]] /\ recorded' = [s \in Slot |-> recorded'[s]]
    BY <2>1, <2>2 DEF LazyInv
  <2> QED BY <2>1, <2>3, <2>4, <2>5, <2>6, <1>7, <1>10, <1>11 DEF LazyInv
<1> QED BY <1>12, <1>13

\* Any other thread's access reads.
LEMMA PerformReadInv ==
    ASSUME LazyInv, NEW t \in Threads, lock # t, todo[t] # <<>>,
           Perform(t, Head(todo[t])), UNCHANGED <<mapped, handlers>>
    PROVE  LazyInv'
<1>1. PICK q : q = todo[t]
  OBVIOUS
<1>2. q \in Seq(Access1) /\ q # <<>> /\ OnlyReads(q)
  BY <1>1 DEF LazyInv
<1>3. /\ Head(q).does = "read" /\ Tail(q) \in Seq(Access1) /\ OnlyReads(Tail(q))
  BY <1>2 DEF OnlyReads
<1>4. /\ pageindex' = [s \in Slot |-> pageindex[s]] /\ recorded' = [s \in Slot |-> recorded[s]]
      /\ UNCHANGED <<lock, call, dead, trapped>>
      /\ todo' = [todo EXCEPT ![t] = Tail(q)]
  BY <1>1, <1>3 DEF Perform, BadValue
<1>5. pageindex' = pageindex /\ recorded' = recorded
  BY <1>4 DEF LazyInv
<1>6. /\ todo' \in [Threads -> Seq(Access1)] /\ todo'[t] = Tail(q)
      /\ \A u \in Threads \ {t} : todo'[u] = todo[u]
  BY <1>3, <1>4 DEF LazyInv
<1>7. ASSUME NEW u \in Threads, lock' = u
      PROVE  WriteOK(call'[u], todo'[u], pageindex', recorded')
  <2>1. lock = u /\ u # t /\ call'[u] = call[u]
    BY <1>4, <1>7
  <2>2. WriteOK(call[u], todo[u], pageindex, recorded)
    BY <2>1 DEF LazyInv
  <2> QED BY <2>1, <2>2, <1>5, <1>6
<1>8. \A u \in Threads : lock' # u => OnlyReads(todo'[u])
  BY <1>3, <1>4, <1>6 DEF LazyInv
<1>9. /\ \A u \in Threads : trapped'[u] \in Slot => range_base(trapped'[u]) \notin mapped'
      /\ \A u, v \in Threads :
           u # v /\ trapped'[u] # Untrapped /\ trapped'[v] # Untrapped =>
               range_base(trapped'[u]) # range_base(trapped'[v])
      /\ \A s \in Slot :
           range_base(s) \notin mapped' => pageindex'[s] = 0 /\ recorded'[s] = 0
      /\ trapped' \in [Threads -> Nat] /\ dead' # "abort" /\ lock' \in Threads \cup {Nobody}
      /\ call' = [u \in Threads |-> call'[u]]
  BY <1>4, <1>5 DEF LazyInv
<1>10. \A s \in Slot :
         \/ pageindex'[s] = recorded'[s]
         \/ \E u \in Threads :
              lock' = u /\ s \in Within(call'[u]) /\ pageindex'[s] = call'[u].num
  BY <1>4, <1>5 DEF LazyInv
<1> QED BY <1>4, <1>5, <1>6, <1>7, <1>8, <1>9, <1>10 DEF LazyInv

LEMMA FaultInv ==
    ASSUME LazyInv, AllLazyContracts, NEW t \in Threads, NEW addr \in Nat,
           addr \in Slot => range_base(addr) \notin mapped,
           Fault(t, addr), UNCHANGED <<mapped, handlers>>
    PROVE  LazyInv'
<1>1. /\ trapped' = [trapped EXCEPT ![t] = addr]
      /\ UNCHANGED <<mapped, pageindex, recorded, lock, todo, call, dead>>
  BY DEF Fault
<1>2. \A u \in Threads \ {t} : trapped[u] # Untrapped => range_base(trapped[u]) # range_base(addr)
  BY DEF Fault, MayFault, AllLazyContracts
<1>3. /\ trapped' \in [Threads -> Nat] /\ trapped'[t] = addr
      /\ \A u \in Threads \ {t} : trapped'[u] = trapped[u]
  BY <1>1 DEF LazyInv
<1>4. \A u \in Threads : trapped'[u] \in Slot => range_base(trapped'[u]) \notin mapped'
  BY <1>1, <1>3 DEF LazyInv
<1>5. \A u, v \in Threads : u # v /\ trapped'[u] # Untrapped /\ trapped'[v] # Untrapped =>
          range_base(trapped'[u]) # range_base(trapped'[v])
  BY <1>2, <1>3, ZenonT(30) DEF LazyInv
<1>6. \A u \in Threads : lock' = u => WriteOK(call'[u], todo'[u], pageindex', recorded')
  BY <1>1 DEF LazyInv
<1> QED BY <1>1, <1>3, <1>4, <1>5, <1>6, ZenonT(30) DEF LazyInv

LEMMA AccessInv ==
    ASSUME LazyInv, AllLazyContracts, NEW t \in Threads, Access(t)
    PROVE  LazyInv'
<1>1. PICK q, a : q = todo[t] /\ a = Head(q)
  OBVIOUS
<1>2. q \in Seq(Access1) /\ q # <<>>
  BY <1>1 DEF Access, LazyInv
<1>3. a = q[1] /\ a \in Access1 /\ a.at \in Nat
  <2>1. a = q[1] /\ a \in Access1
    BY <1>1, <1>2
  <2> QED BY <2>1 DEF Access1
<1>4. lock = t => a.at \in Slot
  <2>1. ASSUME lock = t
        PROVE  a.at \in Slot
    <3>1. WriteOK(call[t], q, pageindex, recorded)
      BY <2>1, <1>1 DEF LazyInv
    <3>2. PICK W \in SUBSET Within(call[t]) : Plan(q, Within(call[t]), W)
      BY <3>1 DEF WriteOK
    <3>3. 1 \in 1..Len(q) /\ a.does \in {"check", "store"} /\ a.wide \in {1, 2}
      BY <3>2, <1>2, <1>3 DEF Plan, Access1
    <3>4. CASE a.does = "check"
      BY <3>1, <3>2, <3>3, <3>4, <1>3 DEF Plan, WriteOK
    <3>5. CASE a.does = "store"
      <4>1. Covers(a, a.at)
        BY <3>3, <3>5, <1>3 DEF Covers
      <4>2. a.at \in W
        BY <4>1, <3>2, <3>3, <1>3 DEF Plan
      <4> QED BY <4>2, <3>1 DEF WriteOK
    <3> QED BY <3>3, <3>4, <3>5
  <2> QED BY <2>1
<1>5. PICK there \in Present(a.at) : IF there THEN Perform(t, a) ELSE Fault(t, a.at)
  BY <1>1 DEF Access
<1>6. UNCHANGED <<mapped, handlers>>
  BY DEF Access
<1>7. a.at \in Slot => there = (range_base(a.at) \in mapped)
  BY <1>5 DEF Present
<1>8. CASE there
  <2>1. Perform(t, Head(todo[t])) /\ todo[t] # <<>>
    BY <1>1, <1>2, <1>5, <1>8
  <2>2. CASE lock = t
    <3>1. range_base(Head(todo[t]).at) \in mapped
      BY <2>2, <1>1, <1>4, <1>7, <1>8
    <3> QED BY <2>1, <2>2, <3>1, <1>6, PerformWriteInv
  <2>3. CASE lock # t
    BY <2>1, <2>3, <1>6, PerformReadInv
  <2> QED BY <2>2, <2>3
<1>9. CASE ~there
  <2>1. Fault(t, a.at) /\ (a.at \in Slot => range_base(a.at) \notin mapped)
    BY <1>5, <1>7, <1>9
  <2> QED BY <2>1, <1>3, <1>6, FaultInv
<1> QED BY <1>8, <1>9

\* The handler maps a unit that is not mapped, and so holds nothing yet.
LEMMA HandleInv ==
    ASSUME LazyInv, NEW t \in Threads, HandleSIGBUS(t)
    PROVE  LazyInv'
<1>1. UNCHANGED <<recorded, lock, todo, call>> /\ trapped[t] # Untrapped
  BY DEF HandleSIGBUS
<1>2. CASE handlers["SIGBUS"] # "liballocs"
  <2>1. dead' \in {"index", "program"} /\ UNCHANGED <<mapped, pageindex, trapped>>
    BY <1>2 DEF HandleSIGBUS
  <2> QED BY <1>1, <2>1 DEF LazyInv
<1>3. CASE handlers["SIGBUS"] = "liballocs"
  <2>1. trapped' = [trapped EXCEPT ![t] = Untrapped] /\ dead' = dead
    BY <1>3 DEF HandleSIGBUS
  <2>2. /\ trapped' \in [Threads -> Nat] /\ trapped'[t] = Untrapped
        /\ \A u \in Threads \ {t} : trapped'[u] = trapped[u]
    BY <2>1 DEF LazyInv, Untrapped
  <2>3. pageindex' = pageindex /\ (mapped' = mapped \/ mapped' = mapped \cup {range_base(trapped[t])})
    <3>1. CASE ~find_deferred_mapping(trapped[t])
      BY <1>3, <3>1 DEF HandleSIGBUS
    <3>2. CASE find_deferred_mapping(trapped[t])
      <4>1. /\ mapped' = mapped \cup {range_base(trapped[t])}
            /\ pageindex' = [s \in Slot |-> IF range_base(s) = range_base(trapped[t])
                                            THEN 0 ELSE pageindex[s]]
        BY <1>3, <3>2 DEF HandleSIGBUS
      <4>2. trapped[t] \in Slot
        BY <3>2, SlotIsNat DEF LazyInv
      <4>3. range_base(trapped[t]) \notin mapped
        BY <4>2 DEF LazyInv
      <4>4. \A s \in Slot : range_base(s) = range_base(trapped[t]) => pageindex[s] = 0
        BY <4>3 DEF LazyInv
      <4>5. pageindex' = [s \in Slot |-> pageindex[s]]
        BY <4>1, <4>4
      <4> QED BY <4>1, <4>5 DEF LazyInv
    <3> QED BY <3>1, <3>2
  <2>4. ASSUME NEW u \in Threads, trapped'[u] \in Slot
        PROVE  range_base(trapped'[u]) \notin mapped'
    <3>1. u # t /\ trapped'[u] = trapped[u] /\ trapped[u] # Untrapped
      BY <2>2, <2>4, SlotIsNat
    <3>2. range_base(trapped[u]) \notin mapped /\ range_base(trapped[u]) # range_base(trapped[t])
      BY <1>1, <2>4, <3>1 DEF LazyInv
    <3> QED BY <2>3, <3>1, <3>2
  <2>5. \A u, v \in Threads : u # v /\ trapped'[u] # Untrapped /\ trapped'[v] # Untrapped =>
            range_base(trapped'[u]) # range_base(trapped'[v])
    BY <2>2, ZenonT(30) DEF LazyInv
  <2>6. \A s \in Slot : range_base(s) \notin mapped' => pageindex'[s] = 0 /\ recorded'[s] = 0
    BY <1>1, <2>3 DEF LazyInv
  <2>7. \A u \in Threads : lock' = u => WriteOK(call'[u], todo'[u], pageindex', recorded')
    BY <1>1, <2>3 DEF LazyInv
  <2> QED BY <1>1, <2>1, <2>2, <2>3, <2>4, <2>5, <2>6, <2>7, ZenonT(30) DEF LazyInv
<1> QED BY <1>2, <1>3

LEMMA LazyNextInv ==
    ASSUME LazyInv, AllLazyContracts, [LazyNext]_lvars
    PROVE  LazyInv'
<1>1. ASSUME NEW t \in Threads, NEW c \in Calls, BeginWrite(t, c) PROVE LazyInv'
  BY <1>1, BeginWriteInv
<1>2. ASSUME NEW t \in Threads, NEW addr \in Slot \cup {Elsewhere}, BeginRead(t, addr)
      PROVE  LazyInv'
  BY <1>2, BeginReadInv
<1>3. ASSUME NEW t \in Threads, Access(t) PROVE LazyInv'
  BY <1>3, AccessInv
<1>4. ASSUME NEW t \in Threads, HandleSIGBUS(t) PROVE LazyInv'
  BY <1>4, HandleInv
<1>5. ASSUME NEW t \in Threads, TrapSyscall(t) PROVE LazyInv'
  BY <1>5 DEF TrapSyscall, LazyInv
<1>6. ASSUME NEW sig, sigaction(sig) PROVE LazyInv'
  BY <1>6 DEF sigaction, LazyInv
<1>7. CASE UNCHANGED lvars
  BY <1>7 DEF lvars, LazyInv
<1> QED BY <1>1, <1>2, <1>3, <1>4, <1>5, <1>6, <1>7 DEF LazyNext

\* Whatever the threads read and write, wherever a unit of the index is first
\* touched and by whomever, what a finished memset_bigalloc has put in the index
\* stays there until another writes it, and no check of memset_bigalloc fails:
\* for any number of threads, any size of the area and of its units, as long as
\* two threads do not fault on one unit at a time and sizes are sane.
THEOREM LazyIndexKeeps ==
    ASSUME AllLazyContracts
    PROVE  LazySpec => []IndexKept
<1>1. LazyInv => IndexKept
  BY DEF LazyInv, IndexKept
<1>2. LazyInv /\ [LazyNext]_lvars => LazyInv'
  BY LazyNextInv
<1> QED BY <1>1, <1>2, LazyInitInv, PTL DEF LazySpec

-----------------------------------------------------------------------------
(* The heap of liballocs itself. *)

AllPrivateContracts ==
    PrivateContracts = {"serialised", "realloc_succeeds", "no_posix_memalign"}

\* An address is aligned when it is a whole number of units above the base.
Aligned(p) == \E k \in Nat : p = heap_base + k * PRIVATE_MALLOC_ALIGN

ChunkOK(c, brk) ==
    /\ c.at \in Nat /\ c.size \in Nat \ {0} /\ c = [at |-> c.at, size |-> c.size]
    /\ Aligned(c.at) /\ Aligned(c.at + c.size) /\ c.at + c.size <= brk
HeapOK(brk, H) ==
    /\ brk \in heap_base..heap_limit /\ Aligned(brk)
    /\ \A c \in H : ChunkOK(c, brk)
    /\ \A c, d \in H : c # d => Disjoint(c, d)
BitsOf(H) == {Bit(c.at) : c \in H}

\* What a wrapper that is under way says of the bitmap.
HeldAt(p) == p # bitmapAt /\ \E c \in held : c.at = p
WrapperAt(r) ==
    \/ r.pc \in {"set", "setting"} /\ r.then = "done" /\ bitmap = BitsOf(held) \ {Bit(r.ptr)}
    \/ r.pc \in {"clear", "clearing"} /\ r.then \in {"free", "realloc"} /\ bitmap = BitsOf(held)
    \/ r.pc \in {"free", "realloc"} /\ bitmap = BitsOf(held) \ {Bit(r.ptr)}
Running(r) ==
    /\ HeldAt(r.ptr) /\ WrapperAt(r)
    /\ r.pc \in {"setting", "clearing"} => r.word = bitmap \cap BitsOfWordOf(r.ptr)

PrivateInv ==
    /\ at = [t \in Callers |-> at[t]]
    /\ \A t, u \in Callers : at[t] # Idle /\ at[u] # Idle => t = u
    /\ \A t \in Callers : at[t] # Idle => Running(at[t])
    /\ bitmapAt = 0 => held = {} /\ bitmap = {} /\ \A t \in Callers : at[t] = Idle
    /\ bitmapAt # 0 => HeapOK(curbrk, held) /\ \E c \in held : c.at = bitmapAt
    /\ (\A t \in Callers : at[t] = Idle) => bitmap = BitsOf(held)

\* Every set of natural numbers that is not empty has a least element, and a
\* greatest one if it is bounded.
LEMMA LeastNat ==
    ASSUME NEW T, T \subseteq Nat, T # {}
    PROVE  \E x \in T : \A y \in T : x <= y
<1>1. PICK x \in T : \A y \in T : ~(<<y, x>> \in OpToRel(<, Nat))
  BY NatLessThanWellFounded, WFMin
<1>2. \A y \in T : y < x => <<y, x>> \in OpToRel(<, Nat)
  BY DEF OpToRel
<1>3. \A y \in T : ~(y < x)
  BY <1>1, <1>2
<1> QED BY <1>3

LEMMA GreatestNat ==
    ASSUME NEW T, T \subseteq Nat, T # {}, NEW b \in Nat, \A x \in T : x <= b
    PROVE  \E x \in T : \A y \in T : y <= x
<1> DEFINE U == {b - x : x \in T}
<1>1. U \subseteq Nat
  OBVIOUS
<1>2. U # {}
  <2>1. PICK x \in T : TRUE
    OBVIOUS
  <2>2. b - x \in U
    OBVIOUS
  <2> QED BY <2>2
<1>3. PICK u \in U : \A v \in U : u <= v
  BY <1>1, <1>2, LeastNat
<1>4. PICK x \in T : u = b - x
  OBVIOUS
<1>5. \A y \in T : b - x <= b - y
  BY <1>3, <1>4
<1> QED BY <1>5

\* RoundUp(n) is the least multiple of the alignment that is n or more.
LEMMA RoundUpIs ==
    ASSUME NEW n \in Nat \ {0}
    PROVE  /\ RoundUp(n) \in Nat /\ n <= RoundUp(n) /\ RoundUp(n) < n + PRIVATE_MALLOC_ALIGN
           /\ \E k \in Nat : RoundUp(n) = k * PRIVATE_MALLOC_ALIGN
<1> DEFINE A == PRIVATE_MALLOC_ALIGN
           q == (n + A - 1) \div A
<1>1. A \in Nat \ {0}
  BY PrivateMallocAssumption
<1>2. /\ q \in Nat
      /\ n + A - 1 = q * A + ((n + A - 1) % A)
      /\ (n + A - 1) % A \in 0..(A - 1)
  BY <1>1
<1>3. RoundUp(n) = q * A
  BY DEF RoundUp, DivideRoundingUp
<1> HIDE DEF q
<1>4. q * A \in Nat
  BY <1>1, <1>2
<1> QED BY <1>1, <1>2, <1>3, <1>4

LEMMA AlignedAbove ==
    ASSUME NEW p, Aligned(p), NEW n \in Nat \ {0}
    PROVE  Aligned(p + RoundUp(n))
<1>1. PICK k \in Nat : p = heap_base + k * PRIVATE_MALLOC_ALIGN
  BY DEF Aligned
<1>2. PICK j \in Nat : RoundUp(n) = j * PRIVATE_MALLOC_ALIGN
  BY RoundUpIs
<1>3. p + RoundUp(n) = heap_base + (k + j) * PRIVATE_MALLOC_ALIGN
  BY <1>1, <1>2, PrivateMallocAssumption
<1>4. k + j \in Nat
  OBVIOUS
<1> QED BY <1>3, <1>4 DEF Aligned

\* Aligned addresses have bits of their own.
LEMMA BitOfAligned ==
    ASSUME NEW p, NEW q, Aligned(p), Aligned(q), Bit(p) = Bit(q)
    PROVE  p = q
<1>1. PICK k \in Nat : p = heap_base + k * PRIVATE_MALLOC_ALIGN
  BY DEF Aligned
<1>2. PICK j \in Nat : q = heap_base + j * PRIVATE_MALLOC_ALIGN
  BY DEF Aligned
<1>3. PRIVATE_MALLOC_ALIGN \in Nat \ {0} /\ heap_base \in Nat
  BY PrivateMallocAssumption
<1>4. \A i \in Nat : (i * PRIVATE_MALLOC_ALIGN) \div PRIVATE_MALLOC_ALIGN = i
  BY <1>3
<1>5. k * PRIVATE_MALLOC_ALIGN \in Nat /\ j * PRIVATE_MALLOC_ALIGN \in Nat
  BY <1>3
<1>6. p - heap_base = k * PRIVATE_MALLOC_ALIGN /\ q - heap_base = j * PRIVATE_MALLOC_ALIGN
  BY <1>1, <1>2, <1>3, <1>5
<1>7. Bit(p) = k /\ Bit(q) = j
  BY <1>4, <1>6 DEF Bit
<1> QED BY <1>1, <1>2, <1>7

\* emulated_sbrk moves the break by the increment, within the heap, or not at
\* all: a sum that wraps around is taken for an error.
LEMMA SbrkUp ==
    ASSUME NEW brk \in heap_base..heap_limit, NEW n \in Nat \ {0}, n < AddressMod
    PROVE  \/ emulated_sbrk(brk, n) = brk
           \/ emulated_sbrk(brk, n) = brk + n /\ brk + n <= heap_limit
<1> DEFINE req == (brk + n) % AddressMod
<1>1. /\ heap_base \in Nat /\ heap_limit \in Nat /\ AddressMod \in Nat
      /\ heap_limit < AddressMod /\ brk \in Nat /\ brk < AddressMod
  BY PrivateMallocAssumption
<1>2. CASE brk + n < AddressMod
  <2>1. req = brk + n
    BY <1>1, <1>2
  <2> HIDE DEF req
  <2>2. emulated_sbrk(brk, n) = IF Flowed(brk, n, req)
                                   \/ (IF req < heap_limit THEN req ELSE heap_limit) # req
                                THEN brk ELSE req
    BY DEF emulated_sbrk, req
  <2> QED BY <1>1, <2>1, <2>2
<1>3. CASE brk + n >= AddressMod
  <2>1. req = brk + n - AddressMod
    BY <1>1, <1>3
  <2>2. req < brk
    BY <1>1, <2>1
  <2>3. Flowed(brk, n, req)
    BY <2>2 DEF Flowed
  <2> QED BY <2>3 DEF emulated_sbrk
<1> QED BY <1>1, <1>2, <1>3

LEMMA SbrkDown ==
    ASSUME NEW brk \in heap_base..heap_limit, NEW top \in heap_base..heap_limit, top < brk
    PROVE  emulated_sbrk(brk, top - brk) = top
<1> DEFINE inc == top - brk
           req == (brk + inc) % AddressMod
<1>1. /\ heap_base \in Nat /\ heap_limit \in Nat /\ AddressMod \in Nat
      /\ heap_limit < AddressMod
  BY PrivateMallocAssumption
<1>2. brk + inc = top /\ inc < 0
  BY <1>1
<1>3. req = top
  BY <1>1, <1>2
<1>4. ~Flowed(brk, inc, req)
  BY <1>1, <1>2, <1>3 DEF Flowed
<1> HIDE DEF req
<1>5. emulated_sbrk(brk, inc) = IF Flowed(brk, inc, req)
                                   \/ (IF req > heap_base THEN req ELSE heap_base) # req
                                THEN brk ELSE req
  BY <1>2 DEF emulated_sbrk, req
<1> QED BY <1>1, <1>3, <1>4, <1>5

\* dlmalloc has three outcomes: a free place below the break, the space that
\* moving the break opens when there is none, or failure.
LEMMA MallocOutcomes ==
    ASSUME NEW brk, NEW H, NEW size, NEW r, r \in real_dlmalloc(brk, H, size),
           NEW n, n = RoundUp(size)
    PROVE  \/ \E p \in FreePlaces(brk, H, n) : r = [ret |-> p, size |-> n, brk |-> brk]
           \/ /\ emulated_sbrk(brk, n) # brk
              /\ r = [ret |-> brk, size |-> n, brk |-> emulated_sbrk(brk, n)]
           \/ r = [ret |-> 0, size |-> 0, brk |-> brk]
<1>1. CASE FreePlaces(brk, H, n) # {}
  <2>1. r \in {[ret |-> p, size |-> n, brk |-> brk] : p \in FreePlaces(brk, H, n)}
    BY <1>1, ZenonT(30) DEF real_dlmalloc
  <2> QED BY <2>1, ZenonT(30)
<1>2. CASE FreePlaces(brk, H, n) = {} /\ emulated_sbrk(brk, n) # brk
  <2>1. r \in {[ret |-> brk, size |-> n, brk |-> emulated_sbrk(brk, n)]}
    BY <1>2, ZenonT(30) DEF real_dlmalloc
  <2> QED BY <1>2, <2>1, ZenonT(30)
<1>3. CASE FreePlaces(brk, H, n) = {} /\ emulated_sbrk(brk, n) = brk
  <2>1. r \in {[ret |-> 0, size |-> 0, brk |-> brk]}
    BY <1>3, ZenonT(30) DEF real_dlmalloc
  <2> QED BY <2>1, ZenonT(30)
<1> QED BY <1>1, <1>2, <1>3

\* What dlmalloc returns lies in the heap, apart from the other chunks, and the
\* break is above it; or dlmalloc fails and the break is as it was.
LEMMA MallocFits ==
    ASSUME NEW brk, NEW H, HeapOK(brk, H), NEW size \in Nat \ {0}, RoundUp(size) < AddressMod,
           NEW r, r \in real_dlmalloc(brk, H, size)
    PROVE  IF r.ret = 0 THEN r.brk = brk
           ELSE /\ HeapOK(r.brk, H \cup {[at |-> r.ret, size |-> r.size]})
                /\ \A c \in H : c.at # r.ret
                /\ r.ret \in Nat /\ Aligned(r.ret) /\ brk <= r.brk
<1> DEFINE n == RoundUp(size)
           c0 == [at |-> r.ret, size |-> r.size]
<1>1. heap_base \in Nat \ {0} /\ heap_limit \in Nat /\ PRIVATE_MALLOC_ALIGN \in Nat \ {0}
  BY PrivateMallocAssumption
<1>2. n \in Nat \ {0}
  BY RoundUpIs
<1>3. brk \in Nat /\ brk \in heap_base..heap_limit /\ Aligned(brk)
  BY <1>1 DEF HeapOK
<1>0. \/ \E p \in FreePlaces(brk, H, n) : r = [ret |-> p, size |-> n, brk |-> brk]
      \/ /\ emulated_sbrk(brk, n) # brk
         /\ r = [ret |-> brk, size |-> n, brk |-> emulated_sbrk(brk, n)]
      \/ r = [ret |-> 0, size |-> 0, brk |-> brk]
  BY MallocOutcomes
<1> HIDE DEF n
<1> SUFFICES ASSUME r.ret # 0
             PROVE  /\ HeapOK(r.brk, H \cup {c0})
                    /\ \A c \in H : c.at # r.ret
                    /\ r.ret \in Nat /\ Aligned(r.ret) /\ brk <= r.brk
  <2> SUFFICES ASSUME r.ret = 0 PROVE r.brk = brk
    OBVIOUS
  <2>1. \A p \in FreePlaces(brk, H, n) : p # 0
    BY <1>1, <1>2, <1>3 DEF FreePlaces
  <2> QED BY <1>0, <1>1, <1>3, <2>1
<1>4. /\ r.ret \in Nat /\ Aligned(r.ret) /\ r.size = n /\ r.ret + n <= r.brk
      /\ r.brk \in heap_base..heap_limit /\ Aligned(r.brk) /\ brk <= r.brk
      /\ \A c \in H : Disjoint(c, c0)
  <2>1. CASE \E p \in FreePlaces(brk, H, n) : r = [ret |-> p, size |-> n, brk |-> brk]
    <3>1. PICK p \in FreePlaces(brk, H, n) : r = [ret |-> p, size |-> n, brk |-> brk]
      BY <2>1
    <3>2. /\ p \in heap_base..(brk - n) /\ (p - heap_base) % PRIVATE_MALLOC_ALIGN = 0
          /\ \A c \in H : Disjoint(c, [at |-> p, size |-> n])
      BY DEF FreePlaces
    <3>3. p \in Nat /\ p + n <= brk
      BY <1>1, <1>2, <1>3, <3>2
    <3>4. Aligned(p)
      <4>1. p - heap_base \in Nat
        BY <1>1, <3>2, <3>3
      <4>2. \A x \in Nat : x % PRIVATE_MALLOC_ALIGN = 0 =>
                 x \div PRIVATE_MALLOC_ALIGN \in Nat
                 /\ x = (x \div PRIVATE_MALLOC_ALIGN) * PRIVATE_MALLOC_ALIGN
        BY <1>1
      <4>3. PICK k \in Nat : p - heap_base = k * PRIVATE_MALLOC_ALIGN
        BY <3>2, <4>1, <4>2
      <4>4. p = heap_base + k * PRIVATE_MALLOC_ALIGN
        BY <1>1, <3>3, <4>3
      <4> QED BY <4>4 DEF Aligned
    <3> QED BY <1>3, <3>1, <3>2, <3>3, <3>4
  <2>2. CASE /\ emulated_sbrk(brk, n) # brk
             /\ r = [ret |-> brk, size |-> n, brk |-> emulated_sbrk(brk, n)]
    <3>1. r.ret = brk /\ r.size = n /\ r.brk = emulated_sbrk(brk, n)
      BY <2>2
    <3>2. emulated_sbrk(brk, n) = brk + n /\ brk + n <= heap_limit
      BY <1>2, <1>3, <2>2, SbrkUp DEF n
    <3>3. Aligned(brk + n)
      BY <1>3, AlignedAbove DEF n
    <3>4. \A c \in H : Disjoint(c, c0)
      BY <3>1 DEF HeapOK, ChunkOK, Disjoint
    <3> QED BY <1>1, <1>2, <1>3, <3>1, <3>2, <3>3, <3>4
  <2>3. CASE r = [ret |-> 0, size |-> 0, brk |-> brk]
    BY <2>3
  <2> QED BY <1>0, <2>1, <2>2, <2>3
<1>5. Aligned(r.ret + n)
  BY <1>4, AlignedAbove DEF n
<1>6. c0.at = r.ret /\ c0.size = n /\ c0 = [at |-> c0.at, size |-> c0.size]
  BY <1>4
<1> HIDE DEF c0
<1>7. ChunkOK(c0, r.brk)
  BY <1>2, <1>4, <1>5, <1>6 DEF ChunkOK
<1>8. \A c \in H : ChunkOK(c, r.brk)
  BY <1>1, <1>3, <1>4 DEF HeapOK, ChunkOK
<1>9. \A c \in H : Disjoint(c0, c) /\ c.at # r.ret
  BY <1>2, <1>4, <1>6 DEF Disjoint, HeapOK, ChunkOK
<1>10. \A c, d \in H : c # d => Disjoint(c, d)
  BY DEF HeapOK
<1>11. HeapOK(r.brk, H \cup {c0})
  BY <1>4, <1>7, <1>8, <1>9, <1>10 DEF HeapOK
<1> QED BY <1>4, <1>9, <1>11 DEF c0

\* The bits of a heap to which a chunk is added, or from which one is taken.
LEMMA BitsGrow ==
    ASSUME NEW brk, NEW H, NEW c, HeapOK(brk, H \cup {c}), \A d \in H : d.at # c.at
    PROVE  BitsOf(H) = BitsOf(H \cup {c}) \ {Bit(c.at)}
<1>1. \A d \in H : Bit(d.at) # Bit(c.at)
  BY BitOfAligned DEF HeapOK, ChunkOK
<1> QED BY <1>1 DEF BitsOf

LEMMA BitsShrink ==
    ASSUME NEW brk, HeapOK(brk, held), NEW p, \E c \in held : c.at = p
    PROVE  BitsOf(Without(p)) = BitsOf(held) \ {Bit(p)}
<1>1. \A d \in held : d.at # p => Bit(d.at) # Bit(p)
  BY BitOfAligned DEF HeapOK, ChunkOK
<1> QED BY <1>1 DEF BitsOf, Without

LEMMA HeapPart ==
    ASSUME NEW brk, NEW H, HeapOK(brk, H), NEW G, G \subseteq H
    PROVE  HeapOK(brk, G)
BY DEF HeapOK

LEMMA SizesSmall ==
    ASSUME NEW n \in Sizes
    PROVE  /\ n \in Nat /\ InsertBytes \in Nat
           /\ n # 0 => RoundUp(n) < AddressMod
           /\ n # 0 => n + InsertBytes \in Nat \ {0} /\ RoundUp(n + InsertBytes) < AddressMod
<1>1. /\ n \in Nat /\ InsertBytes \in Nat /\ PRIVATE_MALLOC_ALIGN \in Nat /\ AddressMod \in Nat
      /\ n + InsertBytes + PRIVATE_MALLOC_ALIGN <= AddressMod
  BY PrivateMallocAssumption
<1>2. ASSUME n # 0 PROVE RoundUp(n) < AddressMod
  <2>1. RoundUp(n) \in Nat /\ RoundUp(n) < n + PRIVATE_MALLOC_ALIGN
    BY <1>1, <1>2, RoundUpIs
  <2> QED BY <1>1, <2>1
<1>3. ASSUME n # 0
      PROVE  n + InsertBytes \in Nat \ {0} /\ RoundUp(n + InsertBytes) < AddressMod
  <2>1. n + InsertBytes \in Nat \ {0}
    BY <1>1, <1>3
  <2>2. /\ RoundUp(n + InsertBytes) \in Nat
        /\ RoundUp(n + InsertBytes) < n + InsertBytes + PRIVATE_MALLOC_ALIGN
    BY <2>1, RoundUpIs
  <2> QED BY <1>1, <2>1, <2>2
<1> QED BY <1>1, <1>2, <1>3

\* A step of one caller while the others are idle, stated once: what remains is
\* what holds of that caller's place.
LEMMA OneCaller ==
    ASSUME at = [u \in Callers |-> at[u]], NEW t \in Callers, NEW x,
           \A u \in Callers : u # t => at[u] = Idle,
           at' = [at EXCEPT ![t] = x],
           bitmapAt' # 0, HeapOK(curbrk, held)', (\E c \in held : c.at = bitmapAt)',
           x = Idle => (bitmap = BitsOf(held))',
           x # Idle => Running(x)'
    PROVE  PrivateInv'
<1>1. \A u \in Callers : at'[u] = IF u = t THEN x ELSE Idle
  OBVIOUS
<1>2. at' = [u \in Callers |-> at'[u]]
  OBVIOUS
<1>3. \A u \in Callers : at'[u] # Idle => u = t /\ x # Idle /\ at'[u] = x
  BY <1>1
<1>4. \A u \in Callers : (at[u] # Idle => Running(at[u]))'
  BY <1>3 DEF Running, HeldAt, WrapperAt
<1>5. (\A u \in Callers : at'[u] = Idle) => x = Idle
  BY <1>1
<1> QED BY <1>2, <1>3, <1>4, <1>5 DEF PrivateInv

\* A wrapper begins when the others are idle, and the bitmap is then exact.
LEMMA Begins ==
    ASSUME PrivateInv, AllPrivateContracts, NEW t \in Callers, Begin(t)
    PROVE  /\ at = [u \in Callers |-> at[u]] /\ \A u \in Callers : at[u] = Idle
           /\ bitmapAt # 0 /\ HeapOK(curbrk, held) /\ \E c \in held : c.at = bitmapAt
           /\ bitmap = BitsOf(held)
BY DEF PrivateInv, Begin, AllPrivateContracts

\* A wrapper goes on while the others are idle.
LEMMA GoesOn ==
    ASSUME PrivateInv, NEW t \in Callers, at[t].pc # "idle"
    PROVE  /\ at = [u \in Callers |-> at[u]] /\ \A u \in Callers : u # t => at[u] = Idle
           /\ bitmapAt # 0 /\ HeapOK(curbrk, held) /\ \E c \in held : c.at = bitmapAt
           /\ Running(at[t])
<1>1. at[t] # Idle
  BY DEF Idle
<1> QED BY <1>1 DEF PrivateInv

\* The word that is read and written is the one with the chunk's bit.
LEMMA BitInItsWord ==
    ASSUME HeapOK(curbrk, held), NEW p, HeldAt(p)
    PROVE  Bit(p) \in BitsOfWordOf(p)
<1>1. PICK c \in held : c.at = p
  BY DEF HeldAt
<1>2. /\ Aligned(p) /\ c.size \in Nat /\ p \in Nat /\ p + c.size <= curbrk
      /\ curbrk \in heap_base..heap_limit
  BY <1>1 DEF HeapOK, ChunkOK
<1>3. /\ PRIVATE_MALLOC_ALIGN \in Nat \ {0} /\ heap_base \in Nat /\ heap_limit \in Nat
      /\ heap_base < heap_limit
  BY PrivateMallocAssumption
<1>4. PICK k \in Nat : p = heap_base + k * PRIVATE_MALLOC_ALIGN
  BY <1>2 DEF Aligned
<1> DEFINE A == PRIVATE_MALLOC_ALIGN
           m == k * A
           l == heap_limit - heap_base
<1>5. m \in Nat /\ l \in Nat /\ p - heap_base = m /\ m <= l
  BY <1>2, <1>3, <1>4
<1>6. m \div A = k
  BY <1>3
<1>7. l \div A \in Nat /\ k <= l \div A
  <2>1. /\ l \div A \in Nat /\ l = (l \div A) * A + (l % A)
        /\ l % A \in 0..(A - 1)
    BY <1>3, <1>5
  <2>2. \A q \in Nat : q < k => q * A + A <= k * A
    BY <1>3
  <2>3. (l \div A) * A \in Nat
    BY <1>3, <2>1
  <2> QED BY <1>3, <1>5, <2>1, <2>2, <2>3
<1>8. Bit(p) = k /\ Bit(heap_limit) = l \div A
  BY <1>5, <1>6 DEF Bit
<1>9. Bit(p) \in 0..Bit(heap_limit)
  BY <1>7, <1>8
<1> QED BY <1>9 DEF BitsOfWordOf

\* The wrappers of dlmalloc, dlcalloc and dlmemalign.
LEMMA AllocKeeps ==
    ASSUME PrivateInv, AllPrivateContracts, NEW t \in Callers, NEW n \in Sizes \ {0},
           NEW fn \in Obtainers, wrap_alloc(t, fn, n)
    PROVE  PrivateInv'
<1>1. /\ at = [u \in Callers |-> at[u]] /\ \A u \in Callers : at[u] = Idle
      /\ bitmapAt # 0 /\ HeapOK(curbrk, held) /\ \E c \in held : c.at = bitmapAt
      /\ bitmap = BitsOf(held)
  BY Begins DEF wrap_alloc
<1>2. UNCHANGED <<bitmap, bitmapAt>> /\ fn # "dlposix_memalign"
  BY DEF wrap_alloc, Obtainers, AllPrivateContracts
<1>3. PICK r \in real_dlmalloc(curbrk, held, n) :
        /\ curbrk' = r.brk
        /\ held' = IF r.ret = 0 THEN held ELSE held \cup {[at |-> r.ret, size |-> r.size]}
        /\ at' = [at EXCEPT ![t] = IF r.ret = 0 \/ fn = "dlposix_memalign" THEN Idle
                                   ELSE [pc |-> "set", ptr |-> r.ret, then |-> "done"]]
  BY DEF wrap_alloc
<1>4. IF r.ret = 0 THEN r.brk = curbrk
      ELSE /\ HeapOK(r.brk, held \cup {[at |-> r.ret, size |-> r.size]})
           /\ \A c \in held : c.at # r.ret
  <2>1. n \in Nat \ {0} /\ RoundUp(n) < AddressMod
    BY SizesSmall
  <2>2. HeapOK(curbrk, held)
    BY <1>1
  <2> QED BY <2>1, <2>2, MallocFits
<1>5. CASE r.ret = 0
  <2>1. /\ curbrk' = curbrk /\ held' = held /\ at' = [at EXCEPT ![t] = Idle]
    BY <1>3, <1>4, <1>5
  <2> QED BY <1>1, <1>2, <2>1, OneCaller DEF BitsOf
<1>6. CASE r.ret # 0
  <2>1. PICK c0 : c0 = [at |-> r.ret, size |-> r.size]
    OBVIOUS
  <2>2. PICK x : x = [pc |-> "set", ptr |-> r.ret, then |-> "done"]
    OBVIOUS
  <2>3. /\ held' = held \cup {c0} /\ curbrk' = r.brk /\ at' = [at EXCEPT ![t] = x]
    BY <1>2, <1>3, <1>6, <2>1, <2>2, ZenonT(30)
  <2>4. HeapOK(curbrk, held)' /\ (\E c \in held : c.at = bitmapAt)'
    BY <1>1, <1>2, <1>4, <1>6, <2>1, <2>3 DEF HeapOK
  <2>5. BitsOf(held) = BitsOf(held \cup {c0}) \ {Bit(r.ret)}
    BY <1>4, <1>6, <2>1, BitsGrow
  <2>6. x.pc = "set" /\ x.ptr = r.ret /\ x.then = "done" /\ x # Idle
    BY <2>2 DEF Idle
  <2>7. Running(x)'
    <3>1. (bitmap = BitsOf(held) \ {Bit(x.ptr)})'
      BY <1>1, <1>2, <2>3, <2>5, <2>6 DEF BitsOf
    <3>2. x.ptr # bitmapAt' /\ \E c \in held' : c.at = x.ptr
      BY <1>1, <1>2, <1>4, <1>6, <2>1, <2>3, <2>6
    <3> QED BY <2>6, <3>1, <3>2 DEF Running, HeldAt, WrapperAt
  <2> QED BY <1>1, <1>2, <2>3, <2>4, <2>6, <2>7, OneCaller
<1> QED BY <1>5, <1>6

\* The wrappers of dlfree and dlrealloc clear the bit of a chunk that is held.
LEMMA ClearKeeps ==
    ASSUME PrivateInv, AllPrivateContracts, NEW t \in Callers, NEW c \in InUse,
           wrap_dlfree(t, c) \/ wrap_dlrealloc(t, c)
    PROVE  PrivateInv'
<1>1. /\ at = [u \in Callers |-> at[u]] /\ \A u \in Callers : at[u] = Idle
      /\ bitmapAt # 0 /\ HeapOK(curbrk, held) /\ \E d \in held : d.at = bitmapAt
      /\ bitmap = BitsOf(held)
  BY Begins DEF wrap_dlfree, wrap_dlrealloc
<1>2. UNCHANGED <<curbrk, held, bitmap, bitmapAt>>
  BY DEF wrap_dlfree, wrap_dlrealloc
<1>3. PICK x : /\ at' = [at EXCEPT ![t] = x]
               /\ x.pc = "clear" /\ x.ptr = c.at /\ x.then \in {"free", "realloc"}
  <2>1. PICK then \in {"free", "realloc"} : ClearThen(t, c, then)
    BY DEF wrap_dlfree, wrap_dlrealloc
  <2>2. PICK y : y = [pc |-> "clear", ptr |-> c.at, then |-> then]
    OBVIOUS
  <2>3. y.pc = "clear" /\ y.ptr = c.at /\ y.then \in {"free", "realloc"}
    BY <2>2
  <2>4. at' = [at EXCEPT ![t] = y]
    BY <2>1, <2>2 DEF ClearThen
  <2> QED BY <2>3, <2>4
<1>4. x # Idle
  BY <1>3 DEF Idle
<1>5. c \in held /\ c.at # bitmapAt
  BY DEF InUse
<1>6. (bitmap = BitsOf(held))'
  BY <1>1, <1>2 DEF BitsOf
<1>7. Running(x)'
  BY <1>2, <1>3, <1>5, <1>6 DEF Running, HeldAt, WrapperAt
<1> QED BY <1>1, <1>2, <1>3, <1>4, <1>7, OneCaller

\* bitmap_set_b and bitmap_clear_b read the word...
LEMMA ReadWordKeeps ==
    ASSUME PrivateInv, NEW t \in Callers, ReadWord(t)
    PROVE  PrivateInv'
<1>1. /\ at = [u \in Callers |-> at[u]] /\ \A u \in Callers : u # t => at[u] = Idle
      /\ bitmapAt # 0 /\ HeapOK(curbrk, held) /\ \E c \in held : c.at = bitmapAt
      /\ Running(at[t])
  BY GoesOn DEF ReadWord
<1>2. PICK x : x = [pc |-> IF at[t].pc = "set" THEN "setting" ELSE "clearing",
                    ptr |-> at[t].ptr, then |-> at[t].then,
                    word |-> bitmap \cap BitsOfWordOf(at[t].ptr)]
  OBVIOUS
<1>3. /\ UNCHANGED <<curbrk, held, bitmap, bitmapAt>> /\ at[t].pc \in {"set", "clear"}
      /\ at' = [at EXCEPT ![t] = x]
  BY <1>1, <1>2 DEF ReadWord
<1>4. x.pc = (IF at[t].pc = "set" THEN "setting" ELSE "clearing") /\ x.ptr = at[t].ptr
      /\ x.then = at[t].then /\ x.word = bitmap \cap BitsOfWordOf(at[t].ptr) /\ x # Idle
  BY <1>2 DEF Idle
<1>5. Running(x)'
  BY <1>1, <1>3, <1>4 DEF Running, HeldAt, WrapperAt, BitsOf
<1> QED BY <1>1, <1>3, <1>4, <1>5, OneCaller

\* ... and write it back with one bit changed.
LEMMA WriteWordKeeps ==
    ASSUME PrivateInv, NEW t \in Callers, WriteWord(t)
    PROVE  PrivateInv'
<1>1. /\ at = [u \in Callers |-> at[u]] /\ \A u \in Callers : u # t => at[u] = Idle
      /\ bitmapAt # 0 /\ HeapOK(curbrk, held) /\ \E c \in held : c.at = bitmapAt
      /\ Running(at[t])
  BY GoesOn DEF WriteWord
<1>2. PICK x : x = IF at[t].then = "done" THEN Idle
                   ELSE [pc |-> at[t].then, ptr |-> at[t].ptr, then |-> at[t].then]
  OBVIOUS
<1>3. /\ UNCHANGED <<curbrk, held, bitmapAt>> /\ at[t].pc \in {"setting", "clearing"}
      /\ at' = [at EXCEPT ![t] = x]
  BY <1>1, <1>2 DEF WriteWord
<1>4. HeldAt(at[t].ptr) /\ at[t].word = bitmap \cap BitsOfWordOf(at[t].ptr)
  BY <1>1, <1>3 DEF Running
<1>5. CASE at[t].pc = "setting"
  <2>1. at[t].then = "done" /\ bitmap = BitsOf(held) \ {Bit(at[t].ptr)}
    BY <1>1, <1>5 DEF Running, WrapperAt
  <2>2. bitmap' = bitmap \cup {Bit(at[t].ptr)}
    BY <1>4, <1>5 DEF WriteWord
  <2>3. Bit(at[t].ptr) \in BitsOf(held)
    BY <1>4 DEF HeldAt, BitsOf
  <2>4. (bitmap = BitsOf(held))'
    BY <1>3, <2>1, <2>2, <2>3 DEF BitsOf
  <2> QED BY <1>1, <1>2, <1>3, <2>1, <2>4, OneCaller
<1>6. CASE at[t].pc = "clearing"
  <2>1. at[t].then \in {"free", "realloc"} /\ bitmap = BitsOf(held)
    BY <1>1, <1>6 DEF Running, WrapperAt
  <2>2. bitmap' = bitmap \ {Bit(at[t].ptr)}
    BY <1>1, <1>4, <1>6, BitInItsWord DEF WriteWord
  <2>3. x.pc \in {"free", "realloc"} /\ x.ptr = at[t].ptr /\ x # Idle
    BY <1>2, <2>1 DEF Idle
  <2>4. Running(x)'
    BY <1>3, <1>4, <2>1, <2>2, <2>3 DEF Running, HeldAt, WrapperAt, BitsOf
  <2> QED BY <1>1, <1>3, <2>3, <2>4, OneCaller
<1> QED BY <1>3, <1>5, <1>6

LEMMA FreeKeeps ==
    ASSUME PrivateInv, NEW t \in Callers, real_dlfree(t)
    PROVE  PrivateInv'
<1>1. /\ at = [u \in Callers |-> at[u]] /\ \A u \in Callers : u # t => at[u] = Idle
      /\ bitmapAt # 0 /\ HeapOK(curbrk, held) /\ \E c \in held : c.at = bitmapAt
      /\ Running(at[t])
  BY GoesOn DEF real_dlfree
<1>2. /\ at[t].pc = "free" /\ held' = Without(at[t].ptr) /\ at' = [at EXCEPT ![t] = Idle]
      /\ UNCHANGED <<curbrk, bitmap, bitmapAt>>
  BY DEF real_dlfree
<1>3. HeldAt(at[t].ptr) /\ bitmap = BitsOf(held) \ {Bit(at[t].ptr)}
  BY <1>1, <1>2 DEF Running, WrapperAt
<1>4. HeapOK(curbrk, Without(at[t].ptr))
  BY <1>1, HeapPart DEF Without
<1>5. bitmap = BitsOf(Without(at[t].ptr))
  BY <1>1, <1>3, BitsShrink DEF HeldAt
<1>6. HeapOK(curbrk, held)' /\ (bitmap = BitsOf(held))'
  BY <1>2, <1>4, <1>5 DEF HeapOK, BitsOf
<1>7. (\E c \in held : c.at = bitmapAt)'
  BY <1>1, <1>2, <1>3 DEF HeldAt, Without
<1> QED BY <1>1, <1>2, <1>6, <1>7, OneCaller

\* dlrealloc gives the chunk up, or another in its stead, perhaps in its place.
LEMMA ReallocKeeps ==
    ASSUME PrivateInv, AllPrivateContracts, NEW t \in Callers, NEW n \in Sizes,
           real_dlrealloc(t, n)
    PROVE  PrivateInv'
<1>1. /\ at = [u \in Callers |-> at[u]] /\ \A u \in Callers : u # t => at[u] = Idle
      /\ bitmapAt # 0 /\ HeapOK(curbrk, held) /\ \E c \in held : c.at = bitmapAt
      /\ Running(at[t])
  BY GoesOn DEF real_dlrealloc
<1>2. PICK p : p = at[t].ptr
  OBVIOUS
<1>3. at[t].pc = "realloc" /\ UNCHANGED <<bitmap, bitmapAt>>
  BY DEF real_dlrealloc
<1>4. HeldAt(p) /\ bitmap = BitsOf(held) \ {Bit(p)}
  BY <1>1, <1>2, <1>3 DEF Running, WrapperAt
<1>5. HeapOK(curbrk, Without(p)) /\ bitmap = BitsOf(Without(p))
  BY <1>1, <1>4, HeapPart, BitsShrink DEF HeldAt, Without
<1>6. \E c \in Without(p) : c.at = bitmapAt
  BY <1>1, <1>4 DEF HeldAt, Without
<1>7. CASE n = 0 /\ held' = Without(p) /\ at' = [at EXCEPT ![t] = Idle] /\ UNCHANGED curbrk
  <2>1. HeapOK(curbrk, held)' /\ (bitmap = BitsOf(held))' /\ (\E c \in held : c.at = bitmapAt)'
    BY <1>3, <1>5, <1>6, <1>7 DEF HeapOK, BitsOf
  <2> QED BY <1>1, <1>3, <1>7, <2>1, OneCaller
<1>8. ASSUME n # 0, NEW r, r.ret # 0,
             \/ r \in real_dlmalloc(curbrk, Without(p), n + InsertBytes) /\ r.ret = p
             \/ r \in real_dlmalloc(curbrk, held, n + InsertBytes),
             curbrk' = r.brk,
             held' = Without(p) \cup {[at |-> r.ret, size |-> r.size]},
             at' = [at EXCEPT ![t] = [pc |-> "set", ptr |-> r.ret, then |-> "done"]]
      PROVE  PrivateInv'
  <2>1. n + InsertBytes \in Nat \ {0} /\ RoundUp(n + InsertBytes) < AddressMod
    BY <1>8, SizesSmall
  <2>2. PICK c0 : c0 = [at |-> r.ret, size |-> r.size]
    BY ZenonT(30)
  <2>3. /\ HeapOK(r.brk, Without(p) \cup {c0}) /\ \A c \in Without(p) : c.at # r.ret
        /\ r.ret # bitmapAt
    <3>1. CASE r \in real_dlmalloc(curbrk, Without(p), n + InsertBytes) /\ r.ret = p
      <4>1. HeapOK(r.brk, Without(p) \cup {c0}) /\ \A c \in Without(p) : c.at # r.ret
        BY <1>5, <1>8, <2>1, <2>2, <3>1, MallocFits, ZenonT(30)
      <4>2. r.ret # bitmapAt
        BY <1>4, <3>1, ZenonT(30) DEF HeldAt
      <4> QED BY <4>1, <4>2, ZenonT(30)
    <3>2. CASE r \in real_dlmalloc(curbrk, held, n + InsertBytes)
      <4>0. HeapOK(curbrk, held)
        BY <1>1
      <4>1. HeapOK(r.brk, held \cup {c0}) /\ \A c \in held : c.at # r.ret
        BY <1>8, <2>1, <2>2, <3>2, <4>0, MallocFits, SMTT(20)
      <4>2. Without(p) \subseteq held
        BY DEF Without
      <4>3. HeapOK(r.brk, Without(p) \cup {c0})
        BY <4>1, <4>2, HeapPart
      <4> QED BY <1>1, <4>1, <4>2, <4>3
    <3> QED BY <1>8, <3>1, <3>2, ZenonT(30)
  <2>4. BitsOf(Without(p)) = BitsOf(Without(p) \cup {c0}) \ {Bit(r.ret)}
    <3>1. c0.at = r.ret
      BY <2>2
    <3>2. \A c \in Without(p) : c.at # c0.at
      BY <2>3, <3>1
    <3>3. HeapOK(r.brk, Without(p) \cup {c0})
      BY <2>3
    <3>4. BitsOf(Without(p)) = BitsOf(Without(p) \cup {c0}) \ {Bit(c0.at)}
      BY <3>2, <3>3, BitsGrow, ZenonT(30)
    <3> QED BY <3>1, <3>4, ZenonT(30)
  <2>5. PICK x : x = [pc |-> "set", ptr |-> r.ret, then |-> "done"]
    BY ZenonT(30)
  <2>6. x.pc = "set" /\ x.ptr = r.ret /\ x.then = "done" /\ x # Idle
    BY <2>5 DEF Idle
  <2>7. held' = Without(p) \cup {c0} /\ at' = [at EXCEPT ![t] = x]
    BY <1>8, <2>2, <2>5
  <2>8. HeapOK(curbrk, held)' /\ (\E c \in held : c.at = bitmapAt)'
    BY <1>3, <1>6, <1>8, <2>3, <2>7 DEF HeapOK
  <2>9. (bitmap = BitsOf(held) \ {Bit(x.ptr)})'
    BY <1>3, <1>5, <2>4, <2>6, <2>7 DEF BitsOf
  <2>10. x.ptr # bitmapAt' /\ \E c \in held' : c.at = x.ptr
    BY <1>3, <2>2, <2>3, <2>6, <2>7
  <2>11. Running(x)'
    BY <2>6, <2>9, <2>10 DEF Running, HeldAt, WrapperAt
  <2> QED BY <1>1, <1>3, <2>6, <2>7, <2>8, <2>11, OneCaller
<1> QED BY <1>2, <1>7, <1>8, ZenonT(30) DEF real_dlrealloc, AllPrivateContracts

\* create_private_nommap_malloc_heap: the bitmap is the first chunk.
LEMMA CreateKeeps ==
    ASSUME PrivateInv, create_heap
    PROVE  PrivateInv'
<1> DEFINE units == DivideRoundingUp(heap_limit - heap_base, PRIVATE_MALLOC_ALIGN)
           bytes == DivideRoundingUp(units, 8) + InsertBytes
<1>1. /\ heap_base \in Nat \ {0} /\ heap_limit \in Nat /\ heap_base < heap_limit
      /\ PRIVATE_MALLOC_ALIGN \in Nat \ {0} /\ PRIVATE_MALLOC_ALIGN <= heap_base
      /\ AddressMod \in Nat /\ heap_limit < AddressMod /\ InsertBytes \in Nat
  BY PrivateMallocAssumption
<1>2. units \in Nat \ {0}
  <2>1. \A m \in Nat \ {0}, d \in Nat \ {0} : (m + d - 1) \div d \in Nat \ {0}
    OBVIOUS
  <2> QED BY <1>1, <2>1 DEF DivideRoundingUp
<1> HIDE DEF units
<1>3. bytes \in Nat \ {0}
  BY <1>1, <1>2 DEF DivideRoundingUp
<1>4. PICK r \in real_dlmalloc(heap_base, {}, bytes) :
        /\ r.ret # 0 /\ r.ret + bytes < heap_limit
        /\ curbrk' = r.brk
        /\ held' = {[at |-> r.ret, size |-> r.size]}
        /\ bitmapAt' = r.ret
        /\ bitmap' = {Bit(r.ret)}
  BY DEF create_heap, units
<1>5. bitmapAt = 0 /\ UNCHANGED at
  BY DEF create_heap
<1> HIDE DEF bytes
<1>6. RoundUp(bytes) < AddressMod
  <2>1. r.ret \in Nat /\ heap_base <= r.ret
    <3>1. RoundUp(bytes) \in Nat
      BY <1>3, RoundUpIs
    <3>2. \A p \in FreePlaces(heap_base, {}, RoundUp(bytes)) : p \in Nat /\ heap_base <= p
      BY <1>1, <3>1 DEF FreePlaces
    <3>3. \/ \E p \in FreePlaces(heap_base, {}, RoundUp(bytes)) : r.ret = p
          \/ r.ret = heap_base
          \/ r.ret = 0
      BY <1>4, MallocOutcomes
    <3> QED BY <1>1, <1>4, <3>2, <3>3
  <2>2. RoundUp(bytes) \in Nat /\ RoundUp(bytes) < bytes + PRIVATE_MALLOC_ALIGN
    BY <1>3, RoundUpIs
  <2> QED BY <1>1, <1>3, <1>4, <2>1, <2>2
<1>7. HeapOK(heap_base, {})
  <2>1. heap_base = heap_base + 0 * PRIVATE_MALLOC_ALIGN
    BY <1>1
  <2> QED BY <1>1, <2>1 DEF HeapOK, Aligned
<1>8. HeapOK(r.brk, {} \cup {[at |-> r.ret, size |-> r.size]}) /\ r.ret \in Nat
  BY <1>3, <1>4, <1>6, <1>7, MallocFits
<1>9. HeapOK(curbrk, held)' /\ (\E c \in held : c.at = bitmapAt)'
  BY <1>4, <1>8 DEF HeapOK
<1>10. (bitmap = BitsOf(held))'
  BY <1>4 DEF BitsOf
<1>11. \A t \in Callers : at'[t] = Idle
  BY <1>5 DEF PrivateInv
<1> QED BY <1>4, <1>5, <1>9, <1>10, <1>11 DEF PrivateInv

\* The break comes down to the end of the last chunk.
LEMMA TrimKeeps ==
    ASSUME PrivateInv, trim
    PROVE  PrivateInv'
<1>1. /\ bitmapAt # 0 /\ HeapOK(curbrk, held) /\ \E c \in held : c.at = bitmapAt
      /\ Top(held) < curbrk /\ curbrk' = emulated_sbrk(curbrk, Top(held) - curbrk)
      /\ UNCHANGED <<held, bitmap, bitmapAt, at>>
  BY DEF trim, PrivateInv
<1>2. heap_base \in Nat /\ heap_limit \in Nat /\ PRIVATE_MALLOC_ALIGN \in Nat \ {0}
  BY PrivateMallocAssumption
<1>3. curbrk \in Nat /\ curbrk \in heap_base..heap_limit /\ \A c \in held : ChunkOK(c, curbrk)
  BY <1>1, <1>2 DEF HeapOK
<1> DEFINE ends == {c.at + c.size : c \in held}
<1>4. ends \subseteq Nat /\ ends # {} /\ \A e \in ends : e <= curbrk
  BY <1>1, <1>3 DEF ChunkOK
<1>5. \E e \in ends : \A other \in ends : other <= e
  BY <1>3, <1>4, GreatestNat
<1>6. Top(held) \in ends /\ \A other \in ends : other <= Top(held)
  BY <1>5 DEF Top
<1>7. Aligned(Top(held)) /\ Top(held) \in Nat
  BY <1>3, <1>4, <1>6 DEF ChunkOK
<1>8. heap_base <= Top(held)
  <2>1. PICK k \in Nat : Top(held) = heap_base + k * PRIVATE_MALLOC_ALIGN
    BY <1>7 DEF Aligned
  <2>2. k * PRIVATE_MALLOC_ALIGN \in Nat
    BY <1>2
  <2> QED BY <1>2, <2>1, <2>2
<1>9. curbrk' = Top(held) /\ Top(held) \in heap_base..heap_limit
  <2>1. Top(held) \in heap_base..heap_limit
    BY <1>1, <1>2, <1>3, <1>7, <1>8
  <2> QED BY <1>1, <1>3, <2>1, SbrkDown
<1>10. HeapOK(curbrk, held)'
  <2>1. \A c \in held : ChunkOK(c, Top(held))
    BY <1>3, <1>6 DEF ChunkOK
  <2> QED BY <1>1, <1>7, <1>9, <2>1 DEF HeapOK
<1>11. (\A t \in Callers : at[t] # Idle => Running(at[t]))'
  BY <1>1 DEF PrivateInv, Running, HeldAt, WrapperAt, BitsOf
<1>12. ((\A t \in Callers : at[t] = Idle) => bitmap = BitsOf(held))'
  BY <1>1 DEF PrivateInv, BitsOf
<1> QED BY <1>1, <1>10, <1>11, <1>12 DEF PrivateInv

LEMMA PrivateInitInv == PrivateInit => PrivateInv
BY DEF PrivateInit, PrivateInv, BitsOf

LEMMA PrivateNextInv ==
    ASSUME AllPrivateContracts
    PROVE  PrivateInv /\ [PrivateNext]_privateVars => PrivateInv'
<1> SUFFICES ASSUME PrivateInv, [PrivateNext]_privateVars PROVE PrivateInv'
  OBVIOUS
<1>1. CASE UNCHANGED privateVars
  BY <1>1 DEF privateVars, PrivateInv, Running, HeldAt, WrapperAt, BitsOf, HeapOK
<1> QED
  BY <1>1, CreateKeeps, TrimKeeps, AllocKeeps, ClearKeeps, ReadWordKeeps, WriteWordKeeps,
     FreeKeeps, ReallocKeeps
  DEF PrivateNext

\* With callers that take turns, for every heap, alignment and word size: the
\* break and the chunks of liballocs's own malloc stay in the heap and apart,
\* and between calls the bitmap has exactly the bits of the chunks
\* (src/dlmalloc-ext.c).
THEOREM PrivateHeapIndexed ==
    ASSUME AllPrivateContracts
    PROVE  PrivateSpec => []PrivateIndexExact
<1>1. PrivateInv => PrivateIndexExact
  <2> SUFFICES ASSUME PrivateInv PROVE PrivateIndexExact
    OBVIOUS
  <2>1. ASSUME bitmapAt # 0
        PROVE  /\ curbrk \in heap_base..heap_limit
               /\ \A c \in held : heap_base <= c.at /\ c.at + c.size <= curbrk
               /\ \A c, d \in held : c # d => Disjoint(c, d)
    <3>1. HeapOK(curbrk, held)
      BY <2>1 DEF PrivateInv
    <3>2. \A p : Aligned(p) => heap_base <= p
      <4> SUFFICES ASSUME NEW p, Aligned(p) PROVE heap_base <= p
        OBVIOUS
      <4>1. PICK k \in Nat : p = heap_base + k * PRIVATE_MALLOC_ALIGN
        BY DEF Aligned
      <4>2. k * PRIVATE_MALLOC_ALIGN \in Nat /\ heap_base \in Nat
        BY PrivateMallocAssumption
      <4> QED BY <4>1, <4>2
    <3> QED BY <3>1, <3>2 DEF HeapOK, ChunkOK
  <2> QED BY <2>1 DEF PrivateInv, PrivateIndexExact, BitsOf
<1> QED BY <1>1, PrivateInitInv, PrivateNextInv, PTL DEF PrivateSpec
=============================================================================
