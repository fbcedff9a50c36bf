---------------------------- MODULE MallocProofs ----------------------------
(***************************************************************************)
(* That the index of a malloc's chunks is right, for any arena, alignment, *)
(* word size and promotion threshold, any sizes and any number of threads: *)
(* ChunksIndexed, UnpromotedFound and BigExcludesInsert of MallocIndex.    *)
(***************************************************************************)
EXTENDS MallocIndex, TLAPS

\* What has to be assumed: no request of zero bytes, and either no promoted
\* chunks or promoted chunks that are resized upwards and with success.
SoundRegimes ==
    \A r \in Regimes :
        /\ "nonzero" \in r
        /\ \/ "none_promoted" \in r
           \/ {"promoted_not_shrunk", "promoted_grow", "shrunk_no_larger"} \subseteq r

-----------------------------------------------------------------------------
(* The shape of the bitmap. *)

LEMMA Division ==
    ASSUME NEW d \in Nat \ {0}, NEW x \in Int
    PROVE  /\ x \div d \in Int /\ x % d \in 0..(d - 1)
           /\ x = d * (x \div d) + (x % d)
           /\ x \in Nat => x \div d \in Nat
OBVIOUS

LEMMA TimesOrder ==
    ASSUME NEW d \in Nat \ {0}, NEW i \in Int, NEW j \in Int
    PROVE  /\ d * i \in Int
           /\ i <= j <=> d * i <= d * j
           /\ i < j <=> d * i < d * j
           /\ d * i < d * j + d <=> i <= j
<1>1. d * i \in Int /\ d * j \in Int
  OBVIOUS
<1>2. i <= j => d * i <= d * j
  <2> HAVE i <= j
  <2>1. PICK k \in Nat : j = i + k
    <3>1. j - i \in Nat /\ j = i + (j - i)
      OBVIOUS
    <3> QED BY <3>1
  <2>2. d * j = d * i + d * k /\ d * k \in Nat
    BY <2>1
  <2> QED BY <2>2, <1>1
<1>3. i + 1 <= j => d * i + d <= d * j
  <2> HAVE i + 1 <= j
  <2>1. PICK k \in Nat : j = i + 1 + k
    <3>1. j - i - 1 \in Nat /\ j = i + 1 + (j - i - 1)
      OBVIOUS
    <3> QED BY <3>1
  <2>2. d * j = d * i + d + d * k /\ d * k \in Nat
    BY <2>1
  <2> QED BY <2>2, <1>1
<1>4. j + 1 <= i => d * j + d <= d * i
  <2> HAVE j + 1 <= i
  <2>1. PICK k \in Nat : i = j + 1 + k
    <3>1. i - j - 1 \in Nat /\ i = j + 1 + (i - j - 1)
      OBVIOUS
    <3> QED BY <3>1
  <2>2. d * i = d * j + d + d * k /\ d * k \in Nat
    BY <2>1
  <2> QED BY <2>2, <1>1
<1>5. i = j \/ i + 1 <= j \/ j + 1 <= i
  OBVIOUS
<1>6. CASE i = j
  BY <1>1, <1>6
<1>7. CASE i + 1 <= j
  <2>1. d * i + d <= d * j
    BY <1>3, <1>7
  <2> QED BY <2>1, <1>1, <1>7
<1>8. CASE j + 1 <= i
  <2>1. d * j + d <= d * i
    BY <1>4, <1>8
  <2> QED BY <2>1, <1>1, <1>8
<1> QED BY <1>5, <1>6, <1>7, <1>8

LEMMA Units ==
    /\ MallocAlign \in Nat \ {0} /\ WordBits \in Nat \ {0} /\ WordBytes \in Nat \ {0}
    /\ InsertSize \in Nat \ {0} /\ InsertSize <= MallocAlign
    /\ Begin \in Nat /\ End \in Nat /\ Threshold \in Nat
BY MallocIndexAssumption DEF WordBytes

\* Rounding down gives a multiple of the alignment, no more than a word below.
LEMMA RoundedDown ==
    ASSUME NEW a \in Int
    PROVE  /\ ROUND_DOWN(a) \in Int /\ ROUND_DOWN(a) <= a /\ a < ROUND_DOWN(a) + WordBytes
           /\ \E q \in Int : ROUND_DOWN(a) = WordBytes * q /\ (a \in Nat => q \in Nat)
<1>1. PICK q \in Int : q = a \div WordBytes
  BY Units, Division
<1>2. /\ a % WordBytes \in 0..(WordBytes - 1) /\ a = WordBytes * q + (a % WordBytes)
      /\ a \in Nat => q \in Nat
  BY <1>1, Units, Division
<1>3. ROUND_DOWN(a) = WordBytes * q /\ WordBytes * q \in Int
  BY <1>1, Units DEF ROUND_DOWN
<1> QED BY <1>2, <1>3, Units

LEMMA FirstAddr ==
    /\ bitmap_base_addr \in Nat /\ bitmap_base_addr <= Begin
    /\ \E q \in Nat : bitmap_base_addr = WordBytes * q
    /\ \E k \in Nat : bitmap_base_addr = MallocAlign * k
<1>1. Begin \in Int /\ Begin \in Nat
  BY Units
<1>2. PICK q \in Int : ROUND_DOWN(Begin) = WordBytes * q /\ (Begin \in Nat => q \in Nat)
  BY <1>1, RoundedDown
<1>3. q \in Nat /\ WordBytes * q \in Nat
  BY <1>1, <1>2, Units
<1>4. WordBytes * q = MallocAlign * (WordBits * q) /\ WordBits * q \in Nat
  BY <1>3, Units DEF WordBytes
<1>5. ROUND_DOWN(Begin) <= Begin
  BY <1>1, RoundedDown
<1> QED BY <1>2, <1>3, <1>4, <1>5 DEF bitmap_base_addr

\* A place where a chunk may begin has a bit of its own.
LEMMA BitOfBase ==
    ASSUME NEW b \in Bases
    PROVE  b \in Nat /\ BitOf(b) \in Nat /\ bitmap_base_addr + MallocAlign * BitOf(b) = b
<1>1. b \in Int /\ Begin <= b /\ b \in Nat /\ b % MallocAlign = 0
  BY Units DEF Bases, Addrs
<1>2. PICK m \in Int : m = b \div MallocAlign
  BY <1>1, Units, Division
<1>3. b = MallocAlign * m + (b % MallocAlign) /\ m \in Nat
  BY <1>1, <1>2, Units, Division
<1>4. PICK k \in Nat : bitmap_base_addr = MallocAlign * k
  BY FirstAddr
<1>5. MallocAlign * m \in Int /\ MallocAlign * k \in Int
  BY Units
<1>6. b = MallocAlign * m
  BY <1>1, <1>3, <1>5
<1>7. k <= m
  BY <1>1, <1>4, <1>6, FirstAddr, TimesOrder, Units
<1>8. m - k \in Nat /\ b - bitmap_base_addr = MallocAlign * (m - k)
  BY <1>4, <1>6, <1>7, Units
<1>9. (MallocAlign * (m - k)) \div MallocAlign = m - k
  <2>1. PICK n \in Nat : n = m - k
    BY <1>8
  <2>2. MallocAlign * n \in Int
    BY Units
  <2>3. PICK x \in Int : x = MallocAlign * n
    BY <2>2
  <2>4. /\ x \div MallocAlign \in Int /\ x % MallocAlign \in 0..(MallocAlign - 1)
        /\ x = MallocAlign * (x \div MallocAlign) + (x % MallocAlign)
    BY Units, Division
  <2>5. PICK y \in Int : y = x \div MallocAlign
    BY <2>4
  <2>6. MallocAlign * y <= MallocAlign * n /\ MallocAlign * n < MallocAlign * y + MallocAlign
    <3>1. MallocAlign * y \in Int
      BY Units
    <3> QED BY <2>2, <2>3, <2>4, <2>5, <3>1, Units
  <2>7. y <= n /\ n <= y
    BY <2>6, Units, TimesOrder
  <2>8. y = n
    BY <2>7
  <2> QED BY <2>1, <2>3, <2>5, <2>8
<1>10. BitOf(b) = m - k
  BY <1>8, <1>9 DEF BitOf
<1>11. MallocAlign * (m - k) = b - bitmap_base_addr /\ bitmap_base_addr \in Nat
  BY <1>8, FirstAddr
<1> QED BY <1>1, <1>8, <1>10, <1>11

\* The bit of any address is that of the last such place at or below it.
LEMMA BitOfAny ==
    ASSUME NEW mem \in Int, bitmap_base_addr <= mem
    PROVE  /\ BitOf(mem) \in Nat /\ bitmap_base_addr + MallocAlign * BitOf(mem) <= mem
           /\ mem < bitmap_base_addr + MallocAlign * BitOf(mem) + MallocAlign
<1>1. PICK x \in Nat : x = mem - bitmap_base_addr
  BY FirstAddr
<1>2. PICK y \in Nat : y = x \div MallocAlign
  BY Units, Division
<1>3. x = MallocAlign * y + (x % MallocAlign) /\ x % MallocAlign \in 0..(MallocAlign - 1)
  BY <1>2, Units, Division
<1>4. MallocAlign * y \in Int
  BY Units
<1>5. BitOf(mem) = y
  BY <1>1, <1>2 DEF BitOf
<1> QED BY <1>1, <1>3, <1>4, <1>5, FirstAddr, Units

LEMMA BitOrder ==
    ASSUME NEW b \in Bases, NEW mem \in Int, bitmap_base_addr <= mem
    PROVE  BitOf(b) <= BitOf(mem) <=> b <= mem
<1>1. PICK i \in Nat : i = BitOf(b) /\ bitmap_base_addr + MallocAlign * i = b
  BY BitOfBase
<1>2. PICK j \in Nat : /\ j = BitOf(mem) /\ bitmap_base_addr + MallocAlign * j <= mem
                       /\ mem < bitmap_base_addr + MallocAlign * j + MallocAlign
  BY BitOfAny
<1>3. MallocAlign * i \in Int /\ MallocAlign * j \in Int
  BY Units
<1>4. i <= j <=> MallocAlign * i <= MallocAlign * j
  BY Units, TimesOrder
<1>5. MallocAlign * i < MallocAlign * j + MallocAlign <=> i <= j
  BY Units, TimesOrder
<1> QED BY <1>1, <1>2, <1>3, <1>4, <1>5, FirstAddr, Units

LEMMA BitsDiffer ==
    ASSUME NEW b \in Bases, NEW c \in Bases, BitOf(b) = BitOf(c)
    PROVE  b = c
BY BitOfBase

\* "The address *must* be in our tracked range": the bitmap is made long enough.
LEMMA BitFits ==
    ASSUME NEW b \in Bases, NEW requested \in Nat \ {0}
    PROVE  TotalWords(b + requested) \in Nat /\ BitOf(b) < TotalWords(b + requested) * WordBits
<1>1. b \in Nat /\ Begin <= b
  BY Units DEF Bases, Addrs
<1>2. PICK a \in Nat : a = b + requested + WordBytes - 1
  <2>1. b + requested + WordBytes - 1 \in Nat
    BY <1>1, Units
  <2> QED BY <2>1
<1>3. PICK q \in Nat : ROUND_DOWN(a) = WordBytes * q
  BY RoundedDown
<1>4. PICK f \in Nat : bitmap_base_addr = WordBytes * f
  BY FirstAddr
<1>5. WordBytes * q \in Int /\ WordBytes * f \in Int /\ bitmap_base_addr <= Begin
  BY <1>4, FirstAddr, Units
<1>6. b < WordBytes * q
  <2>1. a < ROUND_DOWN(a) + WordBytes
    BY RoundedDown
  <2> QED BY <1>1, <1>2, <1>3, <1>5, <2>1, Units
<1>7. f <= q /\ q - f \in Nat
  BY <1>1, <1>4, <1>5, <1>6, Units, TimesOrder
<1>8. TotalWords(b + requested) = q - f
  <2>1. ROUND_UP(b + requested) = ROUND_DOWN(a)
    BY <1>2 DEF ROUND_UP
  <2>2. ROUND_UP(b + requested) - bitmap_base_addr = WordBytes * (q - f)
    BY <1>3, <1>4, <1>7, <2>1, Units
  <2>3. PICK n \in Nat : n = q - f
    BY <1>7
  <2>4. PICK x \in Int : x = WordBytes * n
    BY Units
  <2>5. /\ x \div WordBytes \in Int /\ x % WordBytes \in 0..(WordBytes - 1)
        /\ x = WordBytes * (x \div WordBytes) + (x % WordBytes)
    BY Units, Division
  <2>6. PICK y \in Int : y = x \div WordBytes
    BY <2>5
  <2>7. WordBytes * y <= WordBytes * n /\ WordBytes * n < WordBytes * y + WordBytes
    <3>1. WordBytes * y \in Int /\ WordBytes * n \in Int
      BY Units
    <3> QED BY <2>4, <2>5, <2>6, <3>1, Units
  <2>8. y <= n /\ n <= y
    BY <2>7, Units, TimesOrder
  <2>9. x \div WordBytes = n
    BY <2>6, <2>8
  <2> QED BY <2>2, <2>3, <2>4, <2>9 DEF TotalWords
<1>9. BitOf(b) < (q - f) * WordBits
  <2>1. PICK n \in Nat : n = q - f
    BY <1>7
  <2>2. PICK w \in Nat : w = n * WordBits
    BY Units
  <2>3. MallocAlign * w = WordBytes * n
    BY <2>2, Units DEF WordBytes
  <2>4. WordBytes * q = WordBytes * f + WordBytes * n /\ WordBytes * n \in Int
    BY <2>1, Units
  <2>5. PICK i \in Nat : i = BitOf(b) /\ bitmap_base_addr + MallocAlign * i = b
    BY BitOfBase
  <2>6. MallocAlign * i < MallocAlign * w
    <3>1. MallocAlign * i \in Int
      BY Units
    <3> QED BY <1>4, <1>5, <1>6, <2>3, <2>4, <2>5, <3>1
  <2>7. i < w
    BY <2>6, Units, TimesOrder
  <2> QED BY <2>1, <2>2, <2>5, <2>7
<1> QED BY <1>7, <1>8, <1>9

\* The part of the bitmap that a search skips ends at or below the chunk.
LEMMA NotHidden ==
    ASSUME NEW I, NEW b \in Bases, NEW mem \in Int, I.biggest_unpromoted \in Nat,
           mem - I.biggest_unpromoted <= b + InsertSize - 1
    PROVE  nbits_hidden(I, mem) \in Nat /\ nbits_hidden(I, mem) <= BitOf(b)
<1>1. PICK a \in Int : a = mem - I.biggest_unpromoted
  OBVIOUS
<1>2. PICK fake \in Int : fake = ROUND_DOWN(a)
  BY RoundedDown
<1>3. fake <= a
  BY <1>2, RoundedDown
<1>4. PICK q \in Int : fake = WordBytes * q
  BY <1>2, RoundedDown
<1>5. BitOf(b) \in Nat /\ b \in Nat /\ bitmap_base_addr + MallocAlign * BitOf(b) = b
  BY BitOfBase
<1>6. CASE fake > bitmap_base_addr
  <2>1. PICK k \in Nat : bitmap_base_addr = MallocAlign * k
    BY FirstAddr
  <2>2. PICK n \in Int : n = WordBits * q
    BY Units
  <2>3. fake = MallocAlign * n
    BY <1>4, <2>2, Units DEF WordBytes
  <2>4. PICK i \in Nat : i = BitOf(b) /\ b = MallocAlign * k + MallocAlign * i
    BY <1>5, <2>1
  <2>5. b = MallocAlign * (k + i) /\ k + i \in Int
    BY <2>4, Units
  <2>6. fake < b + MallocAlign
    BY <1>1, <1>3, <1>5, Units
  <2>7. n <= k + i
    BY <2>3, <2>5, <2>6, Units, TimesOrder
  <2>8. fake <= b
    BY <2>3, <2>5, <2>7, Units, TimesOrder
  <2>9. bitmap_base_addr <= fake /\ bitmap_base_addr <= b
    BY <1>6, <2>8, <1>5, FirstAddr
  <2>10. BitOf(fake) \in Nat /\ BitOf(fake) <= BitOf(b)
    <3>1. PICK j \in Nat : j = BitOf(fake) /\ bitmap_base_addr + MallocAlign * j <= fake
      BY <2>9, BitOfAny
    <3>2. MallocAlign * j \in Int /\ MallocAlign * i \in Int
      BY Units
    <3>3. MallocAlign * j <= MallocAlign * i
      BY <2>1, <2>4, <2>8, <3>1, <3>2, FirstAddr
    <3>4. j <= i
      BY <3>3, Units, TimesOrder
    <3> QED BY <3>1, <3>4, <2>4
  <2>11. nbits_hidden(I, mem) = BitOf(fake)
    BY <1>1, <1>2, <1>6 DEF nbits_hidden
  <2> QED BY <2>10, <2>11
<1>7. CASE ~(fake > bitmap_base_addr)
  <2>1. nbits_hidden(I, mem) = 0
    BY <1>1, <1>2, <1>7 DEF nbits_hidden
  <2> QED BY <2>1, <1>5
<1> QED BY <1>6, <1>7

-----------------------------------------------------------------------------
(***************************************************************************)
(* The inductive invariant.  Chunks lie apart in the arena, each with room *)
(* for its insert; no two threads' hooks are at one chunk, and each        *)
(* remembers what is still true of it; and the bits, the inserts and the   *)
(* big allocations are those of the chunks that no hook is at.             *)
(***************************************************************************)

AtOf(r) == IF r.new = None THEN r.base ELSE r.new
At(t) == AtOf(pending[t])
Whole(r) == r = [op |-> r.op, base |-> r.base, usable |-> r.usable,
                 requested |-> r.requested, new |-> r.new]

ChunksOK(C) ==
    /\ C = [b \in DOMAIN C |-> C[b]] /\ DOMAIN C \subseteq Bases
    /\ \A b \in DOMAIN C : C[b] \in Nat /\ C[b] > InsertSize /\ b + C[b] <= End
    /\ \A b, c \in DOMAIN C : b # c => b + C[b] <= c \/ c + C[c] <= b
    /\ NonePromoted => \A b \in DOMAIN C : ~SHOULD_PROMOTE(C[b])

Remembers(r, C) ==
    \/ r = Idle
    \/ /\ r.op = "insert" /\ r.new = None /\ r.base \in DOMAIN C
       /\ r.requested \in Nat \ {0} /\ r.requested + InsertSize <= C[r.base]
    \/ r.op = "free" /\ r.new = None /\ r.base \in DOMAIN C
    \/ /\ r.op = "resize" /\ r.new = None /\ r.base \in DOMAIN C
       /\ r.requested \in Nat \ {0} /\ r.usable = C[r.base]
       /\ SHOULD_PROMOTE(r.usable) => r.requested + InsertSize >= r.usable
    \/ /\ r.op = "reinsert" /\ r.new = None /\ r.base \in DOMAIN C
       /\ r.requested \in Nat \ {0} /\ ~SHOULD_PROMOTE(C[r.base])
    \/ /\ r.op = "reinsert" /\ r.new \in DOMAIN C /\ r.usable \in Nat
       /\ r.requested \in Nat \ {0} /\ r.requested + InsertSize <= C[r.new]
       /\ r.new = r.base /\ SHOULD_PROMOTE(C[r.new]) => r.requested + InsertSize >= r.usable
PendingOK ==
    /\ pending = [t \in Threads |-> pending[t]]
    /\ \A t \in Threads : Whole(pending[t]) /\ Remembers(pending[t], chunks)
    /\ \A t, u \in Threads :
         t # u /\ pending[t] # Idle /\ pending[u] # Idle => At(t) # At(u)

BitsOK(I, S) ==
    /\ I = [nwords |-> I.nwords, bits |-> I.bits, biggest_unpromoted |-> I.biggest_unpromoted]
    /\ I.nwords \in Nat /\ I.biggest_unpromoted \in Nat
    /\ \A i \in I.bits : i \in Nat /\ i < I.nwords * WordBits
    /\ NonePromoted => I.bits = {BitOf(b) : b \in S}
BiggestOK(I, C, S) ==
    \A b \in S : ~SHOULD_PROMOTE(C[b]) => caller_usable_size(C[b]) <= I.biggest_unpromoted
InsertsOK(N, C, S) ==
    \A b \in S : [at |-> insert_for_chunk(b, C[b]), of |-> b] \in N
BigOK(p, C) ==
    /\ SHOULD_PROMOTE(C[p.begin]) /\ p.end \in Nat
    /\ p.begin < p.end /\ p.end <= insert_for_chunk(p.begin, C[p.begin])
PromotedOK(P, C, S) ==
    /\ \A p \in P : p.begin \in S /\ BigOK(p, C)
    /\ \A b \in S : SHOULD_PROMOTE(C[b]) => \E p \in P : p.begin = b

IndexInv ==
    /\ contracts \in Regimes
    /\ ChunksOK(chunks)
    /\ PendingOK
    /\ BitsOK(bitmap, Settled)
    /\ BiggestOK(bitmap, chunks, Settled)
    /\ InsertsOK(inserts, chunks, Settled)
    /\ PromotedOK(promoted, chunks, Settled)

LEMMA BasesAre == Bases \subseteq Nat /\ None \notin Bases
BY Units, MallocIndexAssumption DEF Bases, Addrs

\* A hook is at a live chunk.
LEMMA AtLive ==
    ASSUME NEW C, DOMAIN C \subseteq Bases, NEW r, Remembers(r, C)
    PROVE  IF r = Idle THEN AtOf(r) = None /\ None \notin DOMAIN C ELSE AtOf(r) \in DOMAIN C
<1>1. None \notin DOMAIN C
  BY BasesAre
<1>2. CASE r = Idle
  BY <1>1, <1>2 DEF Idle, AtOf
<1>3. CASE r # Idle
  BY <1>1, <1>3 DEF Remembers, AtOf
<1> QED BY <1>2, <1>3

LEMMA RemembersSame ==
    ASSUME NEW C, NEW D, NEW r, Remembers(r, C),
           AtOf(r) \in DOMAIN C => AtOf(r) \in DOMAIN D /\ D[AtOf(r)] = C[AtOf(r)],
           DOMAIN C \subseteq Bases
    PROVE  Remembers(r, D)
<1>1. CASE r = Idle
  BY <1>1 DEF Remembers
<1>2. CASE r # Idle
  <2>1. AtOf(r) \in DOMAIN C /\ AtOf(r) \in DOMAIN D /\ D[AtOf(r)] = C[AtOf(r)]
    BY <1>2, AtLive
  <2>2. CASE r.new = None
    BY <1>2, <2>1, <2>2, BasesAre DEF Remembers, AtOf
  <2>3. CASE r.new # None
    BY <1>2, <2>1, <2>3, BasesAre DEF Remembers, AtOf
  <2> QED BY <2>2, <2>3
<1> QED BY <1>1, <1>2

\* A step of one thread, whose hook then remembers r.
Moves(t, r) ==
    /\ pending' = [pending EXCEPT ![t] = r] /\ Whole(r) /\ Remembers(r, chunks')
    /\ \A c \in DOMAIN chunks : c # At(t) => c \in DOMAIN chunks' /\ chunks'[c] = chunks[c]
    /\ \A u \in Threads : u # t /\ pending[u] # Idle /\ r # Idle => AtOf(r) # At(u)

LEMMA PendingStep ==
    ASSUME PendingOK, ChunksOK(chunks), NEW t \in Threads, NEW r, Moves(t, r)
    PROVE  /\ PendingOK'
           /\ \A c : c \in Settled <=> /\ c \in DOMAIN chunks /\ c # At(t)
                                       /\ \A u \in Threads : u # t => At(u) # c
           /\ \A c : c \in Settled' <=> /\ c \in DOMAIN chunks' /\ c # AtOf(r)
                                        /\ \A u \in Threads : u # t => At(u) # c
<1>1. \A u \in Threads : pending'[u] = IF u = t THEN r ELSE pending[u]
  BY DEF Moves, PendingOK
<1>2. \A u \in Threads : At(u)' = IF u = t THEN AtOf(r) ELSE At(u)
  BY <1>1 DEF At, AtOf
<1>3. InFlight = {At(u) : u \in Threads}
  BY DEF InFlight, At, AtOf
<1>4. InFlight' = {At(u)' : u \in Threads}
  BY DEF InFlight, At, AtOf
<1>5. \A c : c \in Settled <=> /\ c \in DOMAIN chunks /\ c # At(t)
                               /\ \A u \in Threads : u # t => At(u) # c
  BY <1>3 DEF Settled
<1>6. \A c : c \in Settled' <=> /\ c \in DOMAIN chunks' /\ c # AtOf(r)
                                /\ \A u \in Threads : u # t => At(u) # c
  BY <1>2, <1>4 DEF Settled
<1>7. PendingOK'
  <2>1. pending' = [u \in Threads |-> pending'[u]]
    BY DEF Moves, PendingOK
  <2>2. ASSUME NEW u \in Threads
        PROVE  Whole(pending'[u]) /\ Remembers(pending'[u], chunks')
    <3>1. CASE u = t
      BY <1>1, <3>1 DEF Moves
    <3>2. CASE u # t
      <4>1. pending'[u] = pending[u] /\ Whole(pending[u]) /\ Remembers(pending[u], chunks)
        BY <1>1, <3>2 DEF PendingOK
      <4>2. DOMAIN chunks \subseteq Bases
        BY DEF ChunksOK
      <4>3. At(u) \in DOMAIN chunks => At(u) # At(t)
        <5>1. SUFFICES ASSUME At(u) \in DOMAIN chunks, At(u) = At(t) PROVE FALSE
          OBVIOUS
        <5>2. pending[u] # Idle /\ pending[t] # Idle
          <6>1. Remembers(pending[t], chunks)
            BY DEF PendingOK
          <6>2. pending[u] = Idle => At(u) \notin DOMAIN chunks
            BY <4>1, <4>2, AtLive DEF At
          <6>3. pending[t] = Idle => At(t) \notin DOMAIN chunks
            BY <6>1, <4>2, AtLive DEF At
          <6> QED BY <6>2, <6>3, <5>1
        <5> QED BY <5>1, <5>2, <3>2 DEF PendingOK
      <4>4. AtOf(pending[u]) \in DOMAIN chunks =>
               /\ AtOf(pending[u]) \in DOMAIN chunks'
               /\ chunks'[AtOf(pending[u])] = chunks[AtOf(pending[u])]
        BY <4>3 DEF At, Moves
      <4>5. Remembers(pending[u], chunks')
        BY <4>1, <4>2, <4>4, RemembersSame
      <4> QED BY <4>1, <4>5
    <3> QED BY <3>1, <3>2
  <2>3. ASSUME NEW u \in Threads, NEW v \in Threads, u # v,
               pending'[u] # Idle, pending'[v] # Idle
        PROVE  At(u)' # At(v)'
    BY <1>1, <1>2, <2>3 DEF Moves, PendingOK
  <2> QED BY <2>1, <2>2, <2>3 DEF PendingOK, Idle, Whole, Remembers
<1> QED BY <1>5, <1>6, <1>7

-----------------------------------------------------------------------------
(* The real calls: the malloc's own state changes, the index does not. *)

\* Where the malloc puts a chunk, or resizes one, the chunks stay apart.
LEMMA Placed ==
    ASSUME SoundRegimes, contracts \in Regimes, ChunksOK(chunks),
           NEW b \in Bases, NEW requested \in Nat, NEW usable \in UsableFor(requested),
           SizeContract(requested, usable),
           NEW X \in SUBSET (DOMAIN chunks \cup {b}), MayPlace(b, usable, X \ {b}),
           NEW D, D = [c \in X |-> IF c = b THEN usable ELSE chunks[c]]
    PROVE  /\ ChunksOK(D) /\ usable \in Nat /\ requested > 0
           /\ requested + InsertSize <= usable
<1>1. usable \in Nat /\ requested + InsertSize <= usable
  <2>1. PICK s \in Slack : usable = requested + InsertSize + s
    BY DEF UsableFor
  <2> QED BY <2>1, Units, MallocIndexAssumption
<1>2. requested > 0
  BY DEF SoundRegimes, SizeContract
<1>3. DOMAIN D = X /\ D = [c \in X |-> D[c]] /\ X \subseteq Bases
  BY DEF ChunksOK
<1>4. ASSUME NEW c \in X
      PROVE  /\ D[c] \in Nat /\ D[c] > InsertSize /\ c + D[c] <= End
             /\ NonePromoted => ~SHOULD_PROMOTE(D[c])
  BY <1>1, <1>2, Units DEF ChunksOK, MayPlace, SizeContract, NonePromoted
<1>5. ASSUME NEW c \in X, NEW d \in X, c # d
      PROVE  c + D[c] <= d \/ d + D[d] <= c
  BY <1>5 DEF ChunksOK, MayPlace
<1> QED BY <1>1, <1>2, <1>3, <1>4, <1>5 DEF ChunksOK

\* The insert of a chunk survives what is written outside the chunk.
LEMMA InsertIn ==
    ASSUME ChunksOK(chunks), NEW b \in DOMAIN chunks
    PROVE  /\ b \in Nat /\ chunks[b] \in Nat /\ insert_for_chunk(b, chunks[b]) \in Nat
           /\ b < insert_for_chunk(b, chunks[b])
           /\ insert_for_chunk(b, chunks[b]) + InsertSize = b + chunks[b]
<1>1. b \in Nat /\ chunks[b] \in Nat /\ chunks[b] > InsertSize
  BY BasesAre DEF ChunksOK
<1> QED BY <1>1, Units DEF insert_for_chunk, caller_usable_size

Entry(b) == [at |-> insert_for_chunk(b, chunks[b]), of |-> b]

LEMMA Survives ==
    ASSUME ChunksOK(chunks), NEW b \in DOMAIN chunks, Entry(b) \in inserts,
           NEW lo \in Int, NEW hi \in Int, b + chunks[b] <= lo \/ hi <= b
    PROVE  Entry(b) \in Trashed(lo, hi) /\ (Entry(b).at < lo \/ Entry(b).at >= hi)
<1>1. Entry(b).at = insert_for_chunk(b, chunks[b])
  BY DEF Entry
<1>2. Entry(b).at < lo \/ Entry(b).at >= hi
  BY <1>1, InsertIn, Units
<1> QED BY <1>2 DEF Trashed

LEMMA RealStep ==
    ASSUME IndexInv, NEW t \in Threads, NEW r, Moves(t, r),
           UNCHANGED <<contracts, bitmap, promoted>>, ChunksOK(chunks)',
           \A b \in Settled : Entry(b) \in inserts',
           \A c : (c \in DOMAIN chunks' /\ c # AtOf(r)) <=> (c \in DOMAIN chunks /\ c # At(t))
    PROVE  IndexInv'
<1>1. PendingOK'
  BY PendingStep DEF IndexInv
<1>2. Settled' = Settled
  <2>1. \A c : c \in Settled' <=> c \in Settled
    BY PendingStep DEF IndexInv
  <2> QED BY <2>1
<1>3. \A b \in Settled : chunks'[b] = chunks[b]
  BY PendingStep DEF IndexInv, Moves
<1>4. BitsOK(bitmap, Settled)'
  BY <1>2 DEF IndexInv, BitsOK, NonePromoted
<1>5. BiggestOK(bitmap, chunks, Settled)'
  BY <1>2, <1>3 DEF IndexInv, BiggestOK
<1>6. InsertsOK(inserts, chunks, Settled)'
  BY <1>2, <1>3 DEF InsertsOK, Entry
<1>7. PromotedOK(promoted, chunks, Settled)'
  BY <1>2, <1>3 DEF IndexInv, PromotedOK, BigOK
<1> QED BY <1>1, <1>4, <1>5, <1>6, <1>7 DEF IndexInv

\* What a hook that is under way remembers.
LEMMA ToldResize ==
    ASSUME PendingOK, ChunksOK(chunks), NEW t \in Threads, pending[t].op = "resize"
    PROVE  /\ pending[t] # Idle /\ pending[t].new = None /\ pending[t].base \in DOMAIN chunks
           /\ At(t) = pending[t].base /\ pending[t].requested \in Nat \ {0}
           /\ pending[t].usable = chunks[pending[t].base]
           /\ SHOULD_PROMOTE(pending[t].usable) =>
                pending[t].requested + InsertSize >= pending[t].usable
BY DEF PendingOK, Remembers, Idle, At, AtOf

LEMMA ToldFree ==
    ASSUME PendingOK, ChunksOK(chunks), NEW t \in Threads, pending[t].op = "free"
    PROVE  /\ pending[t] # Idle /\ pending[t].new = None /\ pending[t].base \in DOMAIN chunks
           /\ At(t) = pending[t].base
BY DEF PendingOK, Remembers, Idle, At, AtOf

LEMMA ToldIdle ==
    ASSUME ChunksOK(chunks), NEW t \in Threads, pending[t] = Idle
    PROVE  At(t) = None /\ None \notin DOMAIN chunks
BY BasesAre DEF ChunksOK, Idle, At, AtOf

\* No hook of another thread is at the chunk of this thread's hook.
LEMMA OthersElsewhere ==
    ASSUME PendingOK, ChunksOK(chunks), NEW u \in Threads, pending[u] # Idle
    PROVE  At(u) \in DOMAIN chunks
BY AtLive DEF PendingOK, ChunksOK, At

LEMMA RealFree ==
    ASSUME IndexInv, NEW t \in Threads, UNCHANGED contracts, real_free(t)
    PROVE  IndexInv'
<1>1. ChunksOK(chunks) /\ PendingOK
  BY DEF IndexInv
<1>2. PICK b : b = pending[t].base
  OBVIOUS
<1>3. b \in DOMAIN chunks /\ At(t) = b
  BY <1>1, <1>2, ToldFree DEF real_free
<1>4. chunks' = [c \in DOMAIN chunks \ {b} |-> chunks[c]]
  BY <1>2 DEF real_free, Restrict
<1>5. Moves(t, Idle)
  BY <1>3, <1>4 DEF real_free, Become, Moves, Whole, Idle, Remembers
<1>6. ChunksOK(chunks)'
  BY <1>1, <1>4 DEF ChunksOK, NonePromoted
<1>7. ASSUME NEW c \in Settled
      PROVE  Entry(c) \in inserts'
  <2>1. c \in DOMAIN chunks /\ c # b
    BY <1>1, <1>3, <1>5, PendingStep
  <2>2. Entry(c) \in inserts
    BY DEF IndexInv, InsertsOK, Entry
  <2>3. c + chunks[c] <= b \/ b + chunks[b] <= c
    BY <1>1, <1>3, <2>1 DEF ChunksOK
  <2>4. b \in Int /\ b + chunks[b] \in Int
    BY <1>1, <1>3, InsertIn
  <2>5. Entry(c) \in Trashed(b, b + chunks[b])
    BY <1>1, <2>1, <2>2, <2>3, <2>4, Survives
  <2> QED BY <2>5, <1>2 DEF real_free
<1>8. AtOf(Idle) = None /\ None \notin DOMAIN chunks
  BY <1>1, BasesAre DEF AtOf, Idle, ChunksOK
<1>9. UNCHANGED <<contracts, bitmap, promoted>>
  BY DEF real_free
<1> QED BY <1>3, <1>4, <1>5, <1>6, <1>7, <1>8, <1>9, RealStep

LEMMA RealFail ==
    ASSUME SoundRegimes, IndexInv, NEW t \in Threads, UNCHANGED contracts, real_realloc_fail(t)
    PROVE  IndexInv'
<1>1. ChunksOK(chunks) /\ PendingOK
  BY DEF IndexInv
<1>2. PICK r : r = [pending[t] EXCEPT !.op = "reinsert"]
  OBVIOUS
<1>3. /\ pending[t].op = "resize" /\ UNCHANGED <<contracts, chunks, bitmap, promoted, inserts>>
      /\ pending' = [pending EXCEPT ![t] = r]
  BY <1>2 DEF real_realloc_fail, Become
<1>4. Whole(pending[t])
  BY <1>1 DEF PendingOK
<1>5. /\ r.op = "reinsert" /\ r.base = pending[t].base /\ r.usable = pending[t].usable
      /\ r.requested = pending[t].requested /\ r.new = pending[t].new /\ Whole(r)
  BY <1>2, <1>4 DEF Whole
<1>6. AtOf(r) = At(t)
  BY <1>5 DEF At, AtOf
<1>7. ~SHOULD_PROMOTE(chunks[r.base])
  <2>1. CASE "none_promoted" \in contracts
    BY <2>1, <1>1, <1>3, <1>5, ToldResize DEF ChunksOK, NonePromoted
  <2>2. CASE "none_promoted" \notin contracts
    <3>1. "promoted_grow" \in contracts
      BY <2>2 DEF SoundRegimes, IndexInv
    <3> QED BY <3>1, <1>1, <1>3, <1>5, ToldResize DEF real_realloc_fail
  <2> QED BY <2>1, <2>2
<1>8. Remembers(r, chunks)
  BY <1>1, <1>3, <1>5, <1>7, ToldResize DEF Remembers
<1>9. Moves(t, r)
  <2>1. pending[t] # Idle
    BY <1>1, <1>3, ToldResize
  <2>2. \A u \in Threads : u # t /\ pending[u] # Idle => At(t) # At(u)
    BY <1>1, <2>1 DEF PendingOK
  <2> QED BY <1>3, <1>5, <1>6, <1>8, <2>2 DEF Moves
<1>10. ChunksOK(chunks)'
  BY <1>1, <1>3 DEF ChunksOK, NonePromoted
<1>11. \A c \in Settled : Entry(c) \in inserts'
  BY <1>3 DEF IndexInv, InsertsOK, Entry
<1> QED BY <1>3, <1>6, <1>9, <1>10, <1>11, RealStep

\* A chunk is never placed where one begins.
LEMMA PlaceIsNew ==
    ASSUME ChunksOK(chunks), NEW b \in Bases, NEW usable \in Nat \ {0},
           MayPlace(b, usable, DOMAIN chunks)
    PROVE  b \notin DOMAIN chunks
<1> SUFFICES ASSUME b \in DOMAIN chunks PROVE FALSE
  OBVIOUS
<1>1. b + chunks[b] <= b \/ b + usable <= b
  BY DEF MayPlace
<1> QED BY <1>1, InsertIn, Units DEF ChunksOK

LEMMA RealMalloc ==
    ASSUME SoundRegimes, IndexInv, NEW t \in Threads, UNCHANGED contracts,
           NEW b \in Bases, NEW requested \in Sizes, NEW usable \in UsableFor(requested),
           real_malloc(t, b, requested, usable)
    PROVE  IndexInv'
<1>1. ChunksOK(chunks) /\ PendingOK /\ contracts \in Regimes
  BY DEF IndexInv
<1>2. PICK r : r = [Idle EXCEPT !.op = "insert", !.base = b, !.requested = requested]
  OBVIOUS
<1>3. /\ r.op = "insert" /\ r.base = b /\ r.requested = requested
       /\ r.new = None /\ Whole(r)
  BY <1>2 DEF Idle, Whole
<1>4. /\ pending[t] = Idle /\ pending' = [pending EXCEPT ![t] = r]
      /\ MayPlace(b, usable, DOMAIN chunks) /\ SizeContract(requested, usable)
      /\ inserts' = Trashed(b, b + usable) /\ UNCHANGED <<contracts, bitmap, promoted>>
  BY <1>2 DEF real_malloc, Become
<1>5. chunks' = [c \in DOMAIN chunks \cup {b} |-> IF c = b THEN usable ELSE chunks[c]]
  BY DEF real_malloc, With
<1>6. requested \in Nat
  BY MallocIndexAssumption
<1>7. /\ ChunksOK(chunks') /\ usable \in Nat /\ requested > 0
      /\ requested + InsertSize <= usable
  <2>1. MayPlace(b, usable, (DOMAIN chunks \cup {b}) \ {b})
    BY <1>4 DEF MayPlace
  <2> QED BY <1>1, <1>4, <1>5, <1>6, <2>1, Placed
<1>8. ChunksOK(chunks)'
  BY <1>7 DEF ChunksOK, NonePromoted
<1>9. b \notin DOMAIN chunks
  BY <1>1, <1>4, <1>6, <1>7, PlaceIsNew, Units
<1>10. At(t) = None /\ None \notin DOMAIN chunks /\ AtOf(r) = b
  BY <1>1, <1>3, <1>4, ToldIdle DEF AtOf
<1>11. Moves(t, r)
  <2>1. Remembers(r, chunks') /\ Whole(r)
    BY <1>3, <1>5, <1>6, <1>7 DEF Remembers
  <2>2. \A u \in Threads : pending[u] # Idle => At(u) # b
    BY <1>1, <1>9, OthersElsewhere
  <2>3. \A c \in DOMAIN chunks : c \in DOMAIN chunks' /\ chunks'[c] = chunks[c]
    BY <1>5, <1>9
  <2> QED BY <1>4, <1>10, <2>1, <2>2, <2>3 DEF Moves
<1>12. ASSUME NEW c \in Settled
       PROVE  Entry(c) \in inserts'
  <2>1. c \in DOMAIN chunks /\ Entry(c) \in inserts
    BY DEF Settled, IndexInv, InsertsOK, Entry
  <2>2. c + chunks[c] <= b \/ b + usable <= c
    BY <1>4, <2>1 DEF MayPlace
  <2>3. b \in Int /\ b + usable \in Int
    BY <1>7, BasesAre
  <2> QED BY <1>1, <1>4, <2>1, <2>2, <2>3, Survives
<1>13. DOMAIN chunks' = DOMAIN chunks \cup {b}
  BY <1>5
<1> QED BY <1>4, <1>8, <1>9, <1>10, <1>11, <1>12, <1>13, RealStep

LEMMA RealInPlace ==
    ASSUME SoundRegimes, IndexInv, NEW t \in Threads, UNCHANGED contracts,
           NEW usable, real_realloc_in_place(t, usable)
    PROVE  IndexInv'
<1>1. ChunksOK(chunks) /\ PendingOK /\ contracts \in Regimes
  BY DEF IndexInv
<1>2. PICK b : b = pending[t].base
  OBVIOUS
<1>3. PICK requested : requested = pending[t].requested
  OBVIOUS
<1>4. PICK r : r = [pending[t] EXCEPT !.op = "reinsert", !.new = b]
  OBVIOUS
<1>5. /\ pending[t].op = "resize" /\ pending' = [pending EXCEPT ![t] = r]
      /\ usable \in UsableFor(requested)
      /\ MayPlace(b, usable, DOMAIN chunks \ {b}) /\ SizeContract(requested, usable)
      /\ "shrunk_no_larger" \in contracts =>
           (requested + InsertSize <= chunks[b] => usable <= chunks[b])
      /\ inserts' = Trashed(b, b + IF usable > chunks[b] THEN usable ELSE chunks[b])
      /\ UNCHANGED <<contracts, bitmap, promoted>>
  BY <1>2, <1>3, <1>4 DEF real_realloc_in_place, Become
<1>6. /\ b \in DOMAIN chunks /\ At(t) = b /\ requested \in Nat \ {0} /\ pending[t] # Idle
      /\ pending[t].usable = chunks[b]
      /\ SHOULD_PROMOTE(chunks[b]) => requested + InsertSize >= chunks[b]
  BY <1>1, <1>2, <1>3, <1>5, ToldResize
<1>7. chunks' = [c \in DOMAIN chunks |-> IF c = b THEN usable ELSE chunks[c]]
  <2>1. DOMAIN chunks \cup {b} = DOMAIN chunks
    BY <1>6
  <2> QED BY <1>2, <2>1 DEF real_realloc_in_place, With
<1>8. b \in Bases /\ b \in Nat /\ chunks[b] \in Nat
  BY <1>1, <1>6, BasesAre DEF ChunksOK
<1>9. /\ ChunksOK(chunks') /\ usable \in Nat /\ requested + InsertSize <= usable
  <2>1. DOMAIN chunks \in SUBSET (DOMAIN chunks \cup {b})
    OBVIOUS
  <2> QED BY <1>1, <1>5, <1>6, <1>7, <1>8, <2>1, Placed
<1>10. ChunksOK(chunks)'
  BY <1>9 DEF ChunksOK, NonePromoted
<1>11. SHOULD_PROMOTE(usable) => requested + InsertSize >= chunks[b]
  <2>1. CASE "none_promoted" \in contracts
    BY <2>1, <1>5 DEF SizeContract
  <2>2. CASE "none_promoted" \notin contracts
    <3>1. "shrunk_no_larger" \in contracts
      BY <2>2, <1>1 DEF SoundRegimes
    <3> QED BY <3>1, <1>5, <1>6, <1>8, <1>9, Units DEF SHOULD_PROMOTE
  <2> QED BY <2>1, <2>2
<1>12. /\ r.op = "reinsert" /\ r.base = b /\ r.usable = chunks[b] /\ r.requested = requested
       /\ r.new = b /\ Whole(r)
  <2>1. Whole(pending[t])
    BY <1>1 DEF PendingOK
  <2> QED BY <1>2, <1>3, <1>4, <1>6, <2>1 DEF Whole
<1>13. AtOf(r) = b
  BY <1>8, <1>12, BasesAre DEF AtOf
<1>14. Moves(t, r)
  <2>1. Remembers(r, chunks')
    BY <1>6, <1>7, <1>8, <1>9, <1>11, <1>12 DEF Remembers
  <2>2. \A u \in Threads : u # t /\ pending[u] # Idle => At(t) # At(u)
    BY <1>1, <1>6 DEF PendingOK
  <2>3. \A c \in DOMAIN chunks : c # b => c \in DOMAIN chunks' /\ chunks'[c] = chunks[c]
    BY <1>7
  <2> QED BY <1>5, <1>6, <1>12, <1>13, <2>1, <2>2, <2>3 DEF Moves
<1>15. ASSUME NEW c \in Settled
       PROVE  Entry(c) \in inserts'
  <2>1. c \in DOMAIN chunks /\ c # b
    BY <1>1, <1>6, <1>14, PendingStep
  <2>2. Entry(c) \in inserts
    BY DEF IndexInv, InsertsOK, Entry
  <2>3. PICK hi \in Int : hi = b + IF usable > chunks[b] THEN usable ELSE chunks[b]
    BY <1>8, <1>9
  <2>4. c + chunks[c] <= b \/ b + usable <= c
    BY <1>5, <2>1 DEF MayPlace
  <2>5. c + chunks[c] <= b \/ b + chunks[b] <= c
    BY <1>1, <1>6, <2>1 DEF ChunksOK
  <2>6. c + chunks[c] <= b \/ hi <= c
    BY <2>3, <2>4, <2>5, <1>8, <1>9
  <2>7. Entry(c) \in Trashed(b, hi)
    BY <1>1, <1>8, <2>1, <2>2, <2>6, Survives
  <2> QED BY <1>5, <2>3, <2>7
<1>16. DOMAIN chunks' = DOMAIN chunks
  BY <1>7
<1> QED BY <1>5, <1>6, <1>10, <1>13, <1>14, <1>15, <1>16, RealStep

LEMMA RealMove ==
    ASSUME SoundRegimes, IndexInv, NEW t \in Threads, UNCHANGED contracts,
           NEW usable, NEW new \in Bases, real_realloc_move(t, new, usable)
    PROVE  IndexInv'
<1>1. ChunksOK(chunks) /\ PendingOK /\ contracts \in Regimes
  BY DEF IndexInv
<1>2. PICK b : b = pending[t].base
  OBVIOUS
<1>3. PICK requested : requested = pending[t].requested
  OBVIOUS
<1>4. PICK r : r = [pending[t] EXCEPT !.op = "reinsert", !.new = new]
  OBVIOUS
<1>5. /\ pending[t].op = "resize" /\ pending' = [pending EXCEPT ![t] = r]
      /\ usable \in UsableFor(requested)
      /\ MayPlace(new, usable, DOMAIN chunks) /\ SizeContract(requested, usable)
      /\ inserts' = {i \in Trashed(b, b + chunks[b]) : i.at < new \/ i.at >= new + usable}
      /\ UNCHANGED <<contracts, bitmap, promoted>>
  BY <1>2, <1>3, <1>4 DEF real_realloc_move, Become
<1>6. b \in DOMAIN chunks /\ At(t) = b /\ requested \in Nat \ {0} /\ pending[t] # Idle
      /\ pending[t].usable = chunks[b] /\ chunks[b] \in Nat
  BY <1>1, <1>2, <1>3, <1>5, ToldResize DEF ChunksOK
<1>7. PICK X : X = (DOMAIN chunks \cup {new}) \ {b}
  OBVIOUS
<1>8. chunks' = [c \in X |-> IF c = new THEN usable ELSE chunks[c]]
  <2>1. chunks' = [c \in X |-> With(new, usable)[c]]
    BY <1>2, <1>7 DEF real_realloc_move, Restrict
  <2>2. \A c \in X : With(new, usable)[c] = IF c = new THEN usable ELSE chunks[c]
    BY <1>7 DEF With
  <2> QED BY <2>1, <2>2
<1>9. /\ ChunksOK(chunks') /\ usable \in Nat /\ requested + InsertSize <= usable
  <2>1. X \in SUBSET (DOMAIN chunks \cup {new}) /\ MayPlace(new, usable, X \ {new})
    BY <1>5, <1>7 DEF MayPlace
  <2> QED BY <1>1, <1>5, <1>6, <1>8, <2>1, Placed, SMTT(20)
<1>10. ChunksOK(chunks)'
  BY <1>9 DEF ChunksOK, NonePromoted
<1>11. new \notin DOMAIN chunks /\ new # b
  BY <1>1, <1>5, <1>6, <1>9, PlaceIsNew, Units
<1>12. /\ r.op = "reinsert" /\ r.base = b /\ r.usable = pending[t].usable
       /\ r.requested = requested
       /\ r.new = new /\ Whole(r)
  <2>1. Whole(pending[t])
    BY <1>1 DEF PendingOK
  <2>2. r = [op |-> "reinsert", base |-> b, usable |-> pending[t].usable,
             requested |-> requested, new |-> new]
    BY <1>2, <1>3, <1>4, <2>1 DEF Whole
  <2> QED BY <2>2 DEF Whole
<1>13. AtOf(r) = new
  BY <1>12, BasesAre DEF AtOf
<1>14. Moves(t, r)
  <2>1. Remembers(r, chunks')
    BY <1>6, <1>7, <1>8, <1>9, <1>11, <1>12 DEF Remembers
  <2>2. \A u \in Threads : pending[u] # Idle => At(u) # new
    BY <1>1, <1>11, OthersElsewhere
  <2>3. \A c \in DOMAIN chunks : c # b => c \in DOMAIN chunks' /\ chunks'[c] = chunks[c]
    BY <1>7, <1>8, <1>11
  <2> QED BY <1>5, <1>6, <1>12, <1>13, <2>1, <2>2, <2>3 DEF Moves
<1>15. ASSUME NEW c \in Settled
       PROVE  Entry(c) \in inserts'
  <2>1. c \in DOMAIN chunks /\ c # b
    BY <1>1, <1>6, <1>14, PendingStep
  <2>2. Entry(c) \in inserts
    BY DEF IndexInv, InsertsOK, Entry
  <2>3. c + chunks[c] <= new \/ new + usable <= c
    BY <1>5, <2>1 DEF MayPlace
  <2>4. c + chunks[c] <= b \/ b + chunks[b] <= c
    BY <1>1, <1>6, <2>1 DEF ChunksOK
  <2>5. new \in Int /\ new + usable \in Int /\ b \in Int /\ b + chunks[b] \in Int
    BY <1>1, <1>6, <1>9, InsertIn, BasesAre
  <2>6. Entry(c).at < new \/ Entry(c).at >= new + usable
    BY <1>1, <2>1, <2>2, <2>3, <2>5, Survives
  <2>7. Entry(c) \in Trashed(b, b + chunks[b])
    BY <1>1, <2>1, <2>2, <2>4, <2>5, Survives
  <2> QED BY <1>5, <2>6, <2>7
<1>16. DOMAIN chunks' = X
  BY <1>8
<1> QED BY <1>5, <1>6, <1>7, <1>10, <1>11, <1>13, <1>14, <1>15, <1>16, RealStep

-----------------------------------------------------------------------------
(* The hooks: the index changes, the malloc's own state does not. *)

\* The big allocation that the delete finds at a chunk's start is the chunk's own.
LEMMA OwnBig ==
    ASSUME IndexInv, NEW b \in Settled
    PROVE  PromotedAt(promoted, b) = {p \in promoted : p.begin = b}
<1>1. ChunksOK(chunks) /\ b \in DOMAIN chunks
  BY DEF IndexInv, Settled
<1>2. ASSUME NEW p \in promoted
      PROVE  p.begin <= b /\ b < p.end <=> p.begin = b
  <2>1. p.begin \in DOMAIN chunks /\ BigOK(p, chunks)
    BY DEF IndexInv, PromotedOK, Settled
  <2>2. /\ p.begin \in Nat /\ chunks[p.begin] \in Nat /\ p.end \in Nat /\ p.begin < p.end
        /\ p.end + InsertSize <= p.begin + chunks[p.begin]
    BY <1>1, <2>1, InsertIn, Units DEF BigOK
  <2>3. b \in Nat /\ chunks[b] \in Nat /\ chunks[b] > 0
    BY <1>1, InsertIn, Units
  <2>4. p.begin # b => p.begin + chunks[p.begin] <= b \/ b + chunks[b] <= p.begin
    BY <1>1, <2>1 DEF ChunksOK
  <2> QED BY <2>2, <2>3, <2>4, Units
<1> QED BY <1>2 DEF PromotedAt

LEMMA Removing ==
    ASSUME IndexInv, NEW t \in Threads, UNCHANGED <<contracts, chunks, inserts>>,
           NEW b \in DOMAIN chunks, pending[t] = Idle, b \notin InFlight,
           index_delete(b), NEW r, pending' = [pending EXCEPT ![t] = r],
           Whole(r), Remembers(r, chunks), AtOf(r) = b
    PROVE  IndexInv'
<1>1. ChunksOK(chunks) /\ PendingOK
  BY DEF IndexInv
<1>2. b \in Settled /\ Settled \subseteq DOMAIN chunks
  BY DEF Settled
<1>3. At(t) = None /\ None \notin DOMAIN chunks
  BY <1>1, ToldIdle
<1>4. Moves(t, r)
  <2>1. \A u \in Threads : At(u) # b
    BY DEF InFlight, At, AtOf
  <2> QED BY <2>1 DEF Moves
<1>5. PendingOK'
  BY <1>1, <1>4, PendingStep
<1>6. Settled' = Settled \ {b}
  <2>1. \A c : c \in Settled' <=> c \in Settled /\ c # b
    BY <1>1, <1>3, <1>4, PendingStep
  <2> QED BY <2>1
<1>7. ChunksOK(chunks)'
  BY <1>1 DEF ChunksOK, NonePromoted
<1>8. promoted' = {p \in promoted : p.begin # b}
  BY <1>2, OwnBig DEF index_delete
<1>9. bitmap' = Deleted(bitmap, promoted, b)
  BY DEF index_delete
<1>10. PICK I : I = [bitmap EXCEPT !.bits = @ \ {BitOf(b)}]
  OBVIOUS
<1>11. /\ bitmap = [nwords |-> bitmap.nwords, bits |-> bitmap.bits,
                    biggest_unpromoted |-> bitmap.biggest_unpromoted]
       /\ bitmap.nwords \in Nat /\ bitmap.biggest_unpromoted \in Nat
  BY DEF IndexInv, BitsOK
<1>12. /\ I = [nwords |-> I.nwords, bits |-> I.bits, biggest_unpromoted |-> I.biggest_unpromoted]
       /\ I.nwords = bitmap.nwords /\ I.biggest_unpromoted = bitmap.biggest_unpromoted
       /\ I.bits = bitmap.bits \ {BitOf(b)}
  BY <1>10, <1>11
<1>13. bitmap' = IF PromotedAt(promoted, b) # {} THEN bitmap ELSE I
  BY <1>9, <1>10 DEF Deleted
<1>14. BitsOK(bitmap, Settled)'
  <2>1. /\ bitmap' = [nwords |-> bitmap'.nwords, bits |-> bitmap'.bits,
                      biggest_unpromoted |-> bitmap'.biggest_unpromoted]
        /\ bitmap'.nwords = bitmap.nwords /\ bitmap'.biggest_unpromoted \in Nat
        /\ bitmap'.bits \subseteq bitmap.bits
    BY <1>11, <1>12, <1>13
  <2>2. \A i \in bitmap'.bits : i \in Nat /\ i < bitmap'.nwords * WordBits
    BY <2>1 DEF IndexInv, BitsOK
  <2>3. ASSUME NonePromoted PROVE bitmap'.bits = {BitOf(c) : c \in Settled'}
    <3>1. PromotedAt(promoted, b) = {}
      BY <1>1, <1>2, <2>3, OwnBig DEF IndexInv, PromotedOK, BigOK, ChunksOK
    <3>2. bitmap'.bits = {BitOf(c) : c \in Settled} \ {BitOf(b)}
      BY <1>12, <1>13, <2>3, <3>1 DEF IndexInv, BitsOK
    <3>3. \A c \in Settled : c \in Bases
      BY <1>1, <1>2 DEF ChunksOK
    <3>4. \A c \in Settled : BitOf(c) = BitOf(b) => c = b
      BY <1>2, <3>3, BitsDiffer
    <3> QED BY <1>6, <3>2, <3>4
  <2>4. NonePromoted' <=> NonePromoted
    BY DEF NonePromoted
  <2> QED BY <1>11, <2>1, <2>2, <2>3, <2>4 DEF BitsOK, BitOf
<1>15. BiggestOK(bitmap, chunks, Settled)'
  <2>1. bitmap'.biggest_unpromoted = bitmap.biggest_unpromoted
    BY <1>12, <1>13
  <2> QED BY <1>6, <2>1 DEF IndexInv, BiggestOK
<1>16. InsertsOK(inserts, chunks, Settled)'
  BY <1>6 DEF IndexInv, InsertsOK
<1>17. PromotedOK(promoted, chunks, Settled)'
  BY <1>6, <1>8 DEF IndexInv, PromotedOK, BigOK
<1> QED BY <1>5, <1>7, <1>14, <1>15, <1>16, <1>17 DEF IndexInv

LEMMA PreFree ==
    ASSUME IndexInv, NEW t \in Threads, UNCHANGED contracts,
           NEW b \in DOMAIN chunks, pre_nonnull_free(t, b)
    PROVE  IndexInv'
<1>1. PICK r : r = [Idle EXCEPT !.op = "free", !.base = b]
  OBVIOUS
<1>2. r.op = "free" /\ r.base = b /\ r.new = None /\ Whole(r)
  BY <1>1 DEF Idle, Whole
<1>3. Remembers(r, chunks) /\ AtOf(r) = b
  BY <1>2 DEF Remembers, AtOf
<1>4. /\ pending[t] = Idle /\ b \notin InFlight /\ index_delete(b)
      /\ pending' = [pending EXCEPT ![t] = r] /\ UNCHANGED <<contracts, chunks, inserts>>
  BY <1>1 DEF pre_nonnull_free, Become
<1> QED BY <1>2, <1>3, <1>4, Removing

LEMMA PreRealloc ==
    ASSUME SoundRegimes, IndexInv, NEW t \in Threads, UNCHANGED contracts,
           NEW b \in DOMAIN chunks, NEW requested \in Sizes,
           pre_nonnull_nonzero_realloc(t, b, requested)
    PROVE  IndexInv'
<1>1. PICK r : r = [Idle EXCEPT !.op = "resize", !.base = b, !.usable = chunks[b],
                                !.requested = requested]
  OBVIOUS
<1>2. /\ r.op = "resize" /\ r.base = b /\ r.usable = chunks[b] /\ r.requested = requested
      /\ r.new = None /\ Whole(r)
  BY <1>1, ZenonT(30) DEF Idle, Whole
<1>3. /\ pending[t] = Idle /\ b \notin InFlight /\ index_delete(b) /\ requested > 0
      /\ pending' = [pending EXCEPT ![t] = r] /\ UNCHANGED <<contracts, chunks, inserts>>
  BY <1>1 DEF pre_nonnull_nonzero_realloc, Become
<1>4. SHOULD_PROMOTE(chunks[b]) => requested + InsertSize >= chunks[b]
  <2>1. CASE "none_promoted" \in contracts
    BY <2>1 DEF IndexInv, ChunksOK, NonePromoted
  <2>2. CASE "none_promoted" \notin contracts
    <3>1. "promoted_not_shrunk" \in contracts
      BY <2>2 DEF SoundRegimes, IndexInv
    <3> QED BY <3>1 DEF pre_nonnull_nonzero_realloc
  <2> QED BY <2>1, <2>2
<1>5. requested \in Nat \ {0}
  BY <1>3, MallocIndexAssumption
<1>6. Remembers(r, chunks) /\ AtOf(r) = b
  BY <1>2, <1>4, <1>5 DEF Remembers, AtOf
<1> QED BY <1>2, <1>3, <1>6, Removing

LEMMA Adding ==
    ASSUME IndexInv, NEW t \in Threads, UNCHANGED <<contracts, chunks>>,
           pending[t] # Idle, pending' = [pending EXCEPT ![t] = Idle],
           NEW b, b = At(t), NEW requested \in Nat \ {0},
           SHOULD_PROMOTE(chunks[b]) => requested + InsertSize <= chunks[b],
           bitmap' = Inserted(bitmap, b, requested, chunks[b]),
           promoted' = Promoted(promoted, b, requested, chunks[b]),
           inserts' = InsertWritten(b, chunks[b])
    PROVE  IndexInv'
<1>1. ChunksOK(chunks) /\ PendingOK
  BY DEF IndexInv
<1>2. b \in DOMAIN chunks /\ b \in Bases
  BY <1>1, OthersElsewhere DEF ChunksOK
<1>3. /\ b \in Nat /\ chunks[b] \in Nat /\ insert_for_chunk(b, chunks[b]) \in Nat
      /\ b < insert_for_chunk(b, chunks[b])
      /\ insert_for_chunk(b, chunks[b]) + InsertSize = b + chunks[b]
  BY <1>1, <1>2, InsertIn
<1>4. Moves(t, Idle)
  BY DEF Moves, Whole, Idle, Remembers
<1>5. PendingOK'
  BY <1>1, <1>4, PendingStep
<1>6. AtOf(Idle) = None /\ None \notin DOMAIN chunks
  BY <1>1, BasesAre DEF AtOf, Idle, ChunksOK
<1>7. \A u \in Threads : u # t => At(u) # b
  BY <1>1, <1>2, ToldIdle DEF PendingOK
<1>8. Settled' = Settled \cup {b} /\ b \notin Settled /\ Settled \subseteq DOMAIN chunks
  <2>1. \A c : c \in Settled' <=> c \in Settled \/ c = b
    BY <1>1, <1>2, <1>4, <1>6, <1>7, PendingStep
  <2>2. b \notin Settled
    BY <1>1, <1>4, PendingStep
  <2> QED BY <2>1, <2>2 DEF Settled
<1>9. ChunksOK(chunks)'
  BY <1>1 DEF ChunksOK, NonePromoted
<1>10. PICK N : N = TotalWords(b + requested)
  OBVIOUS
<1>11. N \in Nat /\ BitOf(b) < N * WordBits /\ BitOf(b) \in Nat
  BY <1>2, <1>10, BitFits, BitOfBase
<1>12. /\ bitmap = [nwords |-> bitmap.nwords, bits |-> bitmap.bits,
                    biggest_unpromoted |-> bitmap.biggest_unpromoted]
       /\ bitmap.nwords \in Nat /\ bitmap.biggest_unpromoted \in Nat
  BY DEF IndexInv, BitsOK
<1>13. PICK size \in Int : size = caller_usable_size(chunks[b])
  BY <1>3, Units DEF caller_usable_size
<1>14. PICK J : J = ensure_has_bitmap_to(bitmap, b + requested)
  OBVIOUS
<1>15. /\ J = [nwords |-> J.nwords, bits |-> J.bits, biggest_unpromoted |-> J.biggest_unpromoted]
       /\ J.nwords = (IF bitmap.nwords < N THEN N ELSE bitmap.nwords)
       /\ J.bits = bitmap.bits /\ J.biggest_unpromoted = bitmap.biggest_unpromoted
  BY <1>10, <1>12, <1>14 DEF ensure_has_bitmap_to
<1>16. /\ bitmap' = [nwords |-> bitmap'.nwords, bits |-> bitmap'.bits,
                     biggest_unpromoted |-> bitmap'.biggest_unpromoted]
       /\ bitmap'.nwords = J.nwords /\ bitmap'.bits = bitmap.bits \cup {BitOf(b)}
       /\ bitmap'.biggest_unpromoted =
            IF SHOULD_PROMOTE(chunks[b]) THEN bitmap.biggest_unpromoted
            ELSE IF size > bitmap.biggest_unpromoted THEN size ELSE bitmap.biggest_unpromoted
  <2>1. bitmap' = [J EXCEPT !.bits = @ \cup {BitOf(b)},
                            !.biggest_unpromoted =
                               IF SHOULD_PROMOTE(chunks[b]) THEN @
                               ELSE IF size > J.biggest_unpromoted THEN size
                                    ELSE J.biggest_unpromoted]
    BY <1>13, <1>14 DEF Inserted
  <2> QED BY <1>15, <2>1
<1>17. /\ bitmap'.biggest_unpromoted \in Nat
       /\ bitmap.biggest_unpromoted <= bitmap'.biggest_unpromoted
       /\ ~SHOULD_PROMOTE(chunks[b]) => size <= bitmap'.biggest_unpromoted
  BY <1>12, <1>13, <1>16
<1>18. BitsOK(bitmap, Settled)'
  <2>1. bitmap'.nwords \in Nat /\ bitmap.nwords <= bitmap'.nwords /\ N <= bitmap'.nwords
    BY <1>11, <1>12, <1>15, <1>16
  <2>2. /\ bitmap.nwords * WordBits <= bitmap'.nwords * WordBits
        /\ N * WordBits <= bitmap'.nwords * WordBits
        /\ bitmap.nwords * WordBits \in Int /\ bitmap'.nwords * WordBits \in Int
        /\ N * WordBits \in Int
    BY <2>1, <1>11, <1>12, Units, TimesOrder, SMTT(20)
  <2>3. ASSUME NEW i \in bitmap'.bits
        PROVE  i \in Nat /\ i < bitmap'.nwords * WordBits
    <3>1. CASE i \in bitmap.bits
      <4>1. i \in Nat /\ i < bitmap.nwords * WordBits
        BY <3>1 DEF IndexInv, BitsOK
      <4> QED BY <4>1, <2>2
    <3>2. CASE i = BitOf(b)
      BY <3>2, <1>11, <2>2
    <3> QED BY <3>1, <3>2, <1>16
  <2>4. NonePromoted => bitmap'.bits = {BitOf(c) : c \in Settled'}
    BY <1>8, <1>16 DEF IndexInv, BitsOK
  <2>5. NonePromoted' <=> NonePromoted
    BY DEF NonePromoted
  <2> QED BY <1>16, <1>17, <2>1, <2>3, <2>4, <2>5 DEF BitsOK, BitOf
<1>19. BiggestOK(bitmap, chunks, Settled)'
  <2>1. ASSUME NEW c \in Settled', ~SHOULD_PROMOTE(chunks[c])
        PROVE  caller_usable_size(chunks[c]) <= bitmap'.biggest_unpromoted
    <3>1. CASE c = b
      BY <3>1, <2>1, <1>13, <1>17
    <3>2. CASE c \in Settled
      <4>1. caller_usable_size(chunks[c]) <= bitmap.biggest_unpromoted
        BY <3>2, <2>1 DEF IndexInv, BiggestOK
      <4>2. caller_usable_size(chunks[c]) \in Int
        BY <3>2, <1>1, <1>8, InsertIn, Units DEF caller_usable_size
      <4> QED BY <4>1, <4>2, <1>12, <1>17
    <3> QED BY <3>1, <3>2, <1>8
  <2> QED BY <2>1 DEF BiggestOK
<1>20. InsertsOK(inserts, chunks, Settled)'
  <2>1. PICK at : at = insert_for_chunk(b, chunks[b])
    OBVIOUS
  <2>2. inserts' = Trashed(at, at + InsertSize) \cup {Entry(b)}
    BY <2>1 DEF InsertWritten, Entry
  <2>3. ASSUME NEW c \in Settled'
        PROVE  Entry(c) \in inserts'
    <3>1. CASE c = b
      BY <3>1, <2>2
    <3>2. CASE c # b
      <4>1. c \in Settled /\ c \in DOMAIN chunks
        BY <3>2, <1>8
      <4>2. Entry(c) \in inserts
        BY <4>1 DEF IndexInv, InsertsOK, Entry
      <4>3. c + chunks[c] <= b \/ b + chunks[b] <= c
        BY <1>1, <1>2, <3>2, <4>1 DEF ChunksOK
      <4>4. c \in Nat /\ chunks[c] \in Nat
        BY <1>1, <4>1, InsertIn
      <4>5. c + chunks[c] <= at \/ at + InsertSize <= c
        BY <1>3, <2>1, <4>3, <4>4
      <4>6. at \in Int /\ at + InsertSize \in Int
        BY <1>3, <2>1, Units
      <4>7. Entry(c) \in Trashed(at, at + InsertSize)
        BY <1>1, <4>1, <4>2, <4>5, <4>6, Survives
      <4> QED BY <2>2, <4>7
    <3> QED BY <3>1, <3>2
  <2> QED BY <2>3 DEF InsertsOK, Entry
<1>21. PromotedOK(promoted, chunks, Settled)'
  <2>1. CASE ~SHOULD_PROMOTE(chunks[b])
    BY <2>1, <1>8 DEF IndexInv, PromotedOK, Promoted, BigOK
  <2>2. CASE SHOULD_PROMOTE(chunks[b])
    <3>1. PICK p : p = [begin |-> b, end |-> b + requested]
      OBVIOUS
    <3>2. promoted' = promoted \cup {p}
      BY <2>2, <3>1 DEF Promoted, PromotedSize
    <3>3. p.begin = b /\ BigOK(p, chunks)
      <4>1. p.begin = b /\ p.end = b + requested
        BY <3>1
      <4> QED BY <2>2, <1>3, <4>1, Units DEF BigOK
    <3>4. \A q \in promoted : q.begin \in Settled /\ BigOK(q, chunks)
      BY DEF IndexInv, PromotedOK
    <3>5. \A q \in promoted' : q.begin \in Settled' /\ BigOK(q, chunks)'
      BY <1>8, <3>2, <3>3, <3>4 DEF BigOK
    <3>6. \A c \in Settled' : SHOULD_PROMOTE(chunks[c]) => \E q \in promoted' : q.begin = c
      BY <1>8, <3>2, <3>3 DEF IndexInv, PromotedOK
    <3> QED BY <3>5, <3>6 DEF PromotedOK
  <2> QED BY <2>1, <2>2
<1> QED BY <1>5, <1>9, <1>18, <1>19, <1>20, <1>21 DEF IndexInv

\* What the hooks that insert and those that reinsert remember.
LEMMA InsertTold ==
    ASSUME NEW C, NEW r, Remembers(r, C), r.op = "insert"
    PROVE  /\ r # Idle /\ AtOf(r) = r.base
           /\ r.requested \in Nat \ {0} /\ r.requested + InsertSize <= C[r.base]
<1>1. r # Idle
  BY DEF Idle
<1>2. r.new = None /\ r.requested \in Nat \ {0} /\ r.requested + InsertSize <= C[r.base]
  BY <1>1 DEF Remembers
<1> QED BY <1>1, <1>2 DEF AtOf

LEMMA ReinsertTold ==
    ASSUME NEW C, NEW r, Remembers(r, C), r.op = "reinsert"
    PROVE  /\ r # Idle /\ r.requested \in Nat \ {0}
           /\ \/ r.new = None /\ r.base \in DOMAIN C /\ ~SHOULD_PROMOTE(C[r.base])
              \/ /\ r.new \in DOMAIN C /\ r.usable \in Nat /\ r.requested + InsertSize <= C[r.new]
                 /\ r.new = r.base /\ SHOULD_PROMOTE(C[r.new]) => r.requested + InsertSize >= r.usable
<1>1. r # Idle
  BY DEF Idle
<1> QED BY <1>1 DEF Remembers

LEMMA PostAlloc ==
    ASSUME IndexInv, NEW t \in Threads, UNCHANGED contracts, post_successful_alloc(t)
    PROVE  IndexInv'
<1>1. PICK b : b = pending[t].base
  OBVIOUS
<1>2. PICK requested : requested = pending[t].requested
  OBVIOUS
<1>3. /\ pending[t].op = "insert" /\ pending' = [pending EXCEPT ![t] = Idle]
      /\ bitmap' = Inserted(bitmap, b, requested, chunks[b])
      /\ promoted' = Promoted(promoted, b, requested, chunks[b])
      /\ inserts' = InsertWritten(b, chunks[b])
      /\ UNCHANGED <<contracts, chunks>>
  BY <1>1, <1>2 DEF post_successful_alloc, Become
<1>4. /\ pending[t] # Idle /\ b = At(t) /\ requested \in Nat \ {0}
      /\ requested + InsertSize <= chunks[b]
  <2>1. Remembers(pending[t], chunks)
    BY DEF IndexInv, PendingOK
  <2> QED BY <1>1, <1>2, <1>3, <2>1, InsertTold DEF At
<1> QED BY <1>3, <1>4, Adding, ZenonT(30)

LEMMA PostRealloc ==
    ASSUME IndexInv, NEW t \in Threads, UNCHANGED contracts, post_nonnull_nonzero_realloc(t)
    PROVE  IndexInv'
<1>1. PICK told : told = pending[t]
  OBVIOUS
<1>2. PICK b : b = ReinsertedAt(told)
  OBVIOUS
<1>3. PICK Q : Q = Promoted(promoted, b, told.requested, chunks[b])
  OBVIOUS
<1>4. /\ told.op = "reinsert" /\ pending' = [pending EXCEPT ![t] = Idle]
      /\ bitmap' = Inserted(bitmap, b, told.requested, chunks[b])
      /\ promoted' = TruncatedAfterResize(Q, told)
      /\ inserts' = InsertWritten(b, chunks[b])
      /\ UNCHANGED <<contracts, chunks>>
  BY <1>1, <1>2, <1>3 DEF post_nonnull_nonzero_realloc, Become
<1>5. ChunksOK(chunks) /\ PendingOK /\ Remembers(told, chunks)
  BY <1>1 DEF IndexInv, PendingOK
<1>6. told # Idle /\ b = At(t) /\ told.requested \in Nat \ {0}
  <2>1. told # Idle /\ told.requested \in Nat \ {0}
    BY <1>4, <1>5, ReinsertTold
  <2>2. b = At(t)
    BY <1>1, <1>2 DEF At, AtOf, ReinsertedAt
  <2> QED BY <2>1, <2>2
<1>7. b \in DOMAIN chunks /\ b \in Bases /\ b # None
  BY <1>1, <1>5, <1>6, OthersElsewhere, BasesAre DEF ChunksOK
<1>8. CASE told.new = None
  <2>1. told.base = b /\ told.new # told.base /\ ~SHOULD_PROMOTE(chunks[b])
    <3>1. told.base = b
      BY <1>2, <1>8 DEF ReinsertedAt
    <3>2. None \notin DOMAIN chunks
      BY <1>5, BasesAre DEF ChunksOK
    <3>3. ~SHOULD_PROMOTE(chunks[told.base])
      BY <1>4, <1>5, <1>8, <3>2, ReinsertTold
    <3> QED BY <1>7, <1>8, <3>1, <3>3
  <2>2. promoted' = Q
    BY <1>4, <2>1 DEF TruncatedAfterResize
  <2> QED BY <1>1, <1>3, <1>4, <1>6, <2>1, <2>2, Adding
<1>9. CASE told.new # None
  <2>1. /\ told.new = b /\ told.requested + InsertSize <= chunks[b]
        /\ (b = told.base /\ SHOULD_PROMOTE(chunks[b])) =>
             told.requested + InsertSize >= told.usable
        /\ told.usable \in Nat
    <3>1. told.new = b
      BY <1>2, <1>9 DEF ReinsertedAt
    <3>2. /\ told.usable \in Nat /\ told.requested + InsertSize <= chunks[told.new]
          /\ told.new = told.base /\ SHOULD_PROMOTE(chunks[told.new]) =>
               told.requested + InsertSize >= told.usable
      BY <1>4, <1>5, <1>9, ReinsertTold
    <3> QED BY <3>1, <3>2
  <2>2. b \notin Settled
    BY <1>6 DEF Settled, InFlight, At, AtOf
  <2>3. ASSUME NEW p \in Q, p.begin = told.base, told.new = told.base
        PROVE  ~(told.requested + InsertSize < told.usable)
    <3>1. p.begin = b
      BY <2>1, <2>3
    <3>2. p \notin promoted
      BY <3>1, <2>2 DEF IndexInv, PromotedOK
    <3>3. SHOULD_PROMOTE(chunks[b])
      BY <3>2, <1>3 DEF Promoted
    <3>4. told.requested + InsertSize >= told.usable
      BY <2>1, <2>3, <3>3
    <3> QED BY <2>1, <3>4, <1>6, Units
  <2>4. promoted' = {p : p \in Q}
    BY <1>4, <2>3 DEF TruncatedAfterResize
  <2>5. promoted' = Q
    BY <2>4
  <2> QED BY <1>1, <1>3, <1>4, <1>6, <2>1, <2>5, Adding
<1> QED BY <1>8, <1>9

-----------------------------------------------------------------------------
(* The invariant, and what follows from it. *)

LEMMA IndexInit == ASSUME Init PROVE IndexInv
<1>1. contracts \in Regimes /\ DOMAIN chunks = {} /\ chunks = [b \in {} |-> 0]
  BY DEF Init
<1>2. Settled = {}
  BY <1>1 DEF Settled
<1>3. ChunksOK(chunks)
  BY <1>1 DEF ChunksOK
<1>4. PendingOK
  BY DEF Init, PendingOK, Whole, Remembers, Idle
<1>5. BitsOK(bitmap, Settled)
  BY <1>2 DEF Init, BitsOK
<1> QED BY <1>1, <1>2, <1>3, <1>4, <1>5
        DEF Init, IndexInv, BiggestOK, InsertsOK, PromotedOK

LEMMA IndexNext ==
    ASSUME SoundRegimes, IndexInv, [Next]_vars
    PROVE  IndexInv'
<1>1. CASE UNCHANGED vars
  <2>1. Settled' = Settled /\ (NonePromoted' <=> NonePromoted)
    BY <1>1 DEF vars, Settled, InFlight, NonePromoted
  <2>2. ChunksOK(chunks)' /\ PendingOK'
    BY <1>1, <2>1 DEF vars, IndexInv, ChunksOK, PendingOK, At
  <2>3. BitsOK(bitmap, Settled)'
    BY <1>1, <2>1 DEF vars, IndexInv, BitsOK, BitOf
  <2>4. /\ BiggestOK(bitmap, chunks, Settled)' /\ InsertsOK(inserts, chunks, Settled)'
        /\ PromotedOK(promoted, chunks, Settled)'
    BY <1>1, <2>1 DEF vars, IndexInv, BiggestOK, InsertsOK, PromotedOK, BigOK
  <2> QED BY <1>1, <2>2, <2>3, <2>4 DEF vars, IndexInv
<1>2. ASSUME NEW t \in Threads, UNCHANGED contracts, ThreadStep(t)
      PROVE  IndexInv'
  <2>1. ASSUME NEW b \in Bases, NEW requested \in Sizes, NEW usable \in UsableFor(requested),
               real_malloc(t, b, requested, usable)
        PROVE  IndexInv'
    BY <1>2, <2>1, RealMalloc
  <2>2. CASE post_successful_alloc(t)
    BY <1>2, <2>2, PostAlloc
  <2>3. ASSUME NEW b \in DOMAIN chunks, pre_nonnull_free(t, b)
        PROVE  IndexInv'
    BY <1>2, <2>3, PreFree
  <2>4. ASSUME NEW b \in DOMAIN chunks, NEW requested \in Sizes,
               pre_nonnull_nonzero_realloc(t, b, requested)
        PROVE  IndexInv'
    BY <1>2, <2>4, PreRealloc
  <2>5. CASE real_free(t)
    BY <1>2, <2>5, RealFree
  <2>6. ASSUME NEW usable, real_realloc_in_place(t, usable)
        PROVE  IndexInv'
    BY <1>2, <2>6, RealInPlace
  <2>7. ASSUME NEW usable, NEW new \in Bases, real_realloc_move(t, new, usable)
        PROVE  IndexInv'
    BY <1>2, <2>7, RealMove
  <2>8. CASE real_realloc_fail(t)
    BY <1>2, <2>8, RealFail
  <2>9. CASE post_nonnull_nonzero_realloc(t)
    BY <1>2, <2>9, PostRealloc
  <2> QED BY <1>2, <2>1, <2>2, <2>3, <2>4, <2>5, <2>6, <2>7, <2>8, <2>9 DEF ThreadStep
<1> QED BY <1>1, <1>2 DEF Next

\* The invariant gives each of the three properties.
LEMMA InvIndexed == ASSUME IndexInv PROVE ChunksIndexed
<1>1. BitmapCovers
  BY DEF IndexInv, BitsOK, BitmapCovers
<1>2. PromotedExact
  BY DEF IndexInv, PromotedOK, BigOK, PromotedExact, Settled
<1>3. ASSUME NonePromoted PROVE IndexExact
  <2>1. bitmap.bits = {BitOf(b) : b \in Settled} /\ Settled \subseteq DOMAIN chunks
    BY <1>3 DEF IndexInv, BitsOK, Settled
  <2> QED BY <2>1 DEF IndexExact, Indexed, IndexInv, InsertsOK
<1> QED BY <1>1, <1>2, <1>3 DEF ChunksIndexed

LEMMA InvExcludes == ASSUME IndexInv PROVE BigExcludesInsert
BY DEF IndexInv, PromotedOK, BigOK, BigExcludesInsert

LEMMA InvFound == ASSUME IndexInv PROVE UnpromotedFound
<1> SUFFICES ASSUME NonePromoted, NEW b \in Indexed, NEW mem \in b..(b + chunks[b] - 1)
             PROVE  lookup_object_info(bitmap, mem) = {b}
  BY DEF UnpromotedFound
<1>1. /\ ChunksOK(chunks) /\ bitmap.bits = {BitOf(c) : c \in Settled}
      /\ Settled \subseteq DOMAIN chunks /\ DOMAIN chunks \subseteq Bases
  BY DEF IndexInv, BitsOK, ChunksOK, Settled
<1>2. b \in DOMAIN chunks /\ b \in Settled
  BY <1>1, BitsDiffer DEF Indexed
<1>3. b \in Bases /\ b \in Nat /\ chunks[b] \in Nat /\ mem \in Nat /\ b <= mem /\ mem < b + chunks[b]
  BY <1>1, <1>2, InsertIn
<1>4. bitmap_base_addr <= b /\ bitmap_base_addr <= mem /\ bitmap_base_addr \in Nat
  BY <1>3, FirstAddr, Units DEF Bases, Addrs
<1>5. bitmap.biggest_unpromoted \in Nat /\ chunks[b] - InsertSize <= bitmap.biggest_unpromoted
  BY <1>1, <1>2 DEF IndexInv, BitsOK, BiggestOK, ChunksOK, caller_usable_size
<1>6. mem - bitmap.biggest_unpromoted <= b + InsertSize - 1
  BY <1>3, <1>5, Units
<1>7. PICK from \in Nat : from = nbits_hidden(bitmap, mem) /\ from <= BitOf(b)
  BY <1>3, <1>5, <1>6, NotHidden
<1>8. BitOf(b) \in Nat /\ bitmap_base_addr + MallocAlign * BitOf(b) = b
  BY <1>3, BitOfBase
<1>9. PICK set : set = {i \in bitmap.bits : from <= i /\ i <= BitOf(mem)}
  OBVIOUS
<1>10. BitOf(b) \in set
  <2>1. BitOf(b) <= BitOf(mem)
    BY <1>3, <1>4, BitOrder
  <2> QED BY <2>1, <1>1, <1>2, <1>7, <1>9
<1>11. ASSUME NEW i \in set
       PROVE  i \in Nat /\ i <= BitOf(b)
  <2>1. PICK c \in Settled : i = BitOf(c)
    BY <1>1, <1>9
  <2>2. c \in Bases /\ c \in DOMAIN chunks
    BY <1>1
  <2>3. c \in Nat /\ chunks[c] \in Nat
    BY <1>1, <2>2, InsertIn
  <2>4. c <= mem
    BY <1>3, <1>4, <1>9, <2>1, <2>2, BitOrder
  <2>5. c # b => c + chunks[c] <= b \/ b + chunks[b] <= c
    BY <1>1, <1>2, <2>2 DEF ChunksOK
  <2>6. c <= b
    BY <1>3, <2>3, <2>4, <2>5
  <2>7. b \in Int
    BY <1>3
  <2>8. BitOf(c) <= BitOf(b)
    BY <1>4, <2>2, <2>6, <2>7, BitOrder
  <2>9. BitOf(c) \in Nat
    BY <2>2, BitOfBase
  <2> QED BY <2>1, <2>8, <2>9
<1>12. Max(set) = BitOf(b)
  <2>1. \A y \in set : BitOf(b) >= y
    BY <1>8, <1>11
  <2>2. Max(set) \in set /\ \A y \in set : Max(set) >= y
    BY <1>10, <2>1 DEF Max
  <2> QED BY <1>8, <1>10, <1>11, <2>2
<1>13. rfind_first_set_leq(bitmap, nbits_hidden(bitmap, mem), BitOf(mem)) = {BitOf(b)}
  BY <1>7, <1>9, <1>10, <1>12 DEF rfind_first_set_leq
<1> QED BY <1>8, <1>13 DEF lookup_object_info

\* However the hooks of any number of threads interleave with the calls they
\* wrap, the index has exactly the live chunks: every bit lies in the bitmap as
\* far as ensure_has_bitmap_to has made it, every big allocation is that of a
\* live chunk, and where nothing is promoted every bit is a live chunk's start.
THEOREM ChunksAreIndexed ==
    ASSUME SoundRegimes
    PROVE  Spec => []ChunksIndexed
<1>1. Init => IndexInv
  BY IndexInit
<1>2. IndexInv /\ [Next]_vars => IndexInv'
  BY IndexNext
<1>3. IndexInv => ChunksIndexed
  BY InvIndexed
<1> QED BY <1>1, <1>2, <1>3, PTL DEF Spec

\* lookup_object_info_via_bitmap attributes every address of an indexed chunk
\* to that chunk: nbits_hidden, which bounds the search from below, never hides
\* the bit, because biggest_unpromoted_object only grows.
THEOREM UnpromotedAreFound ==
    ASSUME SoundRegimes
    PROVE  Spec => []UnpromotedFound
<1>1. Init => IndexInv
  BY IndexInit
<1>2. IndexInv /\ [Next]_vars => IndexInv'
  BY IndexNext
<1>3. IndexInv => UnpromotedFound
  BY InvFound
<1> QED BY <1>1, <1>2, <1>3, PTL DEF Spec

\* The big allocation of a promoted chunk ends where its insert begins or
\* before, also after any sequence of reallocs that the contracts allow.
THEOREM BigLeavesInsertOut ==
    ASSUME SoundRegimes
    PROVE  Spec => []BigExcludesInsert
<1>1. Init => IndexInv
  BY IndexInit
<1>2. IndexInv /\ [Next]_vars => IndexInv'
  BY IndexNext
<1>3. IndexInv => BigExcludesInsert
  BY InvExcludes
<1> QED BY <1>1, <1>2, <1>3, PTL DEF Spec
=============================================================================
