----------------------------- MODULE PackedSeq -----------------------------
(***************************************************************************)
(* Packed sequences (src/allocators/packed-seq.c): objects such as strings *)
(* that can only be told apart by decoding from the start.  The code       *)
(* caches the starts it has decoded in a bitmap, which grows as queries    *)
(* ask about later addresses, with an optional vector of types and sizes.  *)
(* A query or a walk is one step, with its answer and the right answer.    *)
(***************************************************************************)
EXTENDS Integers, Sequences, FiniteSets

CONSTANTS
    Sequences_,         \* contents: sequences of [size, type]
    Families,           \* [align, vector]: the entry alignment and if there is a metavector
    SeqWordBits,
    SizeMod,            \* of the size_nalign field
    PackedContracts

ASSUME PackedAssumption ==
    PackedContracts \subseteq {"has_vector", "in_objects", "whole_walks", "plain_walks",
                               "sizes_fit"}

VARIABLES
    content, fam,
    upTo,       \* offset_cached_up_to
    nwords,     \* starts_bitmap_nwords
    starts,     \* the bits set, as numbers
    vector,     \* the metavector's used entries
    overrun,    \* a bit beyond the bitmap, or a read beyond the end
    answer      \* of the last query or walk: got and wanted

packedVars == <<content, fam, upTo, nwords, starts, vector, overrun, answer>>

Up(n, a) == ((n + a - 1) \div a) * a

\* Where the objects really are.
StartOf(c, f, k) ==
    LET at[n \in 1..(Len(c) + 1)] == IF n = 1 THEN 0 ELSE Up(at[n - 1] + c[n - 1].size, f.align)
    IN  at[k]
SeqEnd(c, f) == IF c = <<>> THEN 0 ELSE StartOf(c, f, Len(c)) + c[Len(c)].size
ObjectsAt(c, f, a) ==
    {k \in DOMAIN c : StartOf(c, f, k) <= a /\ a < StartOf(c, f, k) + c[k].size}
NextObject(c, f, a) == {k \in DOMAIN c : StartOf(c, f, k) = a}
-----------------------------------------------------------------------------
\* ensure_cached_up_to(offset), from the state s.
Target(s, offset, size) ==
    LET most == IF 2 * s.upTo > offset THEN 2 * s.upTo ELSE offset
    IN  IF size < most THEN size ELSE most
WordsFor(f, target) ==
    LET bits == (target + 1 + f.align - 1) \div f.align
    IN  (bits + SeqWordBits - 1) \div SeqWordBits

NextStart(f, end) == Up(end, f.align)

\* One turn of the loop, at cur: the entry and the bit of the object there.
Cached(c, f, s, cur) ==
    LET e == c[CHOOSE k \in NextObject(c, f, cur) : TRUE]
        next == NextStart(f, cur + e.size)
    IN  [s EXCEPT !.vector = IF f.vector
                             THEN Append(@, [type |-> e.type,
                                             nalign |-> ((next - cur) \div f.align) % SizeMod,
                                             delta |-> next - (cur + e.size)])
                             ELSE @,
                  !.starts = @ \cup {cur \div f.align},
                  !.overrun = @ \/ cur \div f.align >= s.nwords * SeqWordBits,
                  !.upTo = next,
                  !.stop = cur + e.size >= s.target]
EnsureCached(c, f, s0, offset) ==
    IF s0.upTo >= offset THEN s0
    ELSE LET target == Target(s0, offset, SeqEnd(c, f))
             words == WordsFor(f, target)
             s1 == [s0 EXCEPT !.target = target, !.stop = FALSE,
                              !.nwords = IF @ < words THEN words ELSE @]
             turn[n \in 0..(Len(c) + 1)] ==
               IF n = 0 THEN s1
               ELSE LET s == turn[n - 1]
                    IN  IF s.stop \/ s.upTo = SeqEnd(c, f) THEN [s EXCEPT !.stop = TRUE]
                        ELSE IF NextObject(c, f, s.upTo) = {}
                        THEN [s EXCEPT !.overrun = TRUE, !.stop = TRUE]
                        ELSE Cached(c, f, s, s.upTo)
         IN  turn[Len(c) + 1]
Cache == [upTo |-> upTo, nwords |-> nwords, starts |-> starts, vector |-> vector,
          overrun |-> overrun, target |-> 0, stop |-> FALSE]
Becomes(s, offset) ==
    /\ upTo' = s.upTo /\ nwords' = s.nwords /\ starts' = s.starts /\ vector' = s.vector
    /\ overrun' = (s.overrun \/ s.upTo < offset)
    /\ UNCHANGED <<content, fam>>
-----------------------------------------------------------------------------
Before(S, b) == Cardinality({x \in S : x < b})
Nothing == [base |-> 0, size |-> -1, type |-> 0]

\* get_info(obj): the start at or below, and its entry of the vector.
get_info(obj) ==
    LET s == EnsureCached(content, fam, Cache, obj + 1)
        leq == {b \in s.starts : b <= obj \div fam.align}
        found == CHOOSE b \in leq : \A c \in leq : c <= b
        e == s.vector[Before(s.starts, found) + 1]
        k == CHOOSE j \in ObjectsAt(content, fam, obj) : TRUE
    IN  /\ "has_vector" \in PackedContracts => fam.vector
        /\ "in_objects" \in PackedContracts => ObjectsAt(content, fam, obj) # {}
        /\ Becomes(s, obj + 1)
        /\ answer' =
             [got |-> IF ~fam.vector \/ leq = {} THEN <<Nothing>>
                      ELSE <<[base |-> found * fam.align,
                              size |-> e.nalign * fam.align - e.delta, type |-> e.type]>>,
              wanted |-> IF ObjectsAt(content, fam, obj) = {} THEN <<>>
                         ELSE <<[base |-> StartOf(content, fam, k), size |-> content[k].size,
                                 type |-> content[k].type]>>]

\* walk_allocations over a range (one that ends with the sequence is not
\* bounded).  The place where the range begins is visited whatever is there, and
\* the entry used throughout is the first one's.
walk_allocations(begin, end) ==
    LET size == SeqEnd(content, fam)
        s == EnsureCached(content, fam, Cache, end)
        first == begin \div fam.align
        pre == Before(s.starts, first)
        bounded == end < size
        seen == {b \in s.starts \cup {first} :
                   b >= first /\ (bounded => b * fam.align < end)}
        nth(n) == CHOOSE b \in seen : Before(seen, b) = n - 1
        padded(b) == LET after == {c \in s.starts : c > b}
                     IN  IF after = {} THEN size - b * fam.align
                         ELSE ((CHOOSE c \in after : \A d \in after : c <= d) - b) * fam.align
        e == IF fam.vector /\ pre < Len(s.vector) THEN s.vector[pre + 1]
             ELSE [type |-> 1, nalign |-> 0, delta |-> 0]
        inside == {k \in DOMAIN content : StartOf(content, fam, k) \in begin..(end - 1)}
    IN  /\ "whole_walks" \in PackedContracts =>
              ~bounded /\ NextObject(content, fam, begin) # {}
        /\ "plain_walks" \in PackedContracts => ~fam.vector
        /\ Becomes(s, end)
        /\ answer' =
             [got |-> [n \in 1..Cardinality(seen) |->
                         [base |-> nth(n) * fam.align, size |-> padded(nth(n)) - e.delta,
                          type |-> e.type]],
              wanted |-> [n \in 1..Cardinality(inside) |->
                            LET k == Len(content) - Cardinality(inside) + n
                                     - Cardinality({j \in DOMAIN content :
                                                      StartOf(content, fam, j) >= end})
                            IN  [base |-> StartOf(content, fam, k), size |-> content[k].size,
                                 type |-> content[k].type]]]

PackedInit ==
    /\ content \in Sequences_ /\ fam \in Families
    /\ fam.vector \/ \A k \in DOMAIN content : content[k].type = 1
    /\ "sizes_fit" \in PackedContracts =>
         \A k \in DOMAIN content : Up(content[k].size, fam.align) \div fam.align < SizeMod
    /\ upTo = 0 /\ nwords = 0 /\ starts = {} /\ vector = <<>> /\ overrun = FALSE
    /\ answer = [got |-> <<>>, wanted |-> <<>>]
PackedNext ==
    /\ ~overrun
    /\ \/ \E obj \in 0..(SeqEnd(content, fam) - 1) : get_info(obj)
       \/ \E begin \in 0..(SeqEnd(content, fam) - 1), end \in 1..SeqEnd(content, fam) :
            walk_allocations(begin, end)
-----------------------------------------------------------------------------
=============================================================================
