------------------------------ MODULE MetaVec ------------------------------
(***************************************************************************)
(* The sorted vector with a bitmap of starts and a vector of shortcuts     *)
(* (include/metavec.h), as its unit test instantiates it: byte alignment,  *)
(* one shortcut per ShortcutUnit bytes.  The bitmap's first bit stands for *)
(* an address rounded down, by one amount when bits are set and by another *)
(* when they are counted.                                                  *)
(***************************************************************************)
EXTENDS Integers, Sequences, FiniteSets, SequencesExt

CONSTANTS
    ShortcutUnit,       \* 2^log2_shortcut_scale
    BitmapUnit,         \* bytes covered by a bitmap word
    UnsignedUnit,       \* bytes covered by as many bits as an unsigned has
    Sentinel,           \* the largest shortcut
    Bases,              \* addr_at_0
    RangeSize,          \* addr_range_sz
    RawInputs,          \* sequences of offsets from the base; 0 alone is a null address
    VecContracts

ASSUME VecAssumption ==
    VecContracts \subseteq {"base_aligned", "distinct", "entry_above", "first_unasked"}

VARIABLES
    base,
    raw,        \* addresses
    meta,       \* the vector's addresses
    bits,
    shortcut,
    index       \* the last search's result, and the right one

vecVars == <<base, raw, meta, bits, shortcut, index>>

RoundDown(m, a) == m * (a \div m)
Slot(a) == a \div ShortcutUnit - base \div ShortcutUnit
Slots == 0..(RangeSize \div ShortcutUnit)       \* rounded up
-----------------------------------------------------------------------------
\* generate_meta: the entries sorted, without the null ones; a bit for each; and
\* for each slot up to the last entry's, the index (from 0) of the first entry in
\* it or beyond it.
set_bit_for_addr(a) == a - RoundDown(UnsignedUnit, base)
FirstFrom(vec, slot) == Cardinality({n \in DOMAIN vec : Slot(vec[n]) < slot})
generate_meta ==
    LET vec == SortSeq(SelectSeq(raw, LAMBDA a : a # 0), <)
    IN  /\ shortcut = <<>>
        /\ meta' = vec
        /\ bits' = {set_bit_for_addr(a) : a \in ToSet(vec)}
        /\ shortcut' = [k \in Slots |-> IF vec # <<>> /\ k <= Slot(vec[Len(vec)])
                                        THEN FirstFrom(vec, k)
                                        ELSE IF k < RangeSize \div ShortcutUnit THEN Sentinel
                                        ELSE 0]
        /\ UNCHANGED <<base, raw, index>>

\* meta_idx_le_addr: from the slot's shortcut, forward by the bits set after it.
\* A shortcut beyond the vector reads whatever is there.
CountSet(lo, hi) == Cardinality(bits \cap (lo..(hi - 1)))
meta_idx_le_addr(a) ==
    LET start == shortcut[Slot(a)]
        entry == meta[start + 1]
        first == RoundDown(BitmapUnit, base)
    IN  IF start >= Len(meta) THEN -2
        ELSE IF entry >= a /\ start = 0 THEN -1
        ELSE IF entry > a THEN start - 1
        ELSE IF entry = a THEN start
        ELSE start + CountSet(entry - first + 1, a - first + 1)
RightIndex(a) == Cardinality({n \in DOMAIN meta : meta[n] <= a}) - 1
lookup(a) ==
    /\ shortcut # <<>>
    /\ "entry_above" \in VecContracts => \E n \in DOMAIN meta : Slot(a) <= Slot(meta[n])
    /\ "first_unasked" \in VecContracts => meta = <<>> \/ a # meta[1]
    /\ index' = [got |-> meta_idx_le_addr(a), wanted |-> RightIndex(a)]
    /\ UNCHANGED <<base, raw, meta, bits, shortcut>>

VecInit ==
    /\ base \in Bases
    /\ \E offsets \in RawInputs :
         /\ raw = [n \in DOMAIN offsets |-> IF offsets[n] = 0 THEN 0 ELSE base + offsets[n] - 1]
         /\ "distinct" \in VecContracts =>
              \A n, k \in DOMAIN raw : n # k /\ raw[n] # 0 => raw[n] # raw[k]
    /\ "base_aligned" \in VecContracts => base % BitmapUnit = 0
    /\ meta = <<>> /\ bits = {} /\ shortcut = <<>>
    /\ index = [got |-> -1, wanted |-> -1]
VecNext == generate_meta \/ \E a \in base..(base + RangeSize - 1) : lookup(a)
-----------------------------------------------------------------------------
=============================================================================
