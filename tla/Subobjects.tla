----------------------------- MODULE Subobjects -----------------------------
(***************************************************************************)
(* Searches below a type (include/liballocs.h and __liballocs_get_inner_   *)
(* type in src/query.c): which subobjects span an offset of an object, if  *)
(* one of a given type starts there, and which is the innermost.           *)
(*                                                                         *)
(* A type is [name, kind, size, members, len, flexible]: kind is "base", "array"     *)
(* (members has the element, len the length) or "struct" (members is the   *)
(* sequence of [off, type] by offset; a union has several at an offset).   *)
(* An array type whose flexible bit is set has a make_precise function.    *)
(***************************************************************************)
EXTENDS Integers, Sequences, FiniteSets, SequencesExt

CONSTANTS
    ObjectTypes,        \* the types asked about
    AllocSize,          \* of an allocation whose type is a flexible array
    SubobjectContracts

ASSUME SubobjectAssumption ==
    SubobjectContracts \subseteq {"outside_padding", "no_partial_overlap", "first_elements",
                                  "offsets_unasked", "even_alternatives"}

VARIABLES
    subject,    \* the type
    result      \* of the last search, and the right one

subobjectVars == <<subject, result>>

AnyType == [name |-> "any"]
IsArray(t) == t.kind = "array"
Element(t) == t.members[1].type
-----------------------------------------------------------------------------
\* The members of a type as placed objects, and everything below it: [off, type,
\* depth].
Placed(t) ==
    IF IsArray(t) THEN {[off |-> k * Element(t).size, type |-> Element(t)] : k \in 0..(t.len - 1)}
    ELSE ToSet(t.members)
RECURSIVE Below(_, _, _)
Below(t, off, depth) ==
    UNION {{[off |-> off + p.off, type |-> p.type, depth |-> depth + 1]}
             \cup Below(p.type, off + p.off, depth + 1) : p \in Placed(t)}
Spans(p, o) == p.off <= o /\ o < p.off + p.type.size

\* Types whose members overlap only when they start together.
RECURSIVE NoPartialOverlap(_)
NoPartialOverlap(t) ==
    /\ \A p, q \in ToSet(t.members) : p.off < q.off => p.off + p.type.size <= q.off
    /\ \A p \in ToSet(t.members) : NoPartialOverlap(p.type)
\* The members that start last at or before the offset.  At every level, one of
\* them spans it (there is no padding), or all do as soon as one does.
Candidates(t, o) ==
    {p \in Placed(t) : p.off <= o /\ \A q \in Placed(t) : q.off <= o => q.off <= p.off}
RECURSIVE OutsidePadding(_, _)
OutsidePadding(t, o) ==
    Candidates(t, o) # {} => /\ \E p \in Candidates(t, o) : Spans(p, o)
                             /\ \A p \in Candidates(t, o) :
                                  Spans(p, o) => OutsidePadding(p.type, o - p.off)
RECURSIVE EvenAlternatives(_, _)
EvenAlternatives(t, o) ==
    (\E p \in Candidates(t, o) : Spans(p, o)) =>
      \A p \in Candidates(t, o) : Spans(p, o) /\ EvenAlternatives(p.type, o - p.off)
-----------------------------------------------------------------------------
\* The bisection: the lowest index of the members at the highest offset that is
\* at most o, or 0 when there is none.
Bisected_Below(t, o) ==
    LET leq == {n \in DOMAIN t.members : t.members[n].off < o}
        top == CHOOSE n \in leq : \A k \in leq : k <= n
    IN  IF leq = {} THEN 0
        ELSE CHOOSE n \in leq : /\ t.members[n].off = t.members[top].off
                                /\ \A k \in leq : t.members[k].off = t.members[top].off => n <= k
Bisected(t, o) ==
    LET leq == {n \in DOMAIN t.members : t.members[n].off <= o}
        top == CHOOSE n \in leq : \A k \in leq : k <= n
    IN  IF leq = {} THEN 0
        ELSE CHOOSE n \in leq : /\ t.members[n].off = t.members[top].off
                                /\ \A k \in leq : t.members[k].off = t.members[top].off => n <= k

\* first_subobject_spanning: the member's index, type and the offset within it,
\* or nothing.
first_subobject_spanning(t, o) ==
    IF IsArray(t)
    THEN IF Element(t).size # 0 /\ t.len > o \div Element(t).size
         THEN <<[at |-> 1, type |-> Element(t), off |-> o % Element(t).size]>> ELSE <<>>
    ELSE IF Bisected(t, o) = 0 THEN <<>>
    ELSE <<[at |-> Bisected(t, o), type |-> t.members[Bisected(t, o)].type,
            off |-> o - t.members[Bisected(t, o)].off]>>

\* walk_subobjects_spanning_rec, with a callback that always goes on.  An array
\* divides by the element's size before it looks if that is zero: offset -1.
RECURSIVE walk_subobjects_spanning_rec(_, _, _, _)
walk_subobjects_spanning_rec(t, o, off, depth) ==
    IF IsArray(t)
    THEN IF Element(t).size = 0 THEN {[off |-> -1, type |-> t, depth |-> depth]}
         ELSE IF t.len <= o \div Element(t).size THEN {}
         ELSE LET skip == (o \div Element(t).size) * Element(t).size
              IN  {[off |-> off + skip, type |-> Element(t), depth |-> depth + 1]}
                    \cup walk_subobjects_spanning_rec(Element(t), o - skip, off + skip, depth + 1)
    ELSE IF Bisected(t, o) = 0 \/ o >= t.size THEN {}
    ELSE LET at == t.members[Bisected(t, o)].off
         IN  UNION {{[off |-> off + at, type |-> p.type, depth |-> depth + 1]}
                      \cup walk_subobjects_spanning_rec(p.type, o - at, off + at, depth + 1) :
                      p \in {p \in ToSet(t.members) : p.off = at}}

\* find_matching_subobject: if it is found, and the offset summed on the way.
\* The alternatives at an offset are tried in order, but all with the offset
\* summed so far; an array's element adds nothing.
RECURSIVE find_matching_subobject(_, _, _, _)
find_matching_subobject(t, o, test, sum) ==
    IF o = 0 /\ (test = AnyType \/ t = test) THEN [ok |-> TRUE, sum |-> sum]
    ELSE LET first == first_subobject_spanning(t, o)
             here == sum + (IF IsArray(t) THEN 0 ELSE t.members[first[1].at].off)
             more == IF IsArray(t) THEN {}
                     ELSE {n \in DOMAIN t.members : /\ n > first[1].at
                                                    /\ t.members[n].off = t.members[first[1].at].off}
             alt[n \in 0..Cardinality(more)] ==
               LET type == IF n = 0 THEN first[1].type ELSE t.members[first[1].at + n].type
                   r == find_matching_subobject(type, first[1].off, test,
                          IF n = 0 THEN here ELSE alt[n - 1].sum)
               IN  IF n > 0 /\ alt[n - 1].ok THEN alt[n - 1] ELSE r
         IN  IF first = <<>> THEN [ok |-> FALSE, sum |-> sum] ELSE alt[Cardinality(more)]

\* get_inner_type of an address o bytes into an allocation: a flexible array is
\* first made precise, with the memory from the address on.
make_array_precise_with_memory_bounds(t, o, size) ==
    LET n == (size - o) \div Element(t).size
    IN  [t EXCEPT !.len = n, !.size = n * Element(t).size, !.flexible = FALSE]
RECURSIVE Innermost(_, _)
Innermost(t, o) ==
    LET first == first_subobject_spanning(t, o)
    IN  IF first = <<>> THEN t ELSE Innermost(first[1].type, first[1].off)
get_inner_type(t, o) ==
    Innermost(IF t.flexible THEN make_array_precise_with_memory_bounds(t, o, AllocSize) ELSE t, o)
-----------------------------------------------------------------------------
OffsetAllowed(o) ==
    /\ "outside_padding" \in SubobjectContracts => OutsidePadding(subject, o)
    /\ "even_alternatives" \in SubobjectContracts => EvenAlternatives(subject, o)
SubjectAllowed(t) == "no_partial_overlap" \in SubobjectContracts => NoPartialOverlap(t)
Reply(search, got, wanted) ==
    result' = [got |-> <<search>> \o got, wanted |-> <<search>> \o wanted] /\ UNCHANGED subject

walk(o) ==
    /\ OffsetAllowed(o)
    /\ Reply("walk", <<walk_subobjects_spanning_rec(subject, o, 0, 0)>>,
             <<{p \in Below(subject, 0, 0) : Spans(p, o)}>>)
match(o, test) ==
    LET r == find_matching_subobject(subject, o, test, 0)
        there == \E p \in Below(subject, 0, 0) \cup {[off |-> 0, type |-> subject]} :
                   p.off = o /\ (test = AnyType \/ p.type = test)
    IN  IF r.ok /\ "offsets_unasked" \notin SubobjectContracts
        THEN Reply("match", <<TRUE, r.sum>>, <<there, o>>) ELSE Reply("match", <<r.ok>>, <<there>>)
inner(o) ==
    LET all == Below(subject, 0, 0) \cup {[off |-> 0, type |-> subject, depth |-> 0]}
        deepest == {p \in all : Spans(p, o) /\ \A q \in Placed(p.type) : ~Spans(q, o - p.off)}
    IN  /\ OffsetAllowed(o)
        /\ "first_elements" \in SubobjectContracts => (subject.flexible => o = 0)
        /\ Reply("inner", <<get_inner_type(subject, o) \in {p.type : p \in deepest}>>, <<TRUE>>)

SubobjectInit ==
    /\ subject \in {t \in ObjectTypes : SubjectAllowed(t)}
    /\ result = [got |-> <<>>, wanted |-> <<>>]
SubobjectNext ==
    \E o \in 0..(subject.size - 1) :
      \/ walk(o)
      \/ \E test \in {AnyType} \cup ObjectTypes : match(o, test)
      \/ inner(o)
-----------------------------------------------------------------------------
\* Every search agrees with the layout of the type: the walk reports exactly the
\* subobjects that span the offset, a type is matched exactly when a subobject of
\* that type starts there, and the inner type is that of an innermost subobject.
SubobjectsExact == result.got = result.wanted
=============================================================================
