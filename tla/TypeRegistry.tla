---------------------------- MODULE TypeRegistry ----------------------------
(***************************************************************************)
(* Types made at run time (src/uniqtype-util.c, src/rt-uniqtypes.c): an    *)
(* array, pointer, function or union type is looked up by a name made from *)
(* the names of its parts, and created and bound to that name if there is  *)
(* none.  Nothing serialises two threads that do this.                     *)
(*                                                                         *)
(* A type is a place in made.  A name is a sequence of words; the words    *)
(* that tell types of one simple name apart are not part of it.  Alignment *)
(* and the links between signed and unsigned types are left out.           *)
(***************************************************************************)
EXTENDS Integers, Sequences, FiniteSets, SequencesExt, TLC

CONSTANTS
    Programs,           \* the type tables programs come with: sequences of types
    PredefinedTypes,    \* the library's own: [lookup |-> name, type |-> type]
    TypeThreads,
    MaxCreated,         \* bound: types created after start-up
    ArrayLengths, PointerSize,
    SizeRange,          \* pos_maxoff and the product that computes it are modulo this
    MaxWords,           \* the buffer a name is made in
    TypeContracts

ASSUME TypeAssumption ==
    TypeContracts \subseteq {"types_serialised", "names_tell", "one_unbounded_kind", "products_fit",
                             "union_parts_tell", "pointers_complete", "names_fit"}

VARIABLES
    made,       \* the types: [name, size, what, ultimate]; what is the request it answers
    started,    \* whether init_rt_uniqtypes_obj has run, and how many types there were then
    asked,      \* what each thread has looked up in vain, or NoRequest
    returned    \* the last answer: [request, type]

typeVars == <<made, started, asked, returned>>

NoRequest == [op |-> "none", of |-> <<>>, len |-> 0]
Request(op, of, len) == [op |-> op, of |-> of, len |-> len]
NotMade == 0
NoBound == SizeRange - 1        \* UNIQTYPE_POS_MAXOFF_UNBOUNDED
Unbounded == 999                \* UNIQTYPE_ARRAY_LENGTH_UNBOUNDED
-----------------------------------------------------------------------------
\* The name looked for.  An array of no stated length and a flexible array share one.
Named(k) == made[k].name
NameParts_NoLength(r) ==
    IF r.op \in {"array", "flexible"} THEN <<"ARR">> \o Named(r.of[1]) ELSE <<r.op>> \o Named(r.of[1])
NameParts(r) ==
    CASE r.op = "array" /\ r.len # Unbounded -> <<"ARR", ToString(r.len)>> \o Named(r.of[1])
      [] r.op = "array" \/ r.op = "flexible" -> <<"ARR">> \o Named(r.of[1])
      [] r.op = "pointer" -> <<"PTR">> \o Named(r.of[1])
      [] r.op = "function" ->
           FlattenSeq([i \in 1..Len(r.of) |->
             IF i = 1 THEN <<"FUN_FROM">> ELSE <<"ARG", ToString(i - 2)>> \o Named(r.of[i])])
           \o <<"FUN_TO">> \o Named(r.of[1])
      [] r.op = "union" -> <<"SYNTHUNION">> \o FlattenSeq([i \in 1..Len(r.of) |-> Named(r.of[i])])
NameFor(r) == LET n == NameParts(r) IN SubSeq(n, 1, IF Len(n) < MaxWords THEN Len(n) ELSE MaxWords)

SizeFor(r) ==
    CASE r.op = "pointer" -> PointerSize
      [] r.op = "array" /\ r.len # Unbounded -> (r.len * made[r.of[1]].size) % SizeRange
      [] r.op = "union" ->
           LET sizes == {made[k].size : k \in ToSet(r.of)} IN CHOOSE x \in sizes : \A y \in sizes : y <= x
      [] OTHER -> NoBound

\* The type at the end of a chain of pointers, taken from the pointee where that is
\* a pointer itself.
UltimateFor(r) == IF made[r.of[1]].what.op = "pointer" THEN made[r.of[1]].ultimate ELSE r.of[1]

\* Nothing is made of parts of no size or no bounded size.
Sized(r) == r.op \in {"array", "flexible", "union"} =>
              \A k \in ToSet(r.of) : made[k].size \notin {0, NoBound}

\* get_type_from_symname: the first type bound to the name.
Bound(types, name) == {k \in DOMAIN types : types[k].name = name}
get_type_from_symname(name) ==
    IF Bound(made, name) = {} THEN NotMade
    ELSE CHOOSE k \in Bound(made, name) : \A j \in Bound(made, name) : k <= j

Requests ==
    LET K == DOMAIN made
    IN  {Request(op, <<k>>, 0) : op \in {"pointer", "flexible"}, k \in K}
        \cup {Request("array", <<k>>, n) : n \in ArrayLengths \cup {Unbounded}, k \in K}
        \cup {Request("function", <<k>>, 0) : k \in K}
        \cup {Request(op, <<j, k>>, 0) : op \in {"function", "union"}, j \in K, k \in K}
-----------------------------------------------------------------------------
Allowed(r) ==
    /\ "types_serialised" \in TypeContracts => \A u \in TypeThreads : asked[u] = NoRequest
    /\ "names_tell" \in TypeContracts => \A k \in ToSet(r.of) : Bound(made, Named(k)) = {k}
    /\ "one_unbounded_kind" \in TypeContracts =>
         \A k \in Bound(made, NameFor(r)) : r.op \in {"array", "flexible"} => made[k].what.op = r.op
    /\ "products_fit" \in TypeContracts =>
         (r.op = "array" /\ r.len # Unbounded => r.len * made[r.of[1]].size < NoBound)
    /\ "union_parts_tell" \in TypeContracts =>
         (r.op = "union" => \A k \in ToSet(r.of) : Len(Named(k)) = 1)
    /\ "pointers_complete" \in TypeContracts =>
         (r.op = "pointer" => UltimateFor(r) # NotMade)
    /\ "names_fit" \in TypeContracts => Len(NameParts(r)) <= MaxWords

\* A get_or_create function looks the name up...
get_or_create(t, r) ==
    /\ started # NotMade /\ Len(made) < started + MaxCreated
    /\ asked[t] = NoRequest /\ Sized(r) /\ Allowed(r)
    /\ LET found == get_type_from_symname(NameFor(r))
       IN  IF found = NotMade
           THEN asked' = [asked EXCEPT ![t] = r] /\ UNCHANGED returned
           ELSE returned' = [request |-> r, type |-> found] /\ UNCHANGED asked
    /\ UNCHANGED <<made, started>>

\* ... and makes the type and binds it.
create(t) ==
    LET r == asked[t]
    IN  /\ r # NoRequest
        /\ made' = Append(made, [name |-> NameFor(r), size |-> SizeFor(r), what |-> r,
                                 ultimate |-> IF r.op = "pointer" THEN UltimateFor(r) ELSE NotMade])
        /\ returned' = [request |-> r, type |-> Len(made) + 1]
        /\ asked' = [asked EXCEPT ![t] = NoRequest]
        /\ UNCHANGED started

\* init_rt_uniqtypes_obj: each of the library's own types is the program's one of that
\* name, or is created.  A pointer type created here is one word short: its ultimate
\* pointee is whatever follows it.
Place(types, name) == CHOOSE k \in Bound(types, name) : \A j \in Bound(types, name) : k <= j
WithPredefined(types) ==
    FoldLeft(LAMBDA ts, w :
               IF Bound(ts, w.lookup) # {} THEN ts
               ELSE Append(ts, [w.type EXCEPT !.what.of =
                                  [i \in DOMAIN w.type.what.of |-> Place(ts, w.type.what.of[i])]]),
             types, PredefinedTypes)
init_rt_uniqtypes_obj ==
    /\ started = NotMade
    /\ made' = WithPredefined(made)
    /\ started' = Len(made')
    /\ UNCHANGED <<asked, returned>>

TypeInit ==
    /\ made \in Programs
    /\ started = NotMade
    /\ asked = [t \in TypeThreads |-> NoRequest]
    /\ returned = [request |-> NoRequest, type |-> NotMade]
TypeNext ==
    \/ init_rt_uniqtypes_obj
    \/ \E t \in TypeThreads : create(t) \/ \E r \in Requests : get_or_create(t, r)
-----------------------------------------------------------------------------
IsPointer(k) == made[k].what.op = "pointer"

\* Types can be told apart by their addresses: get_or_create answers with a type of
\* the kind and the parts asked for, no type is made twice, an array is as large as
\* its elements, and the end of a pointer's chain is recorded right, whichever
\* thread asked first and whatever is bound to the name.
TypesUnique ==
    /\ returned.type # NotMade => made[returned.type].what = returned.request
    /\ \A k \in DOMAIN made : k > started /\ started # NotMade =>
         /\ \A j \in DOMAIN made : made[j].what = made[k].what => j = k
         /\ made[k].what.op = "array" /\ made[k].what.len # Unbounded =>
              made[k].size = made[k].what.len * made[made[k].what.of[1]].size
         /\ IsPointer(k) =>
              LET p == made[k].what.of[1]
              IN  made[k].ultimate # NotMade
                  /\ made[k].ultimate = IF IsPointer(p) THEN made[p].ultimate ELSE p
=============================================================================
