----------------------------- MODULE ObjectWalk -----------------------------
(***************************************************************************)
(* The breadth-first walk of the objects reachable from one                *)
(* (src/uniqtype-bfs.c, include/uniqtype-bfs.h).  Memory does not change   *)
(* while it is walked.                                                     *)
(***************************************************************************)
EXTENDS Integers, Sequences, FiniteSets, SequencesExt

CONSTANTS
    Heaps,             \* memories: [objects |-> address -> type name, slots |-> address -> value]
    TypeNamed,          \* type name -> [kind, size, parts |-> <<[off, type]>>, pointee]
    IntRange,           \* compar returns an int: differences are taken modulo this
    WalkContracts

ASSUME WalkAssumption ==
    WalkContracts \subseteq {"addresses_close", "arrays_outermost", "typed_roots", "no_minus_one",
                             "static_types_agree"}

VARIABLES
    graph,
    follow,     \* follow_ptr: "static" is the default one, "precise" finds the object
    root,       \* the object walked from, or Null before the walk
    queue,      \* nodes [obj, t]
    colour,     \* the keys whose colour is not white
    blackened,  \* the calls of on_blacken
    faulted     \* whether the walk read what is not there

objectVars == <<graph, follow, root, queue, colour, blackened, faulted>>

NoType == "none"
Null == 0
MinusOne == -1      \* (void *) -1
Insane == -2        \* any value that cannot be an address
-----------------------------------------------------------------------------
\* Two addresses are one key of the maps if compar says so.
Key(a) == a % IntRange
treemap_get(map, k) == Key(k) \in map
treemap_set(map, k) == map \cup {Key(k)}

Extent(a) == a .. a + TypeNamed[graph.objects[a]].size - 1
Start(p) == IF \E a \in DOMAIN graph.objects : p \in Extent(a)
            THEN CHOOSE a \in DOMAIN graph.objects : p \in Extent(a) ELSE Null

\* follow_ptr: the default one leaves the pointer and its static type alone.
follow_ptr(p, t) ==
    IF follow = "static" THEN [obj |-> p, t |-> t]
    ELSE [obj |-> Start(p), t |-> IF Start(p) = Null THEN t ELSE graph.objects[Start(p)]]

\* UNIQTYPE_FOR_EACH_SUBOBJECT, as the walk uses it.
HasSubobjects(t) == TypeNamed[t].kind \in {"struct", "array"}

\* build_adjacency_list_recursive and visit_one_subobject: the nodes that the pointers
\* at and below type t at address a lead to.  Only structs are looked into further.
RECURSIVE build_adjacency_list(_, _)
visit_one_subobject(a, t) ==
    IF TypeNamed[t].kind = "pointer"
    THEN LET p == graph.slots[a]
             v == follow_ptr(p, TypeNamed[t].pointee)
         IN  IF p # Null /\ p # Insane /\ v.obj # Null THEN <<v>> ELSE <<>>
    ELSE IF TypeNamed[t].kind = "struct" THEN build_adjacency_list(a, t) ELSE <<>>
build_adjacency_list(a, t) ==
    IF ~HasSubobjects(t) THEN <<>>
    ELSE FlattenSeq([i \in DOMAIN TypeNamed[t].parts |->
           visit_one_subobject(a + TypeNamed[t].parts[i].off, TypeNamed[t].parts[i].type)])

\* A node that the list cannot be built for: no type, or no memory to read.
Readable(u) == u.t # NoType /\ (HasSubobjects(u.t) => Start(u.obj) # Null)

\* The adjacent nodes that are enqueued: the white ones, the first for each key.
Enqueued(adjacent, colours) ==
    FoldLeft(LAMBDA s, v :
               IF treemap_get(s.colours, v.obj) THEN s
               ELSE [colours |-> treemap_set(s.colours, v.obj), nodes |-> Append(s.nodes, v)],
             [colours |-> colours, nodes |-> <<>>], adjacent)
-----------------------------------------------------------------------------
\* __uniqtype_walk_bfs_from_object
walk_bfs_from_object(a, t) ==
    /\ root = Null /\ a # Null
    /\ "typed_roots" \in WalkContracts => t # NoType
    /\ root' = a
    /\ queue' = <<[obj |-> a, t |-> t]>>
    /\ UNCHANGED <<graph, follow, colour, blackened, faulted>>

\* One turn of process_bfs_queue_and_maps
process_bfs_queue ==
    /\ queue # <<>> /\ ~faulted
    /\ LET u == Head(queue)
       IN  IF ~Readable(u)
           THEN faulted' = TRUE /\ UNCHANGED <<queue, colour, blackened>>
           ELSE \E adjacent \in {build_adjacency_list(u.obj, u.t)} :
                \E e \in {Enqueued(adjacent, treemap_set(colour, u.obj))} :
                  /\ queue' = Tail(queue) \o e.nodes
                  /\ colour' = treemap_set(e.colours, u.obj)
                  /\ blackened' = Append(blackened, u.obj)
                  /\ UNCHANGED faulted
    /\ UNCHANGED <<graph, follow, root>>

\* All pointers in an object, however deep, as [at, pointee].
RECURSIVE Pointers(_, _)
Pointers(a, t) ==
    IF TypeNamed[t].kind = "pointer" THEN {[at |-> a, pointee |-> TypeNamed[t].pointee]}
    ELSE UNION {Pointers(a + TypeNamed[t].parts[i].off, TypeNamed[t].parts[i].type) :
                  i \in DOMAIN TypeNamed[t].parts}
ArraysOutermost(t) ==
    \A i \in DOMAIN TypeNamed[t].parts : TypeNamed[TypeNamed[t].parts[i].type].kind # "array"

GraphAllowed(g, f) ==
    LET objects == DOMAIN g.objects
        held == UNION {Pointers(a, g.objects[a]) : a \in objects}
    IN  /\ "addresses_close" \in WalkContracts =>
             \A a, b \in objects : a - b < IntRange \div 2
        /\ "arrays_outermost" \in WalkContracts => \A a \in objects : ArraysOutermost(g.objects[a])
        /\ "no_minus_one" \in WalkContracts => \A p \in held : g.slots[p.at] # MinusOne
        /\ "static_types_agree" \in WalkContracts =>
             (f = "static" => \A p \in held : g.slots[p.at] \notin {Null, Insane, MinusOne} =>
                g.slots[p.at] \in objects /\ g.objects[g.slots[p.at]] = p.pointee)

ObjectInit ==
    /\ graph \in Heaps
    /\ follow \in {"static", "precise"}
    /\ GraphAllowed(graph, follow)
    /\ root = Null /\ queue = <<>> /\ colour = {} /\ blackened = <<>> /\ faulted = FALSE
ObjectNext ==
    \/ process_bfs_queue
    \/ \E a \in DOMAIN graph.objects : \E t \in {graph.objects[a], NoType} :
         walk_bfs_from_object(a, t)
-----------------------------------------------------------------------------
\* The objects the walk is to see: all that pointers lead to, from the root on.
RECURSIVE Closure(_)
Closure(S) ==
    LET held == UNION {Pointers(a, graph.objects[a]) : a \in S}
        next == S \cup ({Start(graph.slots[p.at]) : p \in held} \ {Null})
    IN  IF next = S THEN S ELSE Closure(next)

=============================================================================
