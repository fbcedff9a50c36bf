----------------------------- MODULE AllocWalk ------------------------------
(***************************************************************************)
(* The depth-first walk of allocations (src/walk.c): the chunks of a       *)
(* bigalloc's suballocator, what is below a chunk that is a bigalloc       *)
(* itself, and the subobjects of the others' types; and the two callbacks  *)
(* that look for references and for environment entries.                   *)
(*                                                                         *)
(* A tree is a set of nodes.  A "chunk" is an allocation of the            *)
(* suballocator of the bigalloc that is its parent, a "part" a subobject   *)
(* of a typed chunk or part, a "big" a child bigalloc.  A chunk promoted   *)
(* to a bigalloc has both nodes, at one address under one parent.          *)
(***************************************************************************)
EXTENDS Integers, Sequences, FiniteSets, SequencesExt

CONSTANTS
    Trees,
    Top,                \* the id of the bigalloc a walk starts from
    DescentContracts

ASSUME DescentAssumption ==
    DescentContracts \subseteq {"imposed_unasked", "have_suballocator", "promoted_typed"}

VARIABLES
    tree,       \* nodes [id, kind, parent, begin, end, by, sub, typed, wanted, may]
    descent     \* the walk done: [client, stop, imposed, calls, ret, crashed], or NoWalk

allocWalkVars == <<tree, descent>>

NoWalk == [client |-> "none", stop |-> 0, imposed |-> FALSE, calls |-> <<>>, ret |-> 0,
           crashed |-> FALSE]
None == 0
Node(i) == CHOOSE n \in tree : n.id = i
Under(i, kind) == {n \in tree : n.parent = i /\ n.kind = kind}
Ordered(S) == SetToSortSeq(S, LAMBDA m, n : m.begin < n.begin)
-----------------------------------------------------------------------------
\* __liballocs_walk_refs_cb and __liballocs_walk_environ_cb: a reference (an entry) is
\* passed on and not looked into; -1 skips what is below, any other value ends the walk.
ClientReturns(client, stop, n) ==
    IF n.wanted THEN (IF n.id = stop THEN 1 ELSE -1)
    ELSE IF client = "refs" /\ ~n.may THEN -1 ELSE 0

\* The bigalloc that a chunk of bigalloc b turns out to be.
BigallocAt_Never(b, n) == None
BigallocAt(b, n) ==
    LET same == {c \in Under(b, "big") : n.typed /\ n.kind = "chunk" /\ c.begin = n.begin}
    IN  IF same = {} THEN None ELSE (CHOOSE c \in same : TRUE).id

\* One walk.  s is [calls, ret, crashed]; w names the client and where it stops.
RECURSIVE walk_allocations(_, _, _, _)
walk_one_df_cb(w, n, the, s) ==
    LET big == IF the # None THEN the ELSE BigallocAt(n.parent, n)
        ret == ClientReturns(w.client, w.stop, n)
        t == [s EXCEPT !.calls = Append(@, n.id)]
    IN  IF ret = -1 THEN t
        ELSE IF ret # 0 THEN [t EXCEPT !.ret = ret]
        ELSE IF big = None /\ ~n.typed THEN t
        ELSE walk_allocations(w, IF big # None THEN big ELSE n.id, FALSE, t)

CallEach(w, nodes, s) ==
    FoldLeft(LAMBDA t, n : IF t.ret # 0 \/ t.crashed THEN t ELSE walk_one_df_cb(w, n, None, t), s, nodes)

\* The suballocator's walk of the chunks in a range; there is none to call if b has none.
SubWalk(w, b, lo, hi, s) ==
    IF s.ret # 0 \/ s.crashed THEN s
    ELSE IF b.sub = None THEN [s EXCEPT !.crashed = TRUE]
    ELSE CallEach(w, Ordered({n \in Under(b.id, "chunk") : n.begin \in lo .. hi - 1}), s)

\* The loop over imposed children.  The range walked up to moves past every child, also
\* those that are skipped; the callback is given b, not the child.
ImposedLoop(w, b, s) ==
    FoldLeft(LAMBDA x, c :
               LET imposed == c.end > x.upto /\ (b.sub = None \/ c.by # b.sub)
                   walked == SubWalk(w, b, x.upto, c.begin, x.s)
               IN  [upto |-> c.end,
                    s |-> IF ~imposed THEN x.s
                          ELSE IF walked.ret # 0 \/ walked.crashed THEN walked
                          ELSE walk_one_df_cb(w, b, b.id, walked)],
             [upto |-> b.begin, s |-> s], Ordered(Under(b.id, "big")))

walk_allocations(w, i, imposed, s) ==
    LET n == Node(i)
    IN  IF n.kind = "big"
        THEN LET x == IF imposed THEN ImposedLoop(w, n, s) ELSE [upto |-> n.begin, s |-> s]
             IN  SubWalk(w, n, x.upto, n.end, x.s)
        ELSE CallEach(w, Ordered(Under(i, "part")), s)
-----------------------------------------------------------------------------
\* __liballocs_walk_allocations_df
walk_allocations_df(client, stop, imposed) ==
    /\ descent = NoWalk
    /\ "imposed_unasked" \in DescentContracts => ~imposed
    /\ \E s \in {walk_allocations([client |-> client, stop |-> stop], Top, imposed,
                                  [calls |-> <<>>, ret |-> 0, crashed |-> FALSE])} :
           descent' = [client |-> client, stop |-> stop, imposed |-> imposed, calls |-> s.calls,
                    ret |-> s.ret, crashed |-> s.crashed]
    /\ UNCHANGED tree

TreeAllowed(nodes) ==
    /\ "have_suballocator" \in DescentContracts => \A n \in nodes : n.kind = "big" => n.sub # None
    /\ "promoted_typed" \in DescentContracts =>
         \A n, c \in nodes : n.kind = "chunk" /\ c.kind = "big" /\ n.begin = c.begin
                               /\ n.parent = c.parent => n.typed

AllowedTrees == {t \in Trees : TreeAllowed(t)}
AllocWalkInit ==
    /\ tree \in AllowedTrees
    /\ descent = NoWalk
AllocWalkNext ==
    \E client \in {"refs", "environ"}, stop \in {n.id : n \in tree} \cup {None}, imposed \in BOOLEAN :
      walk_allocations_df(client, stop, imposed)
-----------------------------------------------------------------------------
\* The allocation a node is found in: for what is under a promoted chunk, that chunk.
Holder(n) ==
    LET p == Node(n.parent)
        chunks == {c \in Under(p.parent, "chunk") : c.begin = p.begin}
    IN  IF p.kind = "big" /\ chunks # {} THEN (CHOOSE c \in chunks : TRUE).id ELSE p.id
RECURSIVE Ancestors(_)
Ancestors(n) == IF Holder(n) = Top THEN {} ELSE {Holder(n)} \cup Ancestors(Node(Holder(n)))

\* A chunk that is a bigalloc is seen through the bigalloc, not through its type.
Promoted(i) == Node(i).kind = "chunk" /\ \E c \in tree : c.kind = "big" /\ c.by # None
                  /\ c.parent = Node(i).parent /\ c.begin = Node(i).begin
Visible(n) ==
    /\ n.kind # "big"
    /\ n.kind = "part" => ~Promoted(n.parent)
    /\ \A a \in Ancestors(n) : ClientReturns(descent.client, None, Node(a)) = 0
    /\ \A a \in Ancestors(n) : Node(a).kind = "part" => ~Promoted(Node(a).parent)

\* A depth-first walk calls back once for every allocation below the one it started
\* from, save those below one the client skipped: an allocation before what is in it,
\* and in the order of their addresses.  A client that ends the walk hears no more.
WalkIsPreorder ==
    descent # NoWalk =>
      /\ ~descent.crashed
      /\ LET seen == ToSet(descent.calls)
             due == {n.id : n \in {m \in tree : m.id # Top /\ Visible(m)}}
         IN  /\ Len(descent.calls) = Cardinality(seen)
             /\ IF descent.ret = 0 THEN seen = due
                ELSE seen \subseteq due /\ Last(descent.calls) = descent.stop
             /\ descent.stop \in due /\ Node(descent.stop).wanted => descent.ret # 0
             /\ \A i, j \in 1..Len(descent.calls) : i < j =>
                  LET m == Node(descent.calls[i])
                      n == Node(descent.calls[j])
                  IN  m.id \in Ancestors(n) \/ m.begin <= n.begin
=============================================================================
