------------------------------ MODULE MCFrames ------------------------------
(***************************************************************************)
(* TLC instance for what lives on stacks, for packed sequences and for the *)
(* cache that queries go through: alloca, queries by unwinding, the        *)
(* decoding of sequences such as string tables, and the cache beside the   *)
(* allocations it is about.  They share no state; a behaviour is about the *)
(* part named by focus.                                                    *)
(*                                                                         *)
(* The cache has three slots, so that an entry may leave from the middle   *)
(* of the list, and two chunks, each cached at either depth, so that       *)
(* entries are evicted.                                                    *)
(***************************************************************************)
EXTENDS AllocaArenas, StackQuery, PackedSeq, MemRangeCache

VARIABLE focus

framesVars == <<focus, allocaVars, stackVars, packedVars, cacheVars>>

Everywhere(how, off) == [all |-> TRUE, lo |-> 0, hi |-> 0, how |-> how, off |-> off]
Over(lo, hi, how, off) == [all |-> FALSE, lo |-> lo, hi |-> hi, how |-> how, off |-> off]
Variable(n, size, complete, locs) ==
    [var |-> n, size |-> size, complete |-> complete, locs |-> locs]

\* A function with locals, and one with an argument on the stack, locals that
\* come and go, and a variable that moves between a register and the stack.
MCPrograms ==
    {{[lo |-> 0, hi |-> 3,
       vars |-> {Variable(1, 1, TRUE, {Everywhere("stack", -3)}),
                 Variable(2, 2, TRUE, {Everywhere("stack", -2)}),
                 Variable(3, 1, FALSE, {Everywhere("stack", -5)})}],
      [lo |-> 3, hi |-> 10,
       vars |-> {Variable(1, 1, TRUE, {Over(4, 6, "stack", -1)}),
                 Variable(2, w, TRUE, {Over(4, 6, "register", -4), Over(6, 8, "stack", arg)}),
                 Variable(3, v, TRUE, {Over(4, 8, "stack", -2)}),
                 Variable(4, 1, TRUE, {Everywhere("static", -6)})}]} :
        v \in {1, 3}, w \in {1, 2}, arg \in {0, 1}}

SizesAndTypes == {[size |-> s, type |-> t] : s \in {1, 2, 3}, t \in {1, 2}}
MCSequences == UNION {[1..n -> SizesAndTypes] : n \in 1..3}
                 \cup {[k \in 1..5 |-> [size |-> IF k = z THEN 4 ELSE 1, type |-> 1]] : z \in 1..5}
MCFamilies == {[align |-> 1, vector |-> FALSE], [align |-> 1, vector |-> TRUE],
               [align |-> 2, vector |-> TRUE]}

MCMappings == {<<0, 3>>}
MCPlaces == {<<0, 2>>, <<2, 3>>}

FirstProgram == CHOOSE p \in Programs : TRUE
FirstSequence == CHOOSE c \in Sequences_ : Len(c) = 1 /\ c[1].type = 1 /\ c[1].size = 1
FirstFamily == CHOOSE f \in Families : f.vector
Init ==
    /\ focus \in {"alloca", "stack", "packed", "cache"}
    /\ AllocaInit /\ StackInit /\ PackedInit /\ CacheInit
    /\ focus # "stack" => program = FirstProgram
    /\ focus # "packed" => content = FirstSequence /\ fam = FirstFamily
Next ==
    \/ /\ focus = "alloca" /\ AllocaNext /\ UNCHANGED <<focus, stackVars, packedVars, cacheVars>>
    \/ /\ focus = "stack" /\ StackNext /\ UNCHANGED <<focus, allocaVars, packedVars, cacheVars>>
    \/ /\ focus = "packed" /\ PackedNext /\ UNCHANGED <<focus, allocaVars, stackVars, cacheVars>>
    \/ /\ focus = "cache" /\ CacheNext /\ UNCHANGED <<focus, allocaVars, stackVars, packedVars>>
FramesSpec == Init /\ [][Next]_framesVars
=============================================================================
