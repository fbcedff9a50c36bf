------------------------------ MODULE MCHeaps ------------------------------
(***************************************************************************)
(* TLC instance for the heaps of the program and of liballocs other than   *)
(* the one that MallocIndex is about: the patching of ld.so, the index of  *)
(* its malloc, liballocs's private malloc, the allocation wrappers, the    *)
(* small-object index, and the sites and types that chunks record.  These  *)
(* share no state; a behaviour is about the part named by focus.           *)
(***************************************************************************)
EXTENDS Detours, LinearMalloc, PrivateMalloc, AllocWrappers, GenericSmall, MallocInsert

CONSTANTS a, b      \* two files
VARIABLE focus

heapVars == <<focus, detourVars, linearVars, privateVars, wrapperVars, smallVars, insertVars>>

\* A function of instructions of the lengths given.
Code(name, start, ends, kinds, targets) ==
    [name |-> name, at |-> start, ends |-> ends, kinds |-> kinds, targets |-> targets]
PlainTail(name, start, ends) ==
    Code(name, start, ends,
         [k \in DOMAIN ends |-> IF k = Len(ends) THEN "ret" ELSE "plain"],
         [k \in DOMAIN ends |-> 0])
Referring(name, start, target) ==
    Code(name, start, <<1, 5, 7, 8>>, <<"plain", "pcrel", "plain", "ret">>,
         <<0, target, 0, 0>>)
MCPrograms ==
    {<<PlainTail("_dl_debug_state", d, <<1>>), PlainTail("__minimal_malloc", m, e),
       Referring("__minimal_free", 28, target)>> :
         d \in {0, 6, 8}, m \in {9, 12, 18, 20},
         e \in {<<1, 2, 4, 7, 8>>, <<3, 5, 6>>, <<4, 8>>, <<2, 4>>}, target \in {0, 12, 22, 28, 30, 33}}
MCCodeLimit == 36
MCBufLimit == 64

MCRegions == {<<2, 8>>, <<16, 24>>, <<32, 40>>}
MCLdSoFile == [lo |-> 8, hi |-> 16, file |-> 12]

\* The types of two files' sites share parts with the places of the files; each
\* file's third site has none.
MCVectorType(f, i) ==
    IF i = 2 THEN NoType ELSE [mid |-> IF f = b THEN i ELSE 2 - i, top |-> 1 + i]
MCTypes == [mid : 0..2, top : 0..1] \ {[mid |-> 0, top |-> 0]}
MCNotReading == [low |-> 0, mid |-> 0, top |-> 0]

HeapsInit ==
    /\ focus \in {"detours", "linear", "private", "wrappers", "small", "types"}
    /\ DetoursInit /\ LinearInit /\ PrivateInit /\ WrappersInit /\ SmallInit /\ InsertInit
    /\ focus # "detours" => program = CHOOSE p \in Programs : Accepted(p)
HeapsNext ==
    \/ /\ focus = "detours" /\ DetoursNext
       /\ UNCHANGED <<focus, linearVars, privateVars, wrapperVars, smallVars, insertVars>>
    \/ /\ focus = "linear" /\ LinearNext
       /\ UNCHANGED <<focus, detourVars, privateVars, wrapperVars, smallVars, insertVars>>
    \/ /\ focus = "private" /\ PrivateNext
       /\ UNCHANGED <<focus, detourVars, linearVars, wrapperVars, smallVars, insertVars>>
    \/ /\ focus = "wrappers" /\ WrappersNext
       /\ UNCHANGED <<focus, detourVars, linearVars, privateVars, smallVars, insertVars>>
    \/ /\ focus = "small" /\ SmallNext
       /\ UNCHANGED <<focus, detourVars, linearVars, privateVars, wrapperVars, insertVars>>
    \/ /\ focus = "types" /\ InsertNext
       /\ UNCHANGED <<focus, detourVars, linearVars, privateVars, wrapperVars, smallVars>>
HeapsSpec == HeapsInit /\ [][HeapsNext]_heapVars
=============================================================================
