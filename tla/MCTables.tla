------------------------------ MODULE MCTables ------------------------------
(***************************************************************************)
(* TLC instance for the tables the tools generate and the searches of      *)
(* them.  The parts share no state; a behaviour is about the part named by *)
(* focus.                                                                  *)
(***************************************************************************)
EXTENDS StaticSymbols, MetaVec, Subobjects, TypeRegistry, ObjectWalk, AllocWalk

VARIABLE focus

tablesVars ==
    <<focus, symbolVars, vecVars, subobjectVars, typeVars, objectVars, allocWalkVars>>

\* Two segments with up to three statics and a section of relocations each.
Static(lo, hi, kind, type) == [lo |-> lo, hi |-> hi, kind |-> kind, type |-> type]
To(a, how, dist, end) ==
    [value |-> 0, addend |-> a - dist, how |-> how, dist |-> dist, end |-> end, section |-> TRUE]
MCStatics ==
    {{Static(1, 3, k, "int"), Static(4, 5, k2, "char"), Static(11, 13, k3, "int")} :
       k \in Kinds, k2 \in Kinds, k3 \in Kinds}
    \cup {{Static(2, 4, "extrasym", "int")}, {}}
MCRelocs ==
    LET first == {<<To(2, "abs", 0, 6), To(3, "pc32", 4, 6)>>, <<To(5, "pc32", 4, 6)>>,
                  <<To(6, "pc32", 4, 8), To(3, "abs", 0, 5)>>, <<To(5, "pc32", 5, 8)>>,
                  <<[To(3, "abs", 0, 8) EXCEPT !.section = FALSE]>>, <<>>}
        second == {<<To(14, "abs", 0, 16), To(10, "abs", 0, 16)>>, <<To(13, "other", 4, 15)>>}
    IN  {<<[alloc |-> x, rela |-> r, entries |-> p], [alloc |-> TRUE, rela |-> TRUE, entries |-> q]>> :
           x \in BOOLEAN, r \in BOOLEAN, p \in first, q \in second}
MCObjectFiles ==
    {[segments |-> {[lo |-> 1, hi |-> 8], [lo |-> 10, hi |-> 16]}, statics |-> s, relocs |-> r,
      extra |-> x] : s \in MCStatics, r \in MCRelocs, x \in {1, 2}}

MCRawInputs == UNION {[1..n -> {0, 1, 2, 4, 7, 9, 12}] : n \in 1..3}

Base(n, size) ==
    [name |-> n, kind |-> "base", size |-> size, members |-> <<>>, len |-> 0, flexible |-> FALSE]
Struct(n, size, ms) == [Base(n, size) EXCEPT !.kind = "struct", !.members = ms]
Array(n, t, len) ==
    [Base(n, len * t.size) EXCEPT !.kind = "array", !.members = <<[off |-> 0, type |-> t]>>,
                                  !.len = len]
Memb(off, t) == [off |-> off, type |-> t]
char == Base("char", 1)
short == Base("short", 2)
empty == Struct("empty", 0, <<>>)
pair == Struct("pair", 4, <<Memb(0, char), Memb(1, char), Memb(2, short)>>)
padded == Struct("padded", 4, <<Memb(0, char), Memb(2, short)>>)
pairs == Array("pairs", pair, 2)
either == Struct("either", 4, <<Memb(0, padded), Memb(0, pair)>>)
uneven == Struct("uneven", 4, <<Memb(0, short), Memb(0, pair)>>)
nested == Struct("nested", 14, <<Memb(0, pairs), Memb(8, either), Memb(12, short)>>)
frame == Struct("frame", 6, <<Memb(1, pair), Memb(5, char)>>)
crossed == Struct("crossed", 5, <<Memb(0, pair), Memb(2, char), Memb(4, char)>>)
empties == Struct("empties", 2, <<Memb(0, Array("noes", empty, 3)), Memb(0, short)>>)
flexibles == [Array("flexibles", short, 4) EXCEPT !.flexible = TRUE]
MCObjectTypes ==
    {char, short, pair, padded, pairs, either, uneven, nested, frame, crossed, empties, flexibles}

\* Programs: three types whose names run together, one of them twice; with or without a
\* pointer type of their own.
Own(n) == Request("own", <<>>, n)
Typed(name, size, what, ultimate) ==
    [name |-> name, size |-> size, what |-> what, ultimate |-> ultimate]
Plain(name, size, id) == Typed(name, size, Own(id), NotMade)
MCPrograms ==
    LET few == <<Plain(<<"a">>, 1, 1), Plain(<<"a", "b">>, 2, 2)>>
    IN  {few \o <<Plain(<<"b", "a">>, 4, 3)>>,
         few \o <<Plain(<<"a", "b">>, 1, 4)>>,
         <<Plain(<<"a">>, 1, 1), Plain(<<"char">>, 1, 2),
           Typed(<<"PTR", "char">>, 2, Request("pointer", <<2>>, 0), 2)>>}
MCPredefined ==
    <<[lookup |-> <<"char">>, type |-> Plain(<<"char">>, 1, 5)],
      [lookup |-> <<"PTR", "char">>,
       type |-> Typed(<<"PTR", "char">>, 2, Request("pointer", << <<"char">> >>, 0), NotMade)]>>

\* Memories of two nodes, a vector of two pointers and a node far away.
Kind(k, size, parts, pointee) == [kind |-> k, size |-> size, parts |-> parts, pointee |-> pointee]
Part(off, t) == [off |-> off, type |-> t]
MCTypeNamed ==
    [void |-> Kind("void", 1, <<>>, "none"),
     pnode |-> Kind("pointer", 1, <<>>, "node"),
     pvoid |-> Kind("pointer", 1, <<>>, "void"),
     inner |-> Kind("struct", 1, <<Part(0, "pvoid")>>, "none"),
     node |-> Kind("struct", 2, <<Part(0, "pnode"), Part(1, "inner")>>, "none"),
     vec |-> Kind("array", 2, <<Part(0, "pnode"), Part(1, "pnode")>>, "none"),
     holder |-> Kind("struct", 2, <<Part(0, "vec")>>, "none")]
MCHeaps ==
    {[objects |-> (16 :> "node" @@ 20 :> b @@ 24 :> "vec" @@ far :> "node"),
      slots |-> (16 :> s1 @@ 17 :> s2 @@ 20 :> s3 @@ 21 :> 0 @@ 24 :> s4 @@ 25 :> 20
                 @@ far :> 0 @@ (far + 1) :> s5)] :
       b \in {"node", "holder"}, far \in {28, 80}, s1 \in {0, 16, 20}, s2 \in {0, -1, -2, 24, 21},
       s3 \in {0, 16, 80}, s4 \in {0, 16, 28}, s5 \in {0, 24}}

\* Trees: a bigalloc of five chunks at most, of which one may be promoted, with a child
\* imposed on it or not.
TreeNode(id, kind, parent, begin, end) ==
    [id |-> id, kind |-> kind, parent |-> parent, begin |-> begin, end |-> end, by |-> 1, sub |-> 1,
     typed |-> kind # "chunk", wanted |-> FALSE, may |-> TRUE]
With(n, wanted, may) == [n EXCEPT !.wanted = wanted, !.may = may]
MCTrees ==
    LET top(sub) == [TreeNode(1, "big", 0, 0, 16) EXCEPT !.sub = sub]
        plain(w) == With([TreeNode(2, "chunk", 1, 0, 4) EXCEPT !.typed = TRUE], w, TRUE)
        parts(w) == {With(TreeNode(3, "part", 2, 0, 2), w, TRUE), TreeNode(4, "part", 2, 2, 4)}
        promoted(typed, may) == {With([TreeNode(5, "chunk", 1, 4, 8) EXCEPT !.typed = typed], FALSE, may),
                                 [TreeNode(6, "big", 1, 4, 8) EXCEPT !.sub = 2],
                                 TreeNode(7, "part", 5, 4, 6)}
        inside(w) == {With(TreeNode(8, "chunk", 6, 4, 5), w, TRUE), TreeNode(9, "chunk", 6, 6, 8)}
        imposed == {[TreeNode(10, "big", 1, 8, 12) EXCEPT !.by = 3]}
        rest == {TreeNode(11, "chunk", 1, 12, 14)}
    IN  {{top(sub), plain(w1)} \cup parts(w2) \cup promoted(t, may) \cup inside(w3) \cup i \cup rest :
           sub \in {0, 1}, w1 \in BOOLEAN, w2 \in BOOLEAN, t \in BOOLEAN, may \in BOOLEAN,
           w3 \in BOOLEAN, i \in {{}, imposed}}

FirstFile == CHOOSE f \in AllowedFiles : TRUE
FirstHeap == CHOOSE h \in Heaps : GraphAllowed(h, "precise")
FirstTree == CHOOSE t \in AllowedTrees : TRUE
FirstProgram == CHOOSE p \in Programs : TRUE
Parts == {"symbols", "metavec", "subobjects", "types", "objects", "allocations"}
Chosen(part, all, first) == IF focus = part THEN all ELSE {first}
Init ==
    /\ focus \in Parts
    /\ VecInit
    /\ focus # "metavec" => raw = <<0>> /\ base = 8
    /\ file \in Chosen("symbols", AllowedFiles, FirstFile)
    /\ subject \in Chosen("subobjects", ObjectTypes, char)
    /\ made \in Chosen("types", Programs, FirstProgram)
    /\ graph \in Chosen("objects", Heaps, FirstHeap)
    /\ follow \in Chosen("objects", {"static", "precise"}, "precise")
    /\ tree \in Chosen("allocations", AllowedTrees, FirstTree)
    /\ SymbolInit /\ SubobjectInit /\ TypeInit /\ ObjectInit /\ AllocWalkInit
Part1 == <<symbolVars, vecVars, subobjectVars>>
Part2 == <<typeVars, objectVars, allocWalkVars>>
Next ==
    /\ UNCHANGED focus
    /\ \/ focus = "symbols" /\ SymbolNext /\ UNCHANGED <<vecVars, subobjectVars, Part2>>
       \/ focus = "metavec" /\ VecNext /\ UNCHANGED <<symbolVars, subobjectVars, Part2>>
       \/ focus = "subobjects" /\ SubobjectNext /\ UNCHANGED <<symbolVars, vecVars, Part2>>
       \/ focus = "types" /\ TypeNext /\ UNCHANGED <<objectVars, allocWalkVars, Part1>>
       \/ focus = "objects" /\ ObjectNext /\ UNCHANGED <<typeVars, allocWalkVars, Part1>>
       \/ focus = "allocations" /\ AllocWalkNext /\ UNCHANGED <<typeVars, objectVars, Part1>>
TablesSpec == Init /\ [][Next]_tablesVars
=============================================================================
