--------------------------- MODULE StaticSymbols ---------------------------
(***************************************************************************)
(* Static objects. The tools that describe those of a file:                *)
(* tools/extrasyms.cpp writes a symbol table for what the file's own       *)
(* tables lack, and tools/metavector.cpp writes, for each segment, the     *)
(* vector of its objects in address order. An object is described by a     *)
(* symbol or, when none covers it, by being the target of a relocation. At *)
(* run time (src/allocators/static-symbol.c, with the set-up in static-    *)
(* segment.c) a file is loaded, with or without its meta-object, its       *)
(* segments are given the vectors the tools wrote, and queries about       *)
(* addresses of its segments search them.                                  *)
(*                                                                         *)
(* A file is a record of its segments [lo, hi], its sanely described       *)
(* statics [lo, hi, kind, type] (disjoint; the kind says which symbol      *)
(* table has them), the place extra where the analysis of its debugging    *)
(* information puts the first of the extra symbols, and its relocation     *)
(* sections.  Those have alloc, rela and entries [value, addend, how,      *)
(* dist, end, section]: the symbol's value, the addend, whether it is      *)
(* PC-relative, how far ahead of the place the processor counts from, the  *)
(* end of the target's section and if the symbol stands for a section.     *)
(***************************************************************************)
EXTENDS Integers, Sequences, FiniteSets, SequencesExt

Kinds == {"dynsym", "symtab", "extrasym"}
-----------------------------------------------------------------------------
\* The statics of a kind in address order, and the place of one among them.
OfKind(file, k) == SetToSortSeq({s \in file.statics : s.kind = k}, LAMBDA x, y : x.lo < y.lo)
PlaceOf(file, s) == Cardinality({t \in file.statics : t.kind = s.kind /\ t.lo <= s.lo})

\* The symbol tables of the file, and the one extrasyms.cpp writes.  Reading
\* beyond a table gives some other bytes, here an empty symbol.
NoSymbol == [value |-> 0, size |-> 0]
SymbolsOf(seq) == [n \in DOMAIN seq |-> [value |-> seq[n].lo, size |-> seq[n].hi - seq[n].lo]]
extrasyms(file) == [n \in 1..(file.extra - 1) |-> NoSymbol] \o SymbolsOf(OfKind(file, "extrasym"))
Symtab(file, k) == IF k = "extrasym" THEN extrasyms(file) ELSE SymbolsOf(OfKind(file, k))
SymbolAt(file, k, idx) ==
    IF idx \in DOMAIN Symtab(file, k) THEN Symtab(file, k)[idx] ELSE NoSymbol
-----------------------------------------------------------------------------
\* How much further the logical target is than the sum of value and addend.
PcAdjustment == 4
reloc_distance_to_logical_target(how) == IF how = "pc32" THEN PcAdjustment ELSE 0

\* The targets of a section's entries, in order: only of sections of the
\* program proper, and of symbols that stand for a section.
scan_reloc_target_addr_end_pairs(sec) ==
    IF ~sec.alloc THEN <<>>
    ELSE LET wanted == SelectSeq(sec.entries, LAMBDA e : e.section)
         IN  [n \in DOMAIN wanted |->
                wanted[n].value + (IF sec.rela THEN wanted[n].addend ELSE 0)
                  + reloc_distance_to_logical_target(wanted[n].how)]

Covers(s, a) == s.lo <= a /\ a < s.hi

\* The targets that no static overlaps become records, unless there is one.
\* The lengths computed here are not used.
add_sane_reloc_intervals_Any(statics, targets, recs) ==
    recs \cup {[vaddr |-> a, kind |-> "reloc", idx |-> 0, type |-> "byte"] :
                 a \in {t \in ToSet(targets) : \A r \in recs : r.vaddr # t}}
add_sane_reloc_intervals(statics, targets, recs) ==
    recs \cup {[vaddr |-> a, kind |-> "reloc", idx |-> 0, type |-> "byte"] :
                 a \in {t \in ToSet(targets) : /\ \A s \in statics : ~Covers(s, t)
                                               /\ \A r \in recs : r.vaddr # t}}

\* The records of the whole file: extra symbols (their index counted here, "we
\* hope this stays in sync"), other symbols, then each section's targets.
generate_recs(file) ==
    LET symbols == {[vaddr |-> s.lo, kind |-> s.kind, type |-> s.type,
                     idx |-> IF s.kind = "extrasym" THEN 1 + PlaceOf(file, s)
                             ELSE PlaceOf(file, s)] : s \in file.statics}
        after[n \in 0..Len(file.relocs)] ==
          IF n = 0 THEN symbols
          ELSE add_sane_reloc_intervals(file.statics,
                 scan_reloc_target_addr_end_pairs(file.relocs[n]), after[n - 1])
    IN  after[Len(file.relocs)]

\* One segment's records in address order.  A relocation target reaches to the
\* next record of the file, or from the last record to the end of the segment.
output_one_segment_metavec(recs, seg) ==
    LET mine == SetToSortSeq({r \in recs : seg.lo <= r.vaddr /\ r.vaddr < seg.hi},
                             LAMBDA x, y : x.vaddr < y.vaddr)
        later(r) == {q.vaddr : q \in {q \in recs : q.vaddr > r.vaddr}}
        size(r) == (IF later(r) = {} THEN seg.hi
                    ELSE CHOOSE v \in later(r) : \A w \in later(r) : v <= w) - r.vaddr
    IN  [n \in DOMAIN mine |->
           IF mine[n].kind = "reloc"
           THEN [kind |-> "reloc", vaddr |-> mine[n].vaddr, size |-> size(mine[n])]
           ELSE [kind |-> mine[n].kind, idx |-> mine[n].idx, type |-> mine[n].type]]

\* What the tool writes: a vector per segment, named by the segment's address.
Metavectors(file) ==
    LET recs == generate_recs(file)
    IN  [base \in {seg.lo : seg \in file.segments} |->
           output_one_segment_metavec(recs, CHOOSE seg \in file.segments : seg.lo = base)]
-----------------------------------------------------------------------------

CONSTANTS
    ObjectFiles,
    SymbolContracts

ASSUME SymbolAssumption ==
    SymbolContracts \subseteq {"extrasyms_in_sync", "rela_sections", "distances_known",
                               "sections_adjoin", "not_past_end", "reloc_sizes_unasked",
                               "names_unasked"}

VARIABLES
    file,
    segments,   \* metavector of each segment set up, by address
    found       \* the last query's answer, and the right one

symbolVars == <<file, segments, found>>

NotAsked == [got |-> <<>>, wanted |-> <<>>]
Questions == {"type", "size"} \cup (IF "names_unasked" \in SymbolContracts THEN {} ELSE {"name"})
-----------------------------------------------------------------------------
\* The objects as the program has them: the statics, and the places relocations
\* refer to, each up to the next object, the end of its section or its segment.
RealTarget(e) == e.value + e.addend + e.dist
RealTargets(f) ==
    {e \in UNION {ToSet(f.relocs[n].entries) :
                    n \in {k \in DOMAIN f.relocs : f.relocs[k].alloc}} :
       e.section /\ \A s \in f.statics : ~Covers(s, RealTarget(e))}
Limit(f, e, seg) ==
    LET starts == {s.lo : s \in f.statics} \cup {RealTarget(d) : d \in RealTargets(f)}
    IN  CHOOSE v \in starts \cup {e.end, seg.hi} :
          /\ v > RealTarget(e)
          /\ \A w \in starts \cup {e.end, seg.hi} : w > RealTarget(e) => v <= w
RealObjects(f, seg) ==
    {[base |-> s.lo, size |-> s.hi - s.lo, type |-> s.type] :
       s \in {s \in f.statics : seg.lo <= s.lo /\ s.lo < seg.hi}}
    \cup {[base |-> RealTarget(e), size |-> Limit(f, e, seg) - RealTarget(e), type |-> "byte"] :
            e \in {e \in RealTargets(f) : seg.lo <= RealTarget(e) /\ RealTarget(e) < seg.hi}}
ObjectAt(f, seg, a) == {o \in RealObjects(f, seg) : o.base <= a /\ a < o.base + o.size}

\* What is assumed of the files.
FileAllowed(f) ==
    /\ "extrasyms_in_sync" \in SymbolContracts =>
         \A s \in f.statics : s.kind = "extrasym" => f.extra = 2
    /\ "rela_sections" \in SymbolContracts => \A n \in DOMAIN f.relocs : f.relocs[n].rela
    /\ "distances_known" \in SymbolContracts =>
         \A n \in DOMAIN f.relocs : \A e \in ToSet(f.relocs[n].entries) :
           e.dist = reloc_distance_to_logical_target(e.how)
-----------------------------------------------------------------------------
vaddr_from_rec(r) == IF r.kind = "reloc" THEN r.vaddr ELSE SymbolAt(file, r.kind, r.idx).value
SizeOf(r) == IF r.kind = "reloc" THEN r.size ELSE SymbolAt(file, r.kind, r.idx).size

\* do_lookup: the last record at or below the address, as a set of at most one.
do_lookup(seg, a) ==
    LET vec == segments[seg.lo]
        leq == {n \in DOMAIN vec : vaddr_from_rec(vec[n]) <= a}
    IN  {vec[n] : n \in {n \in leq : /\ \A k \in leq : k <= n
                                     /\ a <= vaddr_from_rec(vec[n]) + SizeOf(vec[n])}}

\* get_info, for the base and type or for the size.
get_info_symbol(seg, a, what) ==
    LET r == CHOOSE r \in do_lookup(seg, a) : TRUE
    IN  IF do_lookup(seg, a) = {} THEN <<>>
        ELSE IF what = "type"
        THEN <<vaddr_from_rec(r), IF r.kind = "reloc" THEN "byte" ELSE r.type>>
        ELSE <<IF r.kind = "reloc" THEN vaddr_from_rec(r) + r.size ELSE SizeOf(r)>>

\* get_name names the record by its table and place.  It looks up the object with
\* no segment given, that is, through the entry of big_allocations that has the
\* page's number: whatever that is, or none.
get_name(seg, a) == {<<r>> : r \in do_lookup(seg, a)} \cup {<<>>}

Answers(seg, a, what) == IF what = "name" THEN get_name(seg, a) ELSE {get_info_symbol(seg, a, what)}
Wanted(seg, a, what) ==
    LET o == CHOOSE o \in ObjectAt(file, seg, a) : TRUE
    IN  IF ObjectAt(file, seg, a) = {} THEN <<>>
        ELSE IF what = "name" THEN <<CHOOSE r \in do_lookup(seg, a) : TRUE>>
        ELSE IF what = "type" THEN <<o.base, o.type>> ELSE <<o.size>>
-----------------------------------------------------------------------------
\* A segment's definition fetches the vector named after its address from the
\* meta-object, if that was found.
setup_metavector(seg, meta) ==
    /\ seg.lo \notin DOMAIN segments
    /\ segments' = [b \in DOMAIN segments \cup {seg.lo} |->
                      IF b # seg.lo THEN segments[b]
                      ELSE IF meta THEN Metavectors(file)[b] ELSE <<>>]
    /\ UNCHANGED <<file, found>>

query(seg, a, what) ==
    /\ seg.lo \in DOMAIN segments /\ segments[seg.lo] # <<>>
    /\ "not_past_end" \in SymbolContracts =>
         \/ ObjectAt(file, seg, a) # {}
         \/ \A o \in RealObjects(file, seg) : o.base + o.size # a
    /\ "sections_adjoin" \in SymbolContracts =>
         \/ ObjectAt(file, seg, a) # {}
         \/ \A e \in RealTargets(file) : RealTarget(e) \in seg.lo..a => a < e.end
    /\ what = "size" /\ "reloc_sizes_unasked" \in SymbolContracts =>
         \A o \in ObjectAt(file, seg, a) : o.type # "byte"
    /\ \E got \in Answers(seg, a, what) : found' = [got |-> got, wanted |-> Wanted(seg, a, what)]
    /\ UNCHANGED <<file, segments>>

AllowedFiles == {f \in ObjectFiles : FileAllowed(f)}
SymbolInit == file \in AllowedFiles /\ segments = <<>> /\ found = NotAsked
SymbolNext ==
    \E seg \in file.segments :
      \/ \E meta \in BOOLEAN : setup_metavector(seg, meta)
      \/ \E a \in seg.lo..(seg.hi - 1), what \in Questions : query(seg, a, what)
-----------------------------------------------------------------------------
\* A query about an address of a segment whose file has its meta-object gives
\* the object there (its base and type, or its size), be it described
\* by the file's symbols, by the extra symbols or only by relocations, and an
\* address of no object is not recognised.
StaticsFound == found.got = found.wanted
=============================================================================
