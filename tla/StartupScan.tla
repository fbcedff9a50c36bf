----------------------------- MODULE StartupScan -----------------------------
(***************************************************************************)
(* How the mmap allocator learns, when it starts, of what is mapped        *)
(* already (__mmap_allocator_init and what it calls, in                    *)
(* src/allocators/mmap.c): it fills the holes between the executable's     *)
(* segments, reads /proc/<pid>/maps once, gathers its lines into mapping   *)
(* sequences, and records each as a big allocation unless it is known.     *)
(* One allocation is known before the scan: the private heap that          *)
(* __pageindex_init has mapped (create_private_nommap_malloc_heap).        *)
(*                                                                         *)
(* An address is a page number; children of an allocation are left out.    *)
(* image says what each page held before the allocator started.            *)
(***************************************************************************)
EXTENDS MappingSequence

CONSTANTS NPages,
          BiggestSane,      \* BIGGEST_SANE_USER_ALLOC, in pages
          ScanContracts

ASSUME ScanContractsAssumption ==
    ScanContracts \subseteq {"holes_empty", "segments_apart", "sequence_room",
                             "classifiable", "heap_unmerged", "nothing_follows_heap",
                             "heap_outside_files", "sane_lines"}

Page == 1..NPages
Interval == {i \in [lo : Page, hi : 2..(NPages + 1)] : i.lo < i.hi}
PagesIn(i) == i.lo..(i.hi - 1)

\* What a line of the maps file may say: the rest of an "odd" one begins with
\* none of the characters that extend_current knows.
Kinds == {"free", "anon", "none", "exe", "lib", "stack", "brk"}
           \cup (IF "classifiable" \in ScanContracts THEN {} ELSE {"odd"})
FileOf(kind) ==
    CASE kind = "exe" -> "/exe" [] kind = "lib" -> "/lib" [] kind = "stack" -> "[stack]"
      [] OTHER -> NoFile
ProtOf(kind) == IF kind = "none" THEN "none" ELSE "rw"

VARIABLES image,        \* the pages, the private heap, the executable's segments
          kernel, bigallocs,
          lines,        \* the lines still to be processed
          current,      \* the sequence they are gathered in
          phase,
          aborted

svars == <<image, kernel, bigallocs, lines, current, phase, aborted>>
-----------------------------------------------------------------------------
(***************************************************************************)
(* What the kernel may have set up.  The executable has one segment or     *)
(* two; a segment is of the executable's file and may end in bss, which is *)
(* anonymous or, when the heap of the break abuts it, labelled as that.    *)
(***************************************************************************)
OneRun(pages, kind) ==
    LET P == {p \in Page : pages[p] = kind}
    IN  P = {} \/ P = Min(P)..Max(P)

IsSegment(pages, s) ==
    /\ pages[s.lo] = "exe"
    /\ \A p \in PagesIn(s) : pages[p] \in {"exe", "anon", "brk"}
    /\ \A p, q \in PagesIn(s) : p < q =>
          (pages[p] = pages[q] \/ (pages[p] = "exe" /\ pages[q] # "free"))

TwoSegments(a, b, pages) ==
    /\ a.lo < b.lo
    /\ IF "segments_apart" \in ScanContracts THEN a.hi <= b.lo ELSE a.hi - 1 <= b.lo
    /\ "holes_empty" \in ScanContracts => \A p \in a.hi..(b.lo - 1) : pages[p] = "free"

Segments(pages) ==
    LET S == {i \in Interval : IsSegment(pages, i)}
    IN  {s \in {<<a>> : a \in S} \cup {<<a, b>> : a, b \in S} :
           /\ {p \in Page : pages[p] = "exe"} \subseteq UNION {PagesIn(s[i]) : i \in DOMAIN s}
           /\ Len(s) = 2 => TwoSegments(s[1], s[2], pages)
           /\ \A p \in Page : pages[p] = "brk" => p > s[Len(s)].lo}

PrivateHeaps(pages, segs) ==
    {h \in Interval :
        /\ h.hi - h.lo <= 2
        /\ \A p \in PagesIn(h) : pages[p] = "anon" /\ \A i \in DOMAIN segs : p \notin PagesIn(segs[i])
        /\ "nothing_follows_heap" \in ScanContracts =>
              h.hi = NPages + 1 \/ pages[h.hi] \notin {"anon", "none"}
        /\ "heap_outside_files" \in ScanContracts =>
              h.lo = 1 \/ h.hi = NPages + 1 \/ pages[h.lo - 1] # pages[h.hi]}

Pages ==
    {f \in [Page -> Kinds] :
        /\ {"exe", "anon"} \subseteq Range(f)
        /\ OneRun(f, "stack") /\ OneRun(f, "brk")}

\* The kernel's lines: it may merge the private heap with what is anonymous
\* beside it, unless a flag (MAP_NORESERVE) keeps them apart.
Boundaries(im) ==
    {im.segs[i].lo : i \in DOMAIN im.segs}
      \cup (IF im.merged THEN {} ELSE {im.heap.lo, im.heap.hi})
LinesOf(im, k) ==
    LET starts == {p \in Page : k[p] # "free"
                     /\ (p = 1 \/ k[p-1] # k[p] \/ p \in Boundaries(im))}
        last(p) == Min({q \in (p+1)..(NPages+1) : q = NPages + 1 \/ q \in starts \/ k[q] = "free"})
    IN  [i \in 1..Cardinality(starts) |->
           LET p == SetToSortSeq(starts, <)[i]
           IN  [first |-> p, second |-> last(p), kind |-> k[p]]]

Request(line) ==
    [begin |-> line.first, end |-> line.second, file |-> FileOf(line.kind),
     prot |-> ProtOf(line.kind), fixed |-> FALSE, caller |-> NoCaller]

executable_end_addr(im) == Max({im.segs[i].hi : i \in DOMAIN im.segs})
\* The start of the segment that ends highest.
executable_data_segment_start_addr(im) ==
    (CHOOSE s \in Range(im.segs) : s.hi = executable_end_addr(im)).lo

Overlapping(segs) == \E i \in DOMAIN segs \ {1} : segs[i].lo < segs[i-1].hi
Filled(pages, segs) ==
    [p \in Page |-> IF Len(segs) = 2 /\ segs[1].hi <= p /\ p < segs[2].lo THEN "none" ELSE pages[p]]

\* Every line of the executable fits a sequence, together and apart.
ExecutableLines(im) ==
    LET filled == Filled(im.pages, im.segs)
    IN  SelectSeq(LinesOf(im, filled), LAMBDA l : im.segs[1].lo <= l.first /\ l.first < executable_end_addr(im))
Fits(im) ==
    /\ "sequence_room" \in ScanContracts => Len(ExecutableLines(im)) <= MaxLen
    /\ "sane_lines" \in ScanContracts =>
          \A l \in Range(ExecutableLines(im)) : l.second - l.first <= BiggestSane

Images ==
    {im \in UNION {UNION {{[pages |-> f, segs |-> segs, heap |-> h, merged |-> m] :
               h \in PrivateHeaps(f, segs),
               m \in (IF "heap_unmerged" \in ScanContracts THEN {FALSE} ELSE BOOLEAN)} :
            segs \in Segments(f)} : f \in Pages} : Fits(im)}
-----------------------------------------------------------------------------
\* A big allocation of the mmap allocator; private marks the private heap's.
Allocation(seq, private) ==
    [begin |-> seq.begin, end |-> seq.end, seq |-> seq, private |-> private]
Lookup(B, addr) == {b \in B : b.begin <= addr /\ addr < b.end}

\* s1 begins s2; the last entry, when anonymous, may be shorter.
mapping_sequence_prefix(s1, s2) ==
    LET m1 == s1.mappings
        m2 == s2.mappings
        n == Len(m1)
    IN  /\ n <= Len(m2)
        /\ \/ m1 = SubSeq(m2, 1, n)
           \/ /\ n = Len(m2) /\ Front(m1) = Front(m2)
              /\ m1[n].is_anon /\ m2[n].is_anon
              /\ m1[n].begin = m2[n].begin /\ m1[n].end <= m2[n].end
mapping_sequence_suffix(s1, s2) == IsSuffix(s1.mappings, s2.mappings)
mem_range_suffix(s1, s2) == s1.end = s2.end /\ s1.begin > s2.begin

\* The new sequence without what is known of it already.
CutSuffix_KeepsEnd(seq, known) ==
    [seq EXCEPT !.mappings = SubSeq(@, 1, Len(@) - Len(known.mappings))]
CutSuffix(seq, known) ==
    [seq EXCEPT !.mappings = SubSeq(@, 1, Len(@) - Len(known.mappings)), !.end = known.begin]

Abort(B) == [bigallocs |-> B, aborted |-> TRUE]
Recorded(B) == [bigallocs |-> B, aborted |-> FALSE]

\* go_ahead.  What the initial stack's sequence is told to (the auxv allocator)
\* is in module AddressSpace.
GoAhead(B, seq) == Recorded(B \cup {Allocation(seq, FALSE)})

\* report_problem, when the existing sequence is known: everything under it
\* goes, unless that is the executable's data segment.
Nuke(B, seq, known) ==
    IF known.begin <= executable_data_segment_start_addr(image)
         /\ executable_data_segment_start_addr(image) < known.end
    THEN Abort(B)
    ELSE GoAhead({b \in B : b.end <= known.begin \/ known.end <= b.begin}, seq)

OnlyEndKnown(B, seq, b) ==
    IF mem_range_suffix(b.seq, seq)
    THEN IF mapping_sequence_suffix(b.seq, seq) THEN GoAhead(B, CutSuffix(seq, b.seq))
         ELSE Nuke(B, seq, b.seq)
    ELSE IF Len(seq.mappings) = 1 /\ Len(b.seq.mappings) = 1
    THEN Recorded((B \ {b}) \cup
           {[b EXCEPT !.begin = seq.begin,
                      !.seq = [@ EXCEPT !.begin = seq.begin, !.mappings = seq.mappings]]})
    ELSE Nuke(B, seq, b.seq)

OnlyBeginKnown(B, seq, b) ==
    IF mapping_sequence_prefix(b.seq, seq)
    THEN Recorded((B \ {b}) \cup {[b EXCEPT !.end = seq.end, !.seq = seq]})
    ELSE Abort(B)

BothEndsInOne(B, seq, b) ==
    IF b.seq.mappings = seq.mappings THEN Recorded(B)
    ELSE IF mapping_sequence_prefix(seq, b.seq)
    THEN Recorded((B \ {b}) \cup {[b EXCEPT !.end = seq.end, !.seq = seq]})
    ELSE Nuke(B, seq, b.seq)

add_mapping_sequence_bigalloc_if_absent(B, seq) ==
    LET first == Lookup(B, seq.begin)
        last == Lookup(B, seq.end - 1)
    IN  IF first = {} /\ last = {} THEN GoAhead(B, seq)
        ELSE IF first = {} THEN OnlyEndKnown(B, seq, CHOOSE b \in last : TRUE)
        ELSE IF last = {} THEN OnlyBeginKnown(B, seq, CHOOSE b \in first : TRUE)
        ELSE IF first = last THEN BothEndsInOne(B, seq, CHOOSE b \in first : TRUE)
        ELSE Abort(B)
-----------------------------------------------------------------------------
\* create_private_nommap_malloc_heap has recorded the heap, and no more.
ScanInit ==
    /\ image \in Images
    /\ kernel = image.pages
    /\ bigallocs = {Allocation(augment_sequence(EmptySequence,
                      Request([first |-> image.heap.lo, second |-> image.heap.hi,
                               kind |-> "anon"])), TRUE)}
    /\ lines = <<>> /\ current = EmptySequence
    /\ phase = "holes" /\ aborted = FALSE

\* The loop over the program headers.  A segment that begins on the page where
\* the one before it ends leaves a hole of a negative size: the mmap fails.
fill_holes ==
    /\ phase = "holes" /\ ~aborted
    /\ IF Overlapping(image.segs)
       THEN aborted' = TRUE /\ UNCHANGED <<kernel, lines, phase>>
       ELSE /\ kernel' = Filled(image.pages, image.segs)
            /\ lines' = LinesOf(image, kernel')
            /\ phase' = "scan"
            /\ UNCHANGED aborted
    /\ UNCHANGED <<image, bigallocs, current>>

\* A line that is [heap] is left to the break allocator, but for the part of it
\* that is the executable's bss.
Faked(line) ==
    IF line.kind = "brk"
    THEN [line EXCEPT !.kind = "anon", !.second = executable_end_addr(image)]
    ELSE line
Skipped(line) ==
    \/ line.second - line.first > BiggestSane
    \/ line.kind = "brk" /\ line.first >= executable_end_addr(image)

extend_current(seq, line) == line.kind # "odd" /\ CanAugment(seq, Request(line))

add_missing_cb ==
    /\ phase = "scan" /\ lines # <<>> /\ ~aborted
    /\ lines' = Tail(lines)
    /\ LET line == Faked(Head(lines))
       IN  IF Skipped(Head(lines)) THEN UNCHANGED <<current, bigallocs, aborted>>
           ELSE IF extend_current(current, line)
           THEN /\ current' = augment_sequence(current, Request(line))
                /\ UNCHANGED <<bigallocs, aborted>>
           ELSE IF ~extend_current(EmptySequence, line)
           THEN aborted' = TRUE /\ UNCHANGED <<current, bigallocs>>
           ELSE \E r \in {add_mapping_sequence_bigalloc_if_absent(bigallocs, current)} :
                  /\ bigallocs' = r.bigallocs /\ aborted' = r.aborted
                  /\ current' = augment_sequence(EmptySequence, Request(line))
    /\ UNCHANGED <<image, kernel, phase>>

\* The last sequence, after the last line.
add_last ==
    /\ phase = "scan" /\ lines = <<>> /\ ~aborted
    /\ phase' = "done"
    /\ IF current.mappings = <<>> THEN UNCHANGED <<bigallocs, aborted>>
       ELSE \E r \in {add_mapping_sequence_bigalloc_if_absent(bigallocs, current)} :
              bigallocs' = r.bigallocs /\ aborted' = r.aborted
    /\ UNCHANGED <<image, kernel, lines, current>>

ScanNext == fill_holes \/ add_missing_cb \/ add_last
-----------------------------------------------------------------------------
LineAt(p) == CHOOSE l \in Range(LinesOf(image, kernel)) : l.first <= p /\ p < l.second
Expected(p) ==
    /\ kernel[p] # "free" /\ ~Skipped(LineAt(p))
    /\ kernel[p] = "brk" => p < executable_end_addr(image)

RecordedOnce(p) ==
    \E b \in Lookup(bigallocs, p) :
        /\ Lookup(bigallocs, p) = {b}
        /\ \E e \in find_entry(p, b.seq) :
              /\ find_entry(p, b.seq) = {e}
              /\ e.prot = ProtOf(kernel[p])
              /\ e.is_anon = (FileOf(kernel[p]) = NoFile)
              /\ ~e.is_anon => b.seq.filename = FileOf(kernel[p])

\* The private malloc, the suballocator of its big allocation, keeps a pointer
\* to it and an index of its size.
PrivateHeapKept ==
    \E b \in bigallocs : b.private /\ b.begin = image.heap.lo /\ b.end = image.heap.hi

\* static-file.c makes the executable a child of one big allocation, from its
\* first segment to the end of its bss, with holes and all.
ExecutableWhole ==
    \E b \in bigallocs : b.begin <= image.segs[1].lo /\ executable_end_addr(image) <= b.end

\* The scan leaves the private heap's big allocation as it was.  When the
\* allocator has started, every page that was mapped is still mapped and, unless
\* its line is one to skip, is in exactly one big allocation, whose sequence
\* describes it as the maps file did; no other page is in one; the executable
\* is in one as a whole; and nothing has aborted.
StartRecorded ==
    /\ ~aborted /\ PrivateHeapKept
    /\ phase = "done" =>
         /\ ExecutableWhole
         /\ \A p \in Page :
              /\ image.pages[p] # "free" => kernel[p] = image.pages[p]
              /\ IF Expected(p) THEN RecordedOnce(p) ELSE Lookup(bigallocs, p) = {}
=============================================================================
