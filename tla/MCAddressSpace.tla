--------------------------- MODULE MCAddressSpace ---------------------------
EXTENDS AddressSpace

Entry(lo, hi, anon) ==
    [begin |-> lo, end |-> hi, prot |-> "rw", fixed |-> FALSE,
     is_anon |-> anon, caller |-> "none"]
Sequence(entries) ==
    [begin |-> entries[1].begin, end |-> entries[Len(entries)].end,
     filename |-> "exe", mappings |-> entries]
Layout(rows, brk, hi, entries) ==
    [rows |-> rows, break |-> brk, range |-> <<brk, hi>>,
     sequence |-> Sequence(entries), stack_low |-> AddrLimit,
     stack_floor |-> AddrLimit, files |-> {}, started |-> FALSE]
Mapping(lo, hi) == <<lo, hi, 0, "mmap">>
Started == <<Mapping(2, 4), <<3, 4, 1, "brk">>>>
StartedEntries == <<Entry(2, 3, FALSE), Entry(3, 4, TRUE)>>

\* Start-up below a break that follows the executable at once or after a gap,
\* and with a dynamic linker whose hole is free or not; a running program that
\* loads libraries; a running program and its stack.
MCLayouts ==
    {[Layout(<<Mapping(2, 6)>>, at, 12, entries) EXCEPT !.files = {"exe"}] :
        at \in {6, 8},
        entries \in {<<Entry(2, 6, FALSE)>>, <<Entry(2, 4, FALSE), Entry(4, 6, TRUE)>>,
                     <<Entry(2, 4, FALSE), Entry(4, 6, FALSE)>>}}
    \cup {[Layout(<<Mapping(2, 6), Mapping(10, 12), Mapping(14, 16)>> \o inHole, 6, 7,
                  <<Entry(2, 6, FALSE)>>) EXCEPT !.files = {"exe", "ldso"}] :
              inHole \in {<<>>, <<Mapping(12, 14)>>}}
    \cup {[Layout(Started, 4, 5, StartedEntries) EXCEPT !.started = TRUE],
          [Layout(<<Mapping(2, 4), Mapping(6, 8), Mapping(12, 16)>>, 4, 5,
                  <<Entry(2, 4, FALSE)>>)
              EXCEPT !.stack_low = 12, !.stack_floor = 8]}

Image(name, spans, segments, sections, data, preloaded) ==
    [name |-> name, spans |-> spans, segments |-> segments, sections |-> sections,
     data |-> data, preloaded |-> preloaded]
Library(name, lo, hi, end_of_file) ==
    Image(name, <<<<lo, hi>>>>, <<<<lo, end_of_file>>>>, <<>>, 0, FALSE)
\* The executable, with a section listed twice and an empty one; the dynamic
\* linker, with a hole; a library at two places, and another.
Executable ==
    Image("exe", <<<<2, 6>>>>, <<<<2, 4>>, <<4, 5>>>>,
          <<<<2, 3>>, <<2, 3>>, <<4, 4>>, <<4, 5>>>>, 2, TRUE)
MCImages ==
    {Executable,
     Image("ldso", <<<<10, 12>>, <<14, 16>>>>, <<<<10, 12>>, <<14, 16>>>>, <<>>, 0, TRUE),
     Library("lib", 6, 10, 9), Library("lib", 10, 12, 12), Library("other", 12, 16, 14)}
\* The same, when the executable's data segment is its first.
MCImagesDataFirst == (MCImages \ {Executable}) \cup {[Executable EXCEPT !.data = 1]}
=============================================================================
