---------------------------- MODULE StaticFiles ----------------------------
(***************************************************************************)
(* Loaded ELF files and their segments and sections as big allocations     *)
(* (src/allocators/static-file.c, static-segment.c, static-section.c): one *)
(* allocation for the file inside the mapping sequence ld.so made for it,  *)
(* one for each segment inside the file, one for each section inside its   *)
(* segment.  The file's metadata is attached when librunt has defined the  *)
(* segments and sections; an unload is notified by file name.              *)
(***************************************************************************)
EXTENDS Brk

CONSTANT Images     \* what may be loaded: name, spans (its mappings), segments
                    \* and sections ([lo, hi) each), data (the executable's data
                    \* segment, 0 in a library), preloaded

VARIABLES present,      \* the images ld.so has mapped
          metadata,     \* allocator_private of file entries: a name, or NULL
          meta_open     \* the images whose meta-object is open

NULL == "NULL"
fileVars == <<present, metadata, meta_open>>
kept == <<brkVars, fileVars>>

FilesInUse == {b \in InUse : allocated_by[b] = "file"}
MappingAt(addr) == {m \in Children(0) : allocated_by[m] = "mmap" /\ Contains(m, addr)}
\* IsFoundFromRoot, for an allocator none of whose entries is inside another.
FoundFromRoot(addr, a) ==
    {b \in InUse : allocated_by[b] = a /\ Contains(b, addr) /\ pageindex[ROUND_DOWN(addr)] # 0}

First(img) == img.spans[1][1]
\* get_dso_vaddr_bounds: the end of the highest segment.
file_end(img) ==
    LET ends == {img.segments[i][2] : i \in DOMAIN img.segments}
    IN  CHOOSE e \in ends : \A other \in ends : other <= e
Steps(op, img, spans) == [i \in DOMAIN spans |-> [op |-> op, at |-> i, img |-> img]]
One(op, img) == <<[op |-> op, at |-> 0, img |-> img]>>

\* librunt defines the segments and sections between the creation of the
\* file's allocation and the arrival of its metadata.
LoadCalls(img) ==
    One("plug", img) \o One("load", img)
      \o Steps("segment", img, img.segments) \o Steps("section", img, img.sections)
      \o One("attach", img) \o One("snap", img)

LoadOps == {"plug", "stretch", "load", "segment", "data_end", "section", "attach", "snap"}
Serialised ==
    "loads_serialised" \in Contracts => ~Doing(LoadOps \cup {"map", "unmap", "unload"})
SpaceFree(img) ==
    /\ brk_range[2] <= First(img) /\ file_end(img) <= stack_floor
    /\ \A i \in DOMAIN img.spans, m \in Children(0) :
          Disjoint(begin[m], end[m], img.spans[i][1], img.spans[i][2])
    /\ \A i \in DOMAIN img.spans, other \in present :
          Disjoint(First(other), file_end(other), img.spans[i][1], img.spans[i][2])

dlopen(t, img) ==
    /\ Idle(t) /\ systrap_is_initialized /\ Serialised
    /\ img \notin present /\ ~img.preloaded /\ SpaceFree(img)
    /\ "one_load_per_name" \in Contracts =>
          \A other \in present : other.name # img.name
    /\ Begin(t, Steps("map", img, img.spans) \o LoadCalls(img))
    /\ present' = present \cup {img}
    /\ UNCHANGED <<vars, brkVars, metadata, meta_open>>

\* __runt_files_init tells of the files ld.so loaded before liballocs.
load_early(t, img) ==
    /\ img.preloaded /\ img \in present
    /\ "data_segment_last" \in Contracts /\ img.data # 0 =>
          img.segments[img.data][2] = file_end(img)
    /\ brk_bigalloc # 0 /\ ~systrap_is_initialized
    /\ \A b \in FilesInUse : begin[b] # First(img)
    /\ Begin(t, LoadCalls(img))
    /\ UNCHANGED <<vars, kept>>

\* ld.so unmaps the file, and only then is the unload notified, by name.
dlclose(t, img) ==
    /\ Idle(t) /\ img \in present /\ ~img.preloaded /\ Serialised
    /\ \A u \in Threads : \A i \in DOMAIN todo[u] :
          todo[u][i].op \in LoadOps => todo[u][i].img # img
    /\ Begin(t, One("unmap", img)
                  \o <<[op |-> "unload", at |-> 1, img |-> img]>>)
    /\ present' = present \ {img}
    /\ UNCHANGED <<vars, brkVars, metadata, meta_open>>
-----------------------------------------------------------------------------
map(t) ==
    /\ Calls(t, "map")
    /\ LET span == Call(t).img.spans[Call(t).at]
       IN  new_bigalloc(span[1], span[2], "mmap")
    /\ Done(t)
    /\ UNCHANGED kept

\* plug_hole_or_abort, when the file's first and last byte lie in different
\* mappings, as only the dynamic linker's may: the lower one is made to reach
\* the end of the upper one.
HoleFree(low, high) ==
    \A p \in PageRange(ROUND_DOWN(end[low]), ROUND_DOWN(begin[high])) : pageindex[p] = 0
plug_hole(t) ==
    /\ Calls(t, "plug")
    /\ LET low == MappingAt(First(Call(t).img))
           high == MappingAt(file_end(Call(t).img) - 1)
           img == Call(t).img
       IN  IF low = high
           THEN Done(t) /\ UNCHANGED vars
           ELSE \E l \in low, h \in high :
                  IF HoleFree(l, h) /\ img.name = "ldso"
                  THEN /\ bigalloc_del(h)
                       /\ Becomes(t, <<[op |-> "stretch", at |-> end[h], img |-> img]>>)
                  ELSE Abort(t) /\ UNCHANGED vars
    /\ UNCHANGED kept
stretch(t) ==
    /\ Calls(t, "stretch")
    /\ \E m \in MappingAt(First(Call(t).img)) : __adjust_bigalloc_end(m, Call(t).at)
    /\ Done(t)
    /\ UNCHANGED kept

\* __static_file_allocator_notify_load, as far as the new allocation.
notify_load(t) ==
    /\ Calls(t, "load")
    /\ \E m \in MappingAt(First(Call(t).img)), b \in find_free_bigalloc :
          /\ new_bigalloc_under(begin[m], file_end(Call(t).img), m, "file")
          /\ metadata' = [metadata EXCEPT ![b] = NULL]
    /\ Done(t)
    /\ UNCHANGED <<brkVars, present, meta_open>>

notify_define_segment(t) ==
    /\ Calls(t, "segment")
    /\ LET span == Call(t).img.segments[Call(t).at]
       IN  \E f \in FoundFromRoot(span[1], "file") :
              new_bigalloc_under(span[1], span[2], f, "segment")
    /\ Becomes(t, IF Call(t).at = Call(t).img.data
                  THEN <<[Call(t) EXCEPT !.op = "data_end"]>> ELSE <<>>)
    /\ UNCHANGED kept
\* "the end of the segment is the end of the file"
DataSegment(img) == FoundFromRoot(img.segments[img.data][1], "segment")
data_end(t) ==
    /\ Calls(t, "data_end")
    /\ \E s \in DataSegment(Call(t).img) : __adjust_bigalloc_end(s, end[parent[s]])
    /\ Done(t)
    /\ UNCHANGED kept

\* __static_section_allocator_ensure_big makes an allocation: the section is
\* not empty and none of the section allocator is there.
ensure_big(t) ==
    LET span == Call(t).img.sections[Call(t).at]
    IN  span[1] < span[2] /\ FoundFromRoot(span[1], "section") = {}
notify_define_section(t) ==
    /\ Calls(t, "section")
    /\ LET span == Call(t).img.sections[Call(t).at]
       IN  IF ensure_big(t)
           THEN \E s \in FoundFromRoot(span[1], "segment") :
                   new_bigalloc_under(span[1], span[2], s, "section")
           ELSE UNCHANGED vars
    /\ Done(t)
    /\ UNCHANGED kept

\* The metadata is attached, and the meta-object of a late load opened.
attach_metadata(t) ==
    /\ Calls(t, "attach")
    /\ \E b \in FoundFromRoot(First(Call(t).img), "file") :
          metadata' = [metadata EXCEPT ![b] = Call(t).img.name]
    /\ meta_open' = IF Call(t).img.preloaded THEN meta_open
                    ELSE meta_open \cup {Call(t).img}
    /\ Done(t)
    /\ UNCHANGED <<vars, brkVars, present>>

SnapTo(img) == file_end(img)
\* The break's allocation begins where the file in its mapping ends.
snap_brk(t) ==
    /\ Calls(t, "snap")
    /\ IF MappingAt(First(Call(t).img)) = {brk_mapping_bigalloc}
       THEN pre_extend_bigalloc(brk_bigalloc, SnapTo(Call(t).img))
       ELSE UNCHANGED vars
    /\ Done(t)
    /\ UNCHANGED kept
-----------------------------------------------------------------------------
\* The trapped munmap: the mapping goes, and all that is inside it.
unmap(t) ==
    /\ Calls(t, "unmap")
    /\ \E m \in MappingAt(First(Call(t).img)) : bigalloc_del(m)
    /\ Done(t)
    /\ UNCHANGED kept

\* __static_file_allocator_notify_unload: from entry `at' on, the next file
\* entry whose metadata has the name.
NamedFrom_Any(n, name) == {b \in FilesInUse : n <= b}
NamedFrom(n, name) == {b \in FilesInUse : n <= b /\ metadata[b] = name}
notify_unload(t) ==
    /\ Calls(t, "unload")
    /\ LET named == NamedFrom(Call(t).at, Call(t).img.name)
       IN  IF named = {} THEN Done(t) /\ UNCHANGED <<vars, meta_open>>
           ELSE LET b == CHOOSE b \in named : \A c \in named : b <= c
                IN  /\ bigalloc_del(b)
                    /\ meta_open' = {i \in meta_open : First(i) # begin[b]}
                    /\ Becomes(t, <<[Call(t) EXCEPT !.at = b + 1]>>)
    /\ UNCHANGED <<brkVars, present, metadata>>

FileStep(t) ==
    \/ map(t) \/ plug_hole(t) \/ stretch(t) \/ notify_load(t)
    \/ notify_define_segment(t) \/ data_end(t) \/ notify_define_section(t)
    \/ attach_metadata(t) \/ snap_brk(t) \/ unmap(t) \/ notify_unload(t)

FileNext ==
    \/ \E img \in Images : load_early(Main, img)
    \/ \E t \in Threads :
      \/ FileStep(t)
      \/ \E img \in Images : dlopen(t, img) \/ dlclose(t, img)
-----------------------------------------------------------------------------
\* The loop of an unload reads the name of a file through allocator_private
\* without a test, and deletes what has the name.
NameReadable(b) == \E img \in present : First(img) = begin[b] /\ img.name = metadata[b]

FilesInContract(t) ==
    /\ Calls(t, "load") =>
          \E m \in MappingAt(First(Call(t).img)) :
              FitsIn(0, m, begin[m], file_end(Call(t).img))
    /\ Calls(t, "segment") =>
          LET span == Call(t).img.segments[Call(t).at]
          IN  \E f \in FoundFromRoot(span[1], "file") : FitsIn(0, f, span[1], span[2])
    /\ Calls(t, "data_end") =>
          \A s \in DataSegment(Call(t).img) : AdjustContract(s, end[parent[s]])
    /\ Calls(t, "section") /\ ensure_big(t) =>
          LET span == Call(t).img.sections[Call(t).at]
          IN  \E s \in FoundFromRoot(span[1], "segment") : FitsIn(0, s, span[1], span[2])
    /\ Calls(t, "stretch") =>
          \E m \in MappingAt(First(Call(t).img)) : AdjustContract(m, Call(t).at)
    /\ Calls(t, "snap") /\ MappingAt(First(Call(t).img)) = {brk_mapping_bigalloc} =>
          /\ SnapTo(Call(t).img) < begin[brk_bigalloc]
          /\ PreExtendContract(brk_bigalloc, SnapTo(Call(t).img))
    /\ Calls(t, "unload") => \A b \in FilesInUse : b >= Call(t).at => NameReadable(b)

DescribedBy(b, img) ==
    /\ begin[b] = First(img) /\ end[b] = file_end(img)
    /\ {<<begin[s], end[s]>> : s \in Children(b)} =
          {img.segments[i] : i \in DOMAIN img.segments}

\* When nothing is being loaded or unloaded, the file allocations are those of
\* the images that are mapped, each with its segments.
FilesRecorded ==
    AllIdle /\ systrap_is_initialized =>
        /\ \A img \in present : \E b \in FilesInUse : DescribedBy(b, img)
        /\ \A b \in FilesInUse : \E img \in present : DescribedBy(b, img)

\* The meta-object of a file that is gone has been closed ("unload
\* meta-object").
MetaObjectsClosed ==
    AllIdle => meta_open \subseteq present
=============================================================================
