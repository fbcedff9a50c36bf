---------------------------- MODULE MallocInsert ----------------------------
(***************************************************************************)
(* Allocation sites and their ids (src/allocsites.c): each loaded file     *)
(* with a vector of sites takes the next slot of a spine, and its sites    *)
(* get the ids that follow those of the slot before, in integers of        *)
(* IdLimit values.  A site is its file and its index in the file's vector. *)
(* A file's slot outlives it.                                              *)
(*                                                                         *)
(* Beside them is the insert of one heap chunk, a word with two readings   *)
(* (include/malloc-meta.h), in an NDEBUG build:                            *)
(*   initial:    the allocation site in low and mid, and top zero;         *)
(*   with type:  the site's id in low, the uniqtype in mid and top.        *)
(* Which reading applies is decided by top alone.  low, mid and top are    *)
(* bits 1-15, 16-47 and 48-59 of the word, so a site's address is          *)
(* [low, mid] and a uniqtype's, shifted, is [mid, top].                    *)
(*                                                                         *)
(* A file is loaded at a mid of Places, alone; the sites of its vector are *)
(* at the odd lows of it, in order.  Files come and go while the chunk is  *)
(* allocated, queried and given types.                                     *)
(***************************************************************************)
EXTENDS Integers, Sequences, FiniteSets, FiniteSetsExt

-----------------------------------------------------------------------------
(* Allocation sites. *)

CONSTANTS Files, Counts,
          IndexSize,        \* ALLOCSITES_INDEX_SIZE
          IdLimit,          \* how many values an allocsite_id_t has
          MaxLoads,         \* how often files are loaded
          NoFile, SiteContracts

ASSUME AllocSitesAssumption ==
    /\ NoFile \notin Files /\ Counts \subseteq Nat
    /\ IdLimit \in Nat \ {0} /\ IndexSize \in Nat /\ MaxLoads \in Nat
    /\ SiteContracts \subseteq {"slots_left", "ids_left", "nonempty"}

VARIABLES
    spine,      \* allocsites_vectors_by_base_id, up to slot_next_free
    slot,       \* allocsites_info of each file: its slot, or 0
    ids_aborted

siteVars == <<spine, slot, ids_aborted>>

SitesInit == spine = <<>> /\ slot = [f \in Files |-> 0] /\ ids_aborted = FALSE

UnknownId == IdLimit - 1      \* (allocsite_id_t) -1
-----------------------------------------------------------------------------
\* The first id of the next vector, which may have wrapped around.
NextStartId(s) ==
    IF s = <<>> THEN 0 ELSE (s[Len(s)].start_id + s[Len(s)].count) % IdLimit

Wrapped(s) == s # <<>> /\ NextStartId(s) < s[Len(s)].start_id

\* slot_pos, from 0, is checked against the size of the table.
NoSlot(s) == Len(s) > IndexSize

\* count holds the length of the vector as far as it fits.
init_allocsites_info(f, n) ==
    /\ slot[f] = 0 /\ Len(spine) < MaxLoads
    /\ "slots_left" \in SiteContracts => Len(spine) < IndexSize
    /\ "ids_left" \in SiteContracts => NextStartId(spine) + n < IdLimit
    /\ "nonempty" \in SiteContracts => n > 0
    /\ IF NoSlot(spine) \/ Wrapped(spine)
       THEN ids_aborted' = TRUE /\ UNCHANGED <<spine, slot>>
       ELSE /\ spine' = Append(spine, [start_id |-> NextStartId(spine), count |-> n % IdLimit,
                                       file |-> f])
            /\ slot' = [slot EXCEPT ![f] = Len(spine) + 1]
            /\ UNCHANGED ids_aborted

\* A file that is unloaded is no longer found by address; its slot stays.
unload(f) ==
    /\ slot[f] # 0
    /\ slot' = [slot EXCEPT ![f] = 0]
    /\ UNCHANGED <<spine, ids_aborted>>
-----------------------------------------------------------------------------
\* The sites of the files that are loaded.
LoadedSites == {[file |-> f, index |-> i] : f \in {g \in Files : slot[g] # 0}, i \in 0..IdLimit}
PresentSites == {s \in LoadedSites : s.index < spine[slot[s.file]].count}
Nowhere == [file |-> NoFile, index |-> 0]

\* An address in no file is given the id 0.
allocsite_id(s) ==
    IF s.file = NoFile THEN 0
    ELSE (spine[slot[s.file]].start_id + s.index) % IdLimit

\* bsearch_leq_generic over the spine: the last slot that starts at or below
\* id; slots with equal starts are told apart by nothing.
FoundSlots(id) ==
    LET below == {i \in DOMAIN spine : spine[i].start_id <= id}
    IN  {i \in below : spine[i].start_id = Max({spine[j].start_id : j \in below})}

allocsite_entry_by_id(id) ==
    {[file |-> spine[i].file, index |-> id - spine[i].start_id] : i \in FoundSlots(id)}
-----------------------------------------------------------------------------
\* A site of a loaded file is found again by its id, whatever was loaded and
\* unloaded before and after: "Each allocsite is logically assigned a contiguous
\* ID", and the test asserts "retrieved_allocsite == allocsite".
IdFindsSite == \A s \in PresentSites : allocsite_entry_by_id(allocsite_id(s)) = {s}

\* The table has a place for each slot: "up to 256 objects with allocsite
\* metadata".
SlotsFit == Len(spine) <= IndexSize

\* An address that is no allocation site has the id that says so: "zero is a
\* valid ID; -1 means unknown".
NoSiteIsUnknown == PresentSites # {} => allocsite_id(Nowhere) = UnknownId
-----------------------------------------------------------------------------
(* The insert. *)

CONSTANTS
    Types,          \* addresses of uniqtypes, shifted: records [mid, top]
    VectorType(_, _), \* the uniqtype of a file's i-th site, or NoType
    Places, NoType, Queries, NotReading,
    InsertContracts \* what the program and its loader are assumed to do

ASSUME MallocInsertAssumption ==
    /\ InsertContracts \subseteq {"types_high", "sites_listed", "set_alone",
                                  "queried_in_time"}
    /\ Places \subseteq Nat \ {0}
ASSUME TypesAssumption ==
    /\ NoType \notin [mid : Nat, top : Nat]
    /\ Types \subseteq [mid : Nat, top : Nat]
    /\ \A f \in Files, n \in Counts : \A i \in 0..(n - 1) :
          VectorType(f, i) \in [mid : Nat, top : Nat] \cup {NoType}

VARIABLES
    base,           \* where each loaded file is
    insert,         \* the word
    read,           \* the word each query has read and is to replace
    current,        \* the type of the chunk: its site's, or the last one set
    home,           \* the site that allocated it, Nowhere if it is in no vector
    unrecognised,         \* a query has found no type
    searched_again  \* ... and another one has searched the tables since

chunkVars == <<insert, read, current, home, unrecognised, searched_again>>
insertVars == <<siteVars, base, chunkVars>>

ShiftOf(type) == IF type = NoType THEN [mid |-> 0, top |-> 0] ELSE type

initial_site(w) == [low |-> w.low, mid |-> w.mid]
with_type_type(w) ==
    IF w.mid = 0 /\ w.top = 0 THEN NoType ELSE [mid |-> w.mid, top |-> w.top]

WithType(id, type) ==
    [low |-> id, mid |-> ShiftOf(type).mid, top |-> ShiftOf(type).top]

INSERT_IS_WITH_TYPE(w) == w.top # 0
-----------------------------------------------------------------------------
get_file(addr) == {f \in Files : slot[f] # 0 /\ base[f] = addr.mid}
Count(f) == spine[slot[f]].count

\* The last entry at or below the address, whether or not it is that address's.
find_allocsite_entry_at(addr) ==
    {[file |-> f, index |-> Min({(addr.low - 1) \div 2, Count(f) - 1})] :
       f \in {f \in get_file(addr) : addr.low > 0 /\ Count(f) > 0}}

\* __liballocs_allocsite_id, which takes an address in no file for the first site.
IdAt(addr) ==
    LET found == find_allocsite_entry_at(addr)
    IN  IF get_file(addr) = {} THEN allocsite_id(Nowhere)
        ELSE IF found = {} THEN UnknownId
        ELSE CHOOSE id \in {allocsite_id(s) : s \in found} : TRUE
TypeOf(site) == IF site = Nowhere THEN NoType ELSE VectorType(site.file, site.index)
TypeAt(addr) ==
    LET found == find_allocsite_entry_at(addr)
    IN  IF found = {} THEN NoType ELSE TypeOf(CHOOSE s \in found : TRUE)

\* The site that an address really is.
SiteAt(addr) ==
    LET sites == {s \in find_allocsite_entry_at(addr) : addr.low = 2 * s.index + 1}
    IN  IF sites = {} THEN Nowhere ELSE CHOOSE s \in sites : TRUE

High(type) == "types_high" \in InsertContracts => (type # NoType => type.top # 0)
Listed(addr) ==
    "sites_listed" \in InsertContracts =>
        SiteAt(addr) # Nowhere \/ find_allocsite_entry_at(addr) = {}

Fresh(addr) == [low |-> addr.low, mid |-> addr.mid, top |-> 0]
AllIdle == \A q \in Queries : read[q] = NotReading
-----------------------------------------------------------------------------
\* No chunk has been allocated: as after a query that found nothing.
InsertInit ==
    /\ SitesInit
    /\ base = [f \in Files |-> 0]
    /\ insert = WithType(UnknownId, NoType)
    /\ current = NoType /\ home = Nowhere
    /\ read = [q \in Queries |-> NotReading]
    /\ unrecognised = FALSE /\ searched_again = FALSE

\* A file comes or goes when no site of its place is still to be looked up.
InTime(place) ==
    "queried_in_time" \in InsertContracts =>
        AllIdle /\ (INSERT_IS_WITH_TYPE(insert) \/ insert.mid # place)

load_file(f, n, place) ==
    /\ init_allocsites_info(f, n)
    /\ \A g \in Files : slot[g] # 0 => base[g] # place
    /\ InTime(place)
    /\ base' = [base EXCEPT ![f] = place]
    /\ UNCHANGED chunkVars

unload_file(f) ==
    /\ unload(f) /\ InTime(base[f])
    /\ base' = [base EXCEPT ![f] = 0]
    /\ UNCHANGED chunkVars

\* The chunk is freed and its place allocated again; nobody queries it then.
index_insert(addr) ==
    /\ AllIdle /\ Listed(addr) /\ High(TypeAt(addr))
    /\ insert' = Fresh(addr)
    /\ home' = SiteAt(addr) /\ current' = TypeOf(SiteAt(addr))
    /\ unrecognised' = FALSE /\ searched_again' = FALSE
    /\ UNCHANGED <<siteVars, base, read>>

\* What a query answers and what it leaves in the insert.
TypeIn(w) == IF INSERT_IS_WITH_TYPE(w) THEN with_type_type(w) ELSE TypeAt(initial_site(w))
Rewritten_SiteKept(w) == [WithType(IdAt(initial_site(w)), TypeIn(w)) EXCEPT !.mid = w.mid]
Rewritten(w) ==
    IF TypeIn(w) = NoType THEN WithType(UnknownId, NoType)
    ELSE WithType(IdAt(initial_site(w)), TypeIn(w))

\* A query reads the insert, looks its site up and then replaces the insert.
extract_read(q) ==
    /\ read[q] = NotReading /\ ~INSERT_IS_WITH_TYPE(insert)
    /\ read' = [read EXCEPT ![q] = insert]
    /\ searched_again' = (searched_again \/ unrecognised)
    /\ UNCHANGED <<siteVars, base, insert, current, home, unrecognised>>

extract_replace(q) ==
    /\ read[q] # NotReading
    /\ insert' = Rewritten(read[q])
    /\ unrecognised' = (unrecognised \/ TypeIn(read[q]) = NoType)
    /\ read' = [read EXCEPT ![q] = NotReading]
    /\ UNCHANGED <<siteVars, base, current, home, searched_again>>

\* __generic_malloc_set_type.
IdWhenSet_Typed(w) == w.low
IdWhenSet(w) == IF INSERT_IS_WITH_TYPE(w) THEN w.low ELSE IdAt(initial_site(w))

set_type(type) ==
    /\ High(type)
    /\ "set_alone" \in InsertContracts => AllIdle
    /\ insert' = WithType(IdWhenSet(insert), type)
    /\ current' = type
    /\ unrecognised' = FALSE /\ searched_again' = FALSE
    /\ UNCHANGED <<siteVars, base, home, read>>

Addresses == [low : 0..(2 * Max(Counts) + 1), mid : Places]

FilesNext ==
    /\ ~ids_aborted
    /\ \E f \in Files : \/ unload_file(f)
                        \/ \E n \in Counts, place \in Places : load_file(f, n, place)
ChunkNext ==
    \/ \E addr \in Addresses : index_insert(addr)
    \/ \E q \in Queries : extract_read(q) \/ extract_replace(q)
    \/ \E type \in Types : set_type(type)
InsertNext == FilesNext \/ ChunkNext
InsertSpec == InsertInit /\ [][InsertNext]_insertVars
-----------------------------------------------------------------------------
\* Whatever queries are under way and whatever files come and go, the next
\* query to read the insert finds the chunk's type: that of its site at first,
\* the one that was set afterwards, although the queries replace the site by
\* what they found.
TypeKept == TypeIn(insert) = current

\* The id that a query or a change of type has left in the insert leads back to
\* the site that allocated the chunk, for as long as the chunk lives: also when
\* the site's file has gone, or come back with other ids.  A site without a type
\* is excepted: a query that finds none forgets the site.
SiteKept ==
    INSERT_IS_WITH_TYPE(insert) /\ TypeOf(home) # NoType =>
        allocsite_entry_by_id(insert.low) = {home}

\* A chunk of which a query found no type is not searched for again: "we null
\* out the allocsite to avoid repeated searching".
SearchedOnce == ~searched_again
=============================================================================
