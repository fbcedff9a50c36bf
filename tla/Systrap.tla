------------------------------ MODULE Systrap ------------------------------
(***************************************************************************)
(* The replacements for the memory system calls (src/systrap.c): each does *)
(* the raw call and then tells the mmap allocator of it, and nothing holds *)
(* a lock across the two.  kernel is who mapped each page, record what the *)
(* mmap allocator believes (module Mmap, seen page by page), pending what  *)
(* each thread has still to tell.  Contracts as in module Mmap.            *)
(***************************************************************************)
CONSTANTS Threads, Pages, Nobody, Contracts

ASSUME ContractsAssumption == Contracts \subseteq {"own_pages", "no_reuse_in_flight"}

VARIABLES kernel, record, pending, aborted

vars == <<kernel, record, pending, aborted>>

Idle == [op |-> "none", pages |-> {}, fixed |-> FALSE, old |-> {}]

Init ==
    /\ kernel = [p \in Pages |-> Nobody]
    /\ record = [p \in Pages |-> Nobody]
    /\ pending = [t \in Threads |-> Idle]
    /\ aborted = FALSE

InFlight == UNION {pending[t].pages \cup pending[t].old : t \in Threads}

\* The calls on one page follow one another: a thread makes a call on it only
\* when the mmap allocator knows of the last one.
ReuseContract(pages) == "no_reuse_in_flight" \in Contracts => pages \cap InFlight = {}

\* A thread unmaps, moves or maps over free memory and its own mappings only.
OwnContract(t, pages) ==
    "own_pages" \in Contracts => \A p \in pages : kernel[p] \in {t, Nobody}

Set(f, pages, v) == [p \in Pages |-> IF p \in pages THEN v ELSE f[p]]
-----------------------------------------------------------------------------
\* The raw calls.  One that fails changes nothing and tells nobody.
raw_mmap(t, pages, fixed) ==
    /\ pending[t] = Idle
    /\ fixed \/ \A p \in pages : kernel[p] = Nobody
    /\ ReuseContract(pages) /\ OwnContract(t, pages)
    /\ kernel' = Set(kernel, pages, t)
    /\ pending' = [pending EXCEPT ![t] =
                     [op |-> "mmap", pages |-> pages, fixed |-> fixed, old |-> {}]]
    /\ UNCHANGED <<record, aborted>>

ToldOfUnmap_Always(ret, told) == told
ToldOfUnmap(ret, told) == IF ret = 0 THEN told ELSE Idle

raw_munmap(t, pages, ret) ==
    /\ pending[t] = Idle
    /\ ReuseContract(pages) /\ OwnContract(t, pages)
    /\ kernel' = IF ret = 0 THEN Set(kernel, pages, Nobody) ELSE kernel
    /\ pending' = [pending EXCEPT ![t] =
         ToldOfUnmap(ret, [op |-> "munmap", pages |-> pages, fixed |-> FALSE, old |-> {}])]
    /\ UNCHANGED <<record, aborted>>

\* A move of mapped pages to free ones.
raw_mremap(t, old, pages) ==
    /\ pending[t] = Idle
    /\ old \cap pages = {}
    /\ \A p \in old : kernel[p] # Nobody
    /\ \A p \in pages : kernel[p] = Nobody
    /\ ReuseContract(pages \cup old) /\ OwnContract(t, old)
    /\ kernel' = Set(Set(kernel, pages, t), old, Nobody)
    /\ pending' = [pending EXCEPT ![t] =
                     [op |-> "mremap", pages |-> pages, fixed |-> FALSE, old |-> old]]
    /\ UNCHANGED <<record, aborted>>
-----------------------------------------------------------------------------
\* __mmap_allocator_notify_mmap and _notify_mremap abort on memory they
\* already have, unless MAP_FIXED.
OverlapsUnasked_EvenFixed(told) == \E p \in told.pages : record[p] # Nobody
OverlapsUnasked(told) == ~told.fixed /\ \E p \in told.pages : record[p] # Nobody

notify_map(t) ==
    LET told == pending[t]
    IN  /\ told.op \in {"mmap", "mremap"}
        /\ IF OverlapsUnasked(told)
           THEN aborted' = TRUE /\ UNCHANGED record
           ELSE /\ record' = Set(Set(record, told.pages, t), told.old, Nobody)
                /\ UNCHANGED aborted
        /\ pending' = [pending EXCEPT ![t] = Idle]
        /\ UNCHANGED kernel

notify_munmap(t) ==
    /\ pending[t].op = "munmap"
    /\ record' = Set(record, pending[t].pages, Nobody)
    /\ pending' = [pending EXCEPT ![t] = Idle]
    /\ UNCHANGED <<kernel, aborted>>

Next ==
    /\ ~aborted
    /\ \E t \in Threads :
         \/ \E pages \in SUBSET Pages \ {{}} :
              \/ \E fixed \in BOOLEAN : raw_mmap(t, pages, fixed)
              \/ \E ret \in {0, 1} : raw_munmap(t, pages, ret)
              \/ \E old \in SUBSET Pages \ {{}} : raw_mremap(t, old, pages)
         \/ notify_map(t)
         \/ notify_munmap(t)

Spec == Init /\ [][Next]_vars
-----------------------------------------------------------------------------
\* A page about which nothing is still to be told is recorded as it is mapped,
\* by whoever mapped it, and two threads are never about to tell of the same
\* page: the replacements lose nothing, whatever the order of the threads.
AgreesWhenTold ==
    /\ \A p \in Pages \ InFlight : record[p] = kernel[p]
    /\ \A t, u \in Threads : t # u =>
         (pending[t].pages \cup pending[t].old)
            \cap (pending[u].pages \cup pending[u].old) = {}

\* do_mmap aborts on an overlap that nobody asked for because an overlap
\* "should only happen when the caller really wants to map something over the
\* top, not when asking for a free addr".
OnlyAskedOverlaps == ~aborted
=============================================================================
