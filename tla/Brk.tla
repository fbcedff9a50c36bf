-------------------------------- MODULE Brk --------------------------------
(***************************************************************************)
(* How the allocators that sit on the big-allocation table call it, and    *)
(* the first of them: the program break (src/allocators/brk.c) with the    *)
(* mapping it lies in (the brk part of src/allocators/mmap.c). A call into *)
(* src/pageindex.c holds BIG_LOCK for its own duration only, so an         *)
(* allocator's operation is a list of calls, todo[t], that thread t takes  *)
(* one at a time, and what other threads do may come between. The break is *)
(* an allocation brk_bigalloc that ends at the break, inside a mapping     *)
(* that ends at the page above it, both moved after each brk system call,  *)
(* and before the calls are trapped only when something notices.           *)
(***************************************************************************)
EXTENDS Bigalloc, Sequences

CONSTANT Threads

VARIABLES todo,     \* for each thread, what is left of its operation
          aborted

Idle(t) == todo[t] = <<>>
Calls(t, op) == ~aborted /\ todo[t] # <<>> /\ Head(todo[t]).op = op
Call(t) == Head(todo[t])
Doing(ops) == \E t \in Threads : ~Idle(t) /\ Head(todo[t]).op \in ops
Done(t) == todo' = [todo EXCEPT ![t] = Tail(@)] /\ UNCHANGED aborted
\* The call at the head turns out to be these calls.
Becomes(t, calls) ==
    todo' = [todo EXCEPT ![t] = calls \o Tail(@)] /\ UNCHANGED aborted
Begin(t, calls) ==
    /\ ~aborted /\ Idle(t)
    /\ todo' = [todo EXCEPT ![t] = calls] /\ UNCHANGED aborted
Abort(t) == aborted' = TRUE /\ UNCHANGED todo

UpToPage(a) == ROUND_UP(a) * PageSize
DownToPage(a) == ROUND_DOWN(a) * PageSize

\* A table with these rows, a parent before its children: begin, end, parent
\* and allocator of each.
TableOf(rows) ==
    LET Row(b, i, none) == IF b <= Len(rows) THEN rows[b][i] ELSE none
        spanning(p) == {b \in DOMAIN rows : p \in Spanned(rows[b][1], rows[b][2])}
    IN  /\ begin = [b \in Num |-> Row(b, 1, 0)]
        /\ end = [b \in Num |-> Row(b, 2, 0)]
        /\ parent = [b \in Num |-> Row(b, 3, 0)]
        /\ allocated_by = [b \in Num |-> Row(b, 4, NoAllocator)]
        /\ pageindex = [p \in Page |->
              IF spanning(p) = {} THEN 0
              ELSE CHOOSE b \in spanning(p) : \A c \in spanning(p) : c <= b]

AdjustContract(b, newEnd) ==
    /\ newEnd < end[b] => TruncateEndContract(b, newEnd)
    /\ end[b] < newEnd => ExtendContract(b, newEnd)

__adjust_bigalloc_end(b, newEnd) ==
    \/ truncate_bigalloc_at_end(b, newEnd)
    \/ extend_bigalloc(b, newEnd)
    \/ newEnd = end[b] /\ UNCHANGED vars
-----------------------------------------------------------------------------

CONSTANTS Main,         \* the thread that runs the constructors
          MaxEntries,   \* MAPPING_SEQUENCE_MAX_LEN
          Contracts     \* what is assumed of the program and of the kernel

ContractNames ==
    {"brk_serialised",      \* one thread at a time moves the break
     "early_break_aligned", \* the break starts on a page, or in the mapping
     "never_emptied",       \* the break is not brought down to where it began
     "sequence_room",       \* the mapping sequence has an entry left
     "early_nearby",        \* early lookups are of the page after the record's end
     "asciiz_within",       \* the strings lie in the stack's first mapping
     "one_load_per_name",   \* no two loaded files have one name
     "loads_serialised",    \* one thread at a time loads or unloads
     "data_segment_last"}   \* an executable's data segment is its highest
ASSUME BrkContractsAssumption == Contracts \subseteq ContractNames

VARIABLES break,            \* the kernel's
          curbrk,           \* __curbrk: libc's, set when its call returns
          brk_range,        \* the lowest and the highest break it grants
          stack_floor,      \* the kernel maps below it, the stack grows above
          stack_low,        \* where the kernel's stack mapping begins
          brk_bigalloc, brk_mapping_bigalloc,
          brk_sequence,     \* the mapping sequence of brk_mapping_bigalloc
          systrap_is_initialized

limits == <<brk_range, stack_floor, stack_low>>
kernelVars == <<break, curbrk, limits>>
brkRecord == <<brk_bigalloc, brk_mapping_bigalloc, brk_sequence,
               systrap_is_initialized>>
brkVars == <<kernelVars, brkRecord>>

MS == INSTANCE MappingSequence
          WITH MaxLen <- MaxEntries, NoFile <- "anon", NoCaller <- "none"
BrkOps == {"notify", "update", "mmap", "truncate", "extend", "return"}
AllIdle == \A t \in Threads : Idle(t)
-----------------------------------------------------------------------------
\* find_existing_brk_mapping: the mapping at the break, or else the one below
\* it when no other mapping begins between the two.
find_existing_brk_mapping(at) ==
    LET here == {m \in Children(0) : Contains(m, at)}
    IN  IF here # {} THEN here
        ELSE {m \in Children(0) : end[m] <= at /\
                 \A n \in Children(0) : begin[n] < at => begin[n] <= begin[m]}

BreakEntry(lo, hi) ==
    [begin |-> lo, end |-> hi, prot |-> "rw", fixed |-> FALSE,
     is_anon |-> TRUE, caller |-> "none"]

GrownSequence_Shifted(seq, newEnd) ==
    [seq EXCEPT !.end = newEnd,
                !.mappings = Append(@, BreakEntry(seq.end, newEnd))]
\* The sequence stretched to newEnd: the last entry when it is anonymous,
\* else an anonymous entry of its own, with no check of the room left.
GrownSequence(seq, newEnd) ==
    LET m == seq.mappings
        last == m[Len(m)]
    IN  [seq EXCEPT !.end = newEnd,
           !.mappings = IF last.is_anon THEN [@ EXCEPT ![Len(m)].end = newEnd]
                        ELSE Append(@, BreakEntry(last.end, newEnd))]

\* __mmap_allocator_notify_brk
mmap_notify_brk(new) ==
    LET m == brk_mapping_bigalloc
        newEnd == UpToPage(new)
    IN  IF m = 0 THEN UNCHANGED <<vars, brk_sequence>>
        ELSE /\ __adjust_bigalloc_end(m, newEnd)
             /\ brk_sequence' =
                  IF newEnd > end[m] THEN GrownSequence(brk_sequence, newEnd)
                  ELSE IF newEnd < end[m]
                  THEN MS!delete_mapping_sequence_span(brk_sequence, newEnd, end[m])
                  ELSE brk_sequence
-----------------------------------------------------------------------------
\* __brk_allocator_init: the mapping is found, made to reach the break,
\* and given a byte of break when it has none.
brk_init(t) ==
    /\ brk_mapping_bigalloc = 0
    /\ Begin(t, <<[op |-> "cover", at |-> curbrk], [op |-> "reserve", at |-> curbrk],
                  [op |-> "create", at |-> curbrk]>>)
    /\ brk_mapping_bigalloc' \in find_existing_brk_mapping(curbrk)
    /\ UNCHANGED <<vars, kernelVars, brk_bigalloc, brk_sequence,
                   systrap_is_initialized>>

cover(t) ==
    /\ Calls(t, "cover")
    /\ IF end[brk_mapping_bigalloc] < Call(t).at
       THEN extend_bigalloc(brk_mapping_bigalloc, Call(t).at)
       ELSE UNCHANGED vars
    /\ Done(t)
    /\ UNCHANGED brkVars

reserve(t) ==
    /\ Calls(t, "reserve")
    /\ IF end[brk_mapping_bigalloc] = Call(t).at
       THEN /\ break' = break + 1
            /\ curbrk' = curbrk + 1
            /\ mmap_notify_brk(Call(t).at + 1)
       ELSE UNCHANGED <<vars, break, curbrk, brk_sequence>>
    /\ Done(t)
    /\ UNCHANGED <<limits, brk_bigalloc, brk_mapping_bigalloc,
                   systrap_is_initialized>>

create_brk_bigalloc(t) ==
    /\ Calls(t, "create")
    /\ new_bigalloc_under(Call(t).at, end[brk_mapping_bigalloc],
                          brk_mapping_bigalloc, "brk")
    /\ brk_bigalloc' \in find_free_bigalloc
    /\ Done(t)
    /\ UNCHANGED <<kernelVars, brk_mapping_bigalloc, brk_sequence,
                   systrap_is_initialized>>
-----------------------------------------------------------------------------
Notify(new) == <<[op |-> "notify", at |-> new]>>

\* __brk_allocator_notify_brk: "If the brk is growing, we need to first grow
\* the mmap and then grow brk."  What it compares with is libc's break.
NotifyOrder(new) ==
    IF curbrk < new
    THEN <<[op |-> "mmap", at |-> new], [op |-> "update", at |-> new]>>
    ELSE <<[op |-> "update", at |-> new], [op |-> "mmap", at |-> new]>>
notify_brk(t) ==
    /\ Calls(t, "notify")
    /\ Becomes(t, IF brk_bigalloc = 0 THEN <<>> ELSE NotifyOrder(Call(t).at))
    /\ UNCHANGED <<vars, brkVars>>

UpdateOrder_Retry(new) ==
    IF new < end[brk_bigalloc]
    THEN <<[op |-> "truncate", at |-> new], [op |-> "mmap", at |-> new]>>
    ELSE IF new > end[brk_bigalloc]
    THEN <<[op |-> "mmap", at |-> new], [op |-> "update", at |-> new]>>
    ELSE <<>>
UpdateOrder(new) ==
    IF new < end[brk_bigalloc]
    THEN <<[op |-> "truncate", at |-> new], [op |-> "mmap", at |-> new]>>
    ELSE IF new > end[brk_bigalloc]
    THEN <<[op |-> "mmap", at |-> new], [op |-> "extend", at |-> new]>>
    ELSE <<>>
update_brk(t) ==
    /\ Calls(t, "update")
    /\ Becomes(t, UpdateOrder(Call(t).at))
    /\ UNCHANGED <<vars, brkVars>>

tell_mmap(t) ==
    /\ Calls(t, "mmap")
    /\ mmap_notify_brk(Call(t).at)
    /\ Done(t)
    /\ UNCHANGED <<kernelVars, brk_bigalloc, brk_mapping_bigalloc,
                   systrap_is_initialized>>

move_brk_end(t) ==
    /\ \/ Calls(t, "truncate") /\ truncate_bigalloc_at_end(brk_bigalloc, Call(t).at)
       \/ Calls(t, "extend") /\ extend_bigalloc(brk_bigalloc, Call(t).at)
    /\ Done(t)
    /\ UNCHANGED brkVars

\* libc stores the break that its brk call returned.
libc_return(t) ==
    /\ Calls(t, "return")
    /\ curbrk' = Call(t).at
    /\ Done(t)
    /\ UNCHANGED <<vars, break, limits, brkRecord>>
-----------------------------------------------------------------------------
\* The kernel moves the break, or leaves it where it was; either way what it
\* returns is the break.
KernelGrants(want) == brk_range[1] <= want /\ want <= brk_range[2]
Allowed(want) ==
    "never_emptied" \in Contracts /\ brk_bigalloc # 0 =>
        want > begin[brk_bigalloc]

brk_untrapped(want) ==
    /\ ~systrap_is_initialized
    /\ AllIdle /\ ~aborted
    /\ KernelGrants(want) /\ Allowed(want)
    /\ "early_break_aligned" \in Contracts /\ brk_bigalloc = 0 =>
          PageAligned(want) \/ \E m \in Children(0) : Contains(m, want)
    /\ break' = want
    /\ curbrk' = want
    /\ UNCHANGED <<vars, todo, aborted, limits, brkRecord>>

brk_replacement(t, want) ==
    /\ systrap_is_initialized
    /\ Allowed(want)
    /\ "brk_serialised" \in Contracts => ~Doing(BrkOps)
    /\ break' = IF KernelGrants(want) THEN want ELSE break
    /\ Begin(t, Notify(break') \o <<[op |-> "return", at |-> break']>>)
    /\ UNCHANGED <<vars, curbrk, limits, brkRecord>>

\* From here on brk calls trap; what was missed until now is caught up with.
systrap_init(t) ==
    /\ brk_bigalloc # 0 /\ ~systrap_is_initialized
    /\ systrap_is_initialized' = TRUE
    /\ Begin(t, Notify(break))
    /\ UNCHANGED <<vars, kernelVars, brk_bigalloc, brk_mapping_bigalloc, brk_sequence>>

\* The pages find_bigalloc_recursive looks at for an address that is not
\* indexed: the distance it tests is unsigned, so it stops at the second.
SearchedPages(page) == {page - 1} \cap Page

early_lookup(t, addr) ==
    LET page == ROUND_DOWN(addr)
    IN  /\ ~systrap_is_initialized /\ brk_bigalloc # 0
        /\ brk_range[1] <= addr /\ addr < break /\ pageindex[page] = 0
        /\ "early_nearby" \in Contracts => end[brk_bigalloc] = page * PageSize
        /\ LET near == {p \in SearchedPages(page) : pageindex[p] # 0}
           IN  Begin(t, (IF \E p \in near :
                             Contains(brk_bigalloc, (p + 1) * PageSize - 1)
                         THEN Notify(break) ELSE <<>>)
                        \o <<[op |-> "retry", at |-> addr]>>)
        /\ UNCHANGED <<vars, brkVars>>
retry(t) ==
    /\ Calls(t, "retry")
    /\ Done(t)
    /\ UNCHANGED <<vars, brkVars>>

\* __brk_allocator_notify_unindexed_address
brk_notify_unindexed_address(t) ==
    /\ systrap_is_initialized
    /\ "brk_serialised" \in Contracts => ~Doing(BrkOps)
    /\ Begin(t, <<[op |-> "update", at |-> break]>>)
    /\ UNCHANGED <<vars, brkVars>>

BrkStep(t) ==
    \/ cover(t) \/ reserve(t) \/ create_brk_bigalloc(t)
    \/ notify_brk(t) \/ update_brk(t) \/ tell_mmap(t) \/ move_brk_end(t)
    \/ libc_return(t) \/ retry(t)

Breaks == (brk_range[1] - 1)..(brk_range[2] + 1)
BrkNext ==
    \/ brk_init(Main)
    \/ \E at \in Breaks : brk_untrapped(at) \/ early_lookup(Main, at)
    \/ \E t \in Threads :
          \/ BrkStep(t)
          \/ brk_notify_unindexed_address(t)
          \/ \E want \in Breaks : brk_replacement(t, want)
-----------------------------------------------------------------------------
\* What pageindex.c expects of the call at the head of t's list.
BrkInContract(t) ==
    LET m == brk_mapping_bigalloc IN
    /\ Calls(t, "cover") /\ end[m] < Call(t).at => ExtendContract(m, Call(t).at)
    /\ Calls(t, "reserve") /\ end[m] = Call(t).at =>
          AdjustContract(m, UpToPage(Call(t).at + 1))
    /\ Calls(t, "create") => FitsIn(0, m, Call(t).at, end[m])
    /\ Calls(t, "mmap") => AdjustContract(m, UpToPage(Call(t).at))
    /\ Calls(t, "truncate") =>
          Call(t).at < end[brk_bigalloc] /\ TruncateEndContract(brk_bigalloc, Call(t).at)
    /\ Calls(t, "extend") =>
          end[brk_bigalloc] < Call(t).at /\ ExtendContract(brk_bigalloc, Call(t).at)

\* Once brk calls trap and none is being handled, the allocation ends at the
\* kernel's break and its mapping at the page above, and the mapping's
\* sequence describes exactly that mapping within its fixed array.
BrkAgrees ==
    systrap_is_initialized /\ AllIdle =>
        /\ end[brk_bigalloc] = break
        /\ end[brk_mapping_bigalloc] = UpToPage(break)
        /\ brk_sequence.begin = begin[brk_mapping_bigalloc]
        /\ brk_sequence.end = end[brk_mapping_bigalloc]
        /\ MS!check_mapping_sequence_sanity(brk_sequence)
        /\ Len(brk_sequence.mappings) <= MaxEntries

\* Before brk calls trap, a lookup of an address below the break that the
\* index does not know looks again when the break's new extent is recorded.
EarlyLookupFinds(t) == Calls(t, "retry") => pageindex[ROUND_DOWN(Call(t).at)] # 0
=============================================================================
