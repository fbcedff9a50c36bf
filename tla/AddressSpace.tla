---------------------------- MODULE AddressSpace ----------------------------
(***************************************************************************)
(* The allocators that carve up the address space, running on one table of *)
(* big allocations: the program break, loaded files with their segments    *)
(* and sections, the initial stack (src/allocators/stack.c) and the        *)
(* auxiliary vector above it (src/allocators/auxv.c). First the last two:  *)
(* the mapping of the stack holds one allocation of the auxv allocator,    *)
(* and that one the stack proper, which ends where the argument count      *)
(* lies; the kernel grows the mapping down without telling, and an address *)
(* that is not indexed makes the three allocations follow. Then the        *)
(* composition: the modules keep their own state, and todo interleaves     *)
(* their calls.                                                            *)
(***************************************************************************)
EXTENDS StaticFiles

CONSTANTS argcountp,        \* __auxv_program_argcountp
          asciiz_end,       \* __auxv_asciiz_end
          SaneDelta         \* guess_sane_max_stack_delta()

VARIABLES auxv_bigalloc, initial_stack_bigalloc

stackVars == <<auxv_bigalloc, initial_stack_bigalloc>>
allVars == <<vars, kept, stackVars, todo, aborted>>

\* The mapping whose sequence is named "[stack]".
StackMapping == {m \in Children(0) : stack_low <= begin[m] /\ Contains(m, argcountp)}

\* __auxv_allocator_notify_init_stack_mapping_sequence: the first call makes
\* the two allocations.
AuxvCalls == <<[op |-> "auxv"], [op |-> "stack"]>>
notify_init_stack(t) ==
    /\ brk_mapping_bigalloc = 0     \* while the mappings are first listed
    /\ auxv_bigalloc = 0 /\ StackMapping # {}
    /\ Begin(t, AuxvCalls)
    /\ UNCHANGED <<vars, kept, stackVars>>

new_auxv(t) ==
    /\ Calls(t, "auxv")
    /\ \E m \in StackMapping : new_bigalloc(begin[m], end[m], "auxv")
    /\ auxv_bigalloc' \in find_free_bigalloc
    /\ Done(t)
    /\ UNCHANGED <<kept, initial_stack_bigalloc>>
\* __stack_allocator_notify_init_stack_region
new_stack(t) ==
    /\ Calls(t, "stack")
    /\ new_bigalloc(begin[auxv_bigalloc], argcountp, "stack")
    /\ initial_stack_bigalloc' \in find_free_bigalloc
    /\ Done(t)
    /\ UNCHANGED <<kept, auxv_bigalloc>>

\* A later call ("We've been here before"): begin is lowered in place, and the
\* end raised to cover the strings, after what is there has been cut.
notify_init_stack_again(t, lo) ==
    /\ auxv_bigalloc # 0 /\ initial_stack_bigalloc # 0
    /\ "asciiz_within" \in Contracts =>
          begin[auxv_bigalloc] <= lo /\ asciiz_end <= end[auxv_bigalloc]
    /\ LET pi == pageindex[ROUND_DOWN(asciiz_end)]
           newEnd == UpToPage(asciiz_end)
       IN  Begin(t, IF asciiz_end <= end[auxv_bigalloc] THEN <<>>
                    ELSE (IF pi = 0 THEN <<>>
                          ELSE <<[op |-> "cut", at |-> newEnd, b |-> pi]>>)
                         \o <<[op |-> "raise", at |-> newEnd, b |-> auxv_bigalloc]>>)
    /\ begin' = IF lo < begin[auxv_bigalloc]
                THEN [begin EXCEPT ![auxv_bigalloc] = lo] ELSE begin
    /\ UNCHANGED <<end, parent, allocated_by, pageindex, kept, stackVars>>
-----------------------------------------------------------------------------
\* The kernel extends its mapping down to the page of an access.
kernel_grow(lo) ==
    /\ stack_floor <= lo /\ lo < stack_low /\ PageAligned(lo)
    /\ StackMapping # {}
    /\ \A m \in Children(0) : end[m] <= lo \/ stack_low <= begin[m]
                               \/ Contains(m, argcountp)
    /\ stack_low' = lo
    /\ UNCHANGED <<vars, todo, aborted, break, curbrk, brk_range, stack_floor,
                   brkRecord, fileVars, stackVars>>

__pages_unused(i, j) == \A p \in PageRange(i, j) : pageindex[p] = 0

PreExtendChain_ChildFirst(to) ==
    <<[op |-> "lower", at |-> to, b |-> initial_stack_bigalloc],
      [op |-> "lower", at |-> to, b |-> auxv_bigalloc],
      [op |-> "lower", at |-> to, b |-> parent[auxv_bigalloc]]>>
PreExtendChain_ParentsOnly(to) ==
    <<[op |-> "lower", at |-> to, b |-> parent[auxv_bigalloc]],
      [op |-> "lower", at |-> to, b |-> auxv_bigalloc]>>
\* __liballocs_pre_extend_bigalloc_recursive: the outermost first.
PreExtendChain(to) ==
    <<[op |-> "lower", at |-> to, b |-> parent[auxv_bigalloc]],
      [op |-> "lower", at |-> to, b |-> auxv_bigalloc],
      [op |-> "lower", at |-> to, b |-> initial_stack_bigalloc]>>

\* __stack_allocator_notify_unindexed_address
stack_notify_unindexed_address(t, ptr) ==
    LET s == initial_stack_bigalloc
    IN  /\ s # 0 /\ stack_low <= ptr /\ pageindex[ROUND_DOWN(ptr)] = 0
        /\ ptr < begin[s] /\ begin[s] - ptr < SaneDelta
        /\ __pages_unused(ROUND_UP(ptr), ROUND_DOWN(begin[s]))
        /\ Begin(t, PreExtendChain(DownToPage(ptr)) \o <<[op |-> "claimed", at |-> ptr]>>)
        /\ UNCHANGED <<vars, kept, stackVars>>
\* The calls that change the bounds of an allocation of the chain.
resize(t) ==
    /\ \/ Calls(t, "lower") /\ IF Call(t).at < begin[Call(t).b]
                                THEN pre_extend_bigalloc(Call(t).b, Call(t).at)
                                ELSE UNCHANGED vars
       \/ Calls(t, "cut") /\ truncate_bigalloc_at_beginning(Call(t).b, Call(t).at)
       \/ Calls(t, "raise") /\ extend_bigalloc(Call(t).b, Call(t).at)
    /\ Done(t)
    /\ UNCHANGED <<kept, stackVars>>
claimed(t) ==
    /\ Calls(t, "claimed")
    /\ Done(t)
    /\ UNCHANGED <<vars, kept, stackVars>>

StackStep(t) ==
    new_auxv(t) \/ new_stack(t) \/ resize(t) \/ claimed(t)
StackNext ==
    \/ \E lo \in Addr : kernel_grow(lo)
    \/ notify_init_stack(Main)
    \/ \E t \in Threads :
          \/ StackStep(t)
          \/ \E at \in Addr \ {0} :
             /\ t = Main \/ systrap_is_initialized   \* one thread until then
             /\ \/ PageAligned(at) /\ notify_init_stack_again(t, at)
                \/ stack_notify_unindexed_address(t, at)

StackInContract(t) ==
    /\ Calls(t, "auxv") => \A m \in StackMapping : Children(m) = {}
    /\ Calls(t, "stack") => FitsIn(0, auxv_bigalloc, begin[auxv_bigalloc], argcountp)
    /\ Calls(t, "cut") => TruncateBeginContract(Call(t).b, Call(t).at)
    /\ Calls(t, "raise") => ExtendContract(Call(t).b, Call(t).at)
    /\ Calls(t, "lower") /\ Call(t).at < begin[Call(t).b] =>
          PreExtendContract(Call(t).b, Call(t).at)

\* An address of the grown stack that is claimed is found by the index to lie
\* in the stack's allocation, which is inside the auxv's and the mapping's.
ClaimedIsStack(t) ==
    Calls(t, "claimed") =>
        /\ pageindex[ROUND_DOWN(Call(t).at)] = initial_stack_bigalloc
        /\ parent[initial_stack_bigalloc] = auxv_bigalloc
        /\ parent[auxv_bigalloc] \in StackMapping
-----------------------------------------------------------------------------

CONSTANT Layouts    \* initial address spaces: rows (the table), break, range,
                    \* sequence (of the mapping below the break), stack_low,
                    \* stack_floor, files (loaded already), started

\* Either the constructors have not run (nothing but mappings), or they have.
ASInit ==
    \E l \in Layouts :
      /\ "sequence_room" \in Contracts =>
            \/ Len(l.sequence.mappings) < MaxEntries
            \/ l.sequence.mappings[Len(l.sequence.mappings)].is_anon
      /\ TableOf(l.rows)
      /\ todo = [t \in Threads |-> <<>>]
      /\ break = l.break /\ curbrk = l.break /\ brk_range = l.range
      /\ brk_bigalloc = IF l.started THEN 2 ELSE 0
      /\ brk_mapping_bigalloc = IF l.started THEN 1 ELSE 0
      /\ brk_sequence = l.sequence
      /\ systrap_is_initialized = l.started
      /\ present = {img \in Images : img.name \in l.files}
      /\ metadata = [b \in Num |-> NULL]
      /\ meta_open = {} /\ aborted = FALSE
      /\ stack_floor = l.stack_floor /\ stack_low = l.stack_low
      /\ auxv_bigalloc = 0 /\ initial_stack_bigalloc = 0

\* __mmap_allocator_init: the files that ld.so loaded come before the traps.
EarlyFilesRecorded == \A img \in present : \E b \in FilesInUse : begin[b] = First(img)
ASNext ==
    \/ /\ EarlyFilesRecorded
       /\ systrap_init(Main)
       /\ UNCHANGED <<fileVars, stackVars>>
    \/ BrkNext /\ UNCHANGED <<fileVars, stackVars>>
    \/ FileNext /\ UNCHANGED stackVars
    \/ StackNext
    \/ aborted /\ UNCHANGED allVars

\* A thread that is handling a call, a load or a fault goes on with it.
Step(t) ==
    \/ BrkStep(t) /\ UNCHANGED <<fileVars, stackVars>>
    \/ FileStep(t) /\ UNCHANGED stackVars
    \/ StackStep(t)
ASSpec == ASInit /\ [][ASNext]_allVars /\ \A t \in Threads : WF_allVars(Step(t))
-----------------------------------------------------------------------------
\* Every call that brk.c, mmap.c, stack.c, auxv.c and the static allocators
\* make on the table keeps what pageindex.c expects of its callers, whatever
\* the other threads did since the operation began: children stay inside
\* their parents and beside their siblings at every intermediate step, and an
\* unload reads only names that are there.
CallsWithinContract ==
    \A t \in Threads : ~Idle(t) =>
        BrkInContract(t) /\ FilesInContract(t) /\ StackInContract(t)

\* When an allocator that was told of an address unknown to the index (the break
\* that has moved before its calls trap, the stack that has grown) says that it
\* is its own, the index has it: notify_unindexed_address is followed by a
\* second look that finds it.
MissesResolved == \A t \in Threads : EarlyLookupFinds(t) /\ ClaimedIsStack(t)

\* The record of the break does not stay behind: after each move of the
\* kernel's break it comes to agree with the kernel, unless the program aborts.
BreakCatchesUp ==
    (systrap_is_initialized /\ end[brk_bigalloc] # break)
      ~> (systrap_is_initialized /\ end[brk_bigalloc] = break) \/ aborted
=============================================================================
