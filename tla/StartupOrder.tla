---------------------------- MODULE StartupOrder ----------------------------
(***************************************************************************)
(* The order in which liballocs starts, and how mappings come to the mmap  *)
(* allocator's notice meanwhile.  __mmap_allocator_init (mmap.c),          *)
(* __static_file_allocator_init (static-file.c) and                        *)
(* __liballocs_global_init (init.c) call each other, are constructors too, *)
(* and may be entered again by a query or a lookup made while they run: a  *)
(* stack of calls.  A mapping is told of by the scan of the maps file, by  *)
(* the mmap of preload.c, for liballocs' own calls, or by the replacement  *)
(* of the system call (systrap.c), once the code that makes it is trapped. *)
(***************************************************************************)
EXTENDS Naturals, Sequences

CONSTANTS Mappings,         \* the mappings that come and go during a run
          MaxDepth,         \* the depth of the stack of calls
          OrderContracts

ASSUME OrderContractsAssumption ==
    OrderContracts \subseteq {"quiet_between", "known_code", "sane_lengths", "no_early_query"}

\* What each initializer does, in order: systrap replaces the instructions of
\* executable mappings before it says that it is initialized.
systrap_init == <<"trap", "systrap_on">>
post_systrap_init == <<"dlbind">>
mmap_allocator_init ==
    <<"pageindex", "holes", "read_maps", "add_maps", "brk", "runt_files">>
      \o systrap_init \o <<"notify_brk", "meta_objects">> \o post_systrap_init
      \o <<"call_global", "finish">>
static_file_allocator_init == <<"runt_files", "call_mmap", "auxv", "finish">>
global_init == <<"call_mmap", "call_files", "finish">>
Steps ==
    [mmap |-> mmap_allocator_init, files |-> static_file_allocator_init, global |-> global_init]
Callee(step) ==
    CASE step = "call_mmap" -> {"mmap"} [] step = "call_files" -> {"files"}
      [] step = "call_global" -> {"global"} [] OTHER -> {}

\* The order of the stages that their comments ask for.
Stages == <<"pageindex", "holes", "read_maps", "add_maps", "brk", "runt_files",
            "trap", "systrap_on", "notify_brk", "meta_objects", "dlbind", "auxv">>

VARIABLES stack,        \* frames [fn, pc], the innermost last
          constructors, \* those still to run
          entered,      \* the initializers that were begun (trying, tried)
          initialized,  \* those that have finished
          done,         \* the stages gone through
          snapshot,     \* what the maps file showed when it was read
          present, told, \* what is mapped; how often each mapping was told of
          failed       \* what the process has aborted for

ovars == <<stack, constructors, entered, initialized, done, snapshot, present, told, failed>>

Done(stage) == \E i \in DOMAIN done : done[i] = stage
-----------------------------------------------------------------------------
OrderInit ==
    /\ stack = <<>> /\ constructors = <<"mmap", "files", "global">>
    /\ entered = {} /\ initialized = {} /\ done = <<>>
    /\ snapshot = {}
    /\ present \in SUBSET Mappings
    /\ told = [m \in Mappings |-> 0]
    /\ failed = "no"

\* An initializer begins unless it has begun before: each has a flag for it
\* (for global, tried_to_initialize, so that a second call returns -1).
MayBegin_Unflagged(fn) == fn \notin initialized
MayBegin(fn) == fn \notin entered

Frame(fn) == [fn |-> fn, pc |-> 1]
Advance(s) == [s EXCEPT ![Len(s)].pc = @ + 1]

\* A call that does not begin returns at once, whether or not the initializer
\* has finished: its caller may be running because of it.
Call_Waits(fn, s) ==
    /\ MayBegin(fn) \/ fn \in initialized
    /\ IF MayBegin(fn) THEN stack' = Append(s, Frame(fn)) /\ entered' = entered \cup {fn}
       ELSE stack' = s /\ UNCHANGED entered
Call(fn, s) ==
    IF MayBegin(fn) THEN stack' = Append(s, Frame(fn)) /\ entered' = entered \cup {fn}
    ELSE stack' = s /\ UNCHANGED entered

run_constructor ==
    /\ stack = <<>> /\ constructors # <<>> /\ failed = "no"
    /\ Call(Head(constructors), stack)
    /\ constructors' = Tail(constructors)
    /\ UNCHANGED <<initialized, done, snapshot, present, told, failed>>

\* find_bigalloc_recursive calls __mmap_allocator_init when nothing is indexed
\* yet; __liballocs_ensure_init calls __liballocs_global_init and asserts that
\* it returns 0.
lookup_early ==
    /\ failed = "no" /\ Len(stack) < MaxDepth /\ ~Done("add_maps")
    /\ Call("mmap", stack)
    /\ UNCHANGED <<constructors, initialized, done, snapshot, present, told, failed>>

MayQuery ==
    "no_early_query" \in OrderContracts => "global" \in initialized \/ stack = <<>>
ensure_init ==
    /\ failed = "no" /\ Len(stack) < MaxDepth /\ "global" \notin initialized /\ MayQuery
    /\ Call("global", stack)
    /\ failed' = IF MayBegin("global") THEN "no" ELSE "assert"
    /\ UNCHANGED <<constructors, initialized, done, snapshot, present, told>>
-----------------------------------------------------------------------------
\* The mmap allocator aborts when it is told of memory that it has.
Tell(M) ==
    /\ told' = [m \in Mappings |-> told[m] + (IF m \in M THEN 1 ELSE 0)]
    /\ failed' = IF \E m \in M : told[m] # 0 THEN "told" ELSE failed

\* The effect of a stage; one that was gone through already (the files, which
\* are added by librunt) has none.
Effect(stage) ==
    /\ snapshot' = IF stage = "read_maps" THEN present ELSE snapshot
    /\ IF stage = "add_maps" THEN Tell(snapshot) ELSE UNCHANGED <<told, failed>>

step ==
    /\ stack # <<>> /\ failed = "no"
    /\ LET top == stack[Len(stack)]
           next == Steps[top.fn][top.pc]
       IN  IF next = "finish"
           THEN /\ stack' = SubSeq(stack, 1, Len(stack) - 1)
                /\ initialized' = initialized \cup {top.fn}
                /\ UNCHANGED <<entered, done, snapshot, told, failed>>
           ELSE IF Callee(next) # {}
           THEN /\ \E fn \in Callee(next) : Call(fn, Advance(stack))
                /\ UNCHANGED <<initialized, done, snapshot, told, failed>>
           ELSE /\ stack' = Advance(stack)
                /\ done' = IF next = "runt_files" /\ Done(next) THEN done ELSE Append(done, next)
                /\ Effect(next)
                /\ UNCHANGED <<entered, initialized>>
    /\ UNCHANGED <<constructors, present>>
-----------------------------------------------------------------------------
(***************************************************************************)
(* Mappings.  A call is made by liballocs itself, which goes through       *)
(* preload.c; by code present when maps were trapped ("old"); or by code   *)
(* that was loaded later and is not trapped ("new").                       *)
(***************************************************************************)
Callers == {"self", "old"} \cup (IF "known_code" \in OrderContracts THEN {} ELSE {"new"})

\* "systrapping not init'd" is "too early" for preload.c; a call that is longer
\* than BIGGEST_BIGALLOC is the page index and skips the hook there, only: told
\* of one, memset_bigalloc aborts.
IsTold_TooEarly(caller, huge) ==
    IF caller = "self" THEN ~huge ELSE caller = "old" /\ Done("trap")
IsTold(caller, huge) ==
    IF caller = "self" THEN Done("systrap_on") /\ ~huge ELSE caller = "old" /\ Done("trap")

\* Between the reading of the maps file and the moment calls are noticed,
\* nothing is mapped or unmapped.
Quiet(caller) ==
    "quiet_between" \in OrderContracts /\ Done("read_maps") /\ ~Done("systrap_on") =>
        IsTold(caller, FALSE)

mmap(m, caller, huge) ==
    /\ failed = "no" /\ m \notin present /\ told[m] = 0 /\ Quiet(caller)
    /\ "sane_lengths" \in OrderContracts => ~huge
    /\ present' = present \cup {m}
    /\ IF ~IsTold(caller, huge) THEN UNCHANGED <<told, failed>>
       ELSE IF huge THEN failed' = "told" /\ UNCHANGED told
       ELSE Tell({m})
    /\ UNCHANGED <<stack, constructors, entered, initialized, done, snapshot>>

\* munmap is always the C library's.
munmap(m) ==
    /\ failed = "no" /\ m \in present /\ Quiet("old")
    /\ present' = present \ {m}
    /\ told' = IF IsTold("old", FALSE) THEN [told EXCEPT ![m] = 0] ELSE told
    /\ UNCHANGED <<stack, constructors, entered, initialized, done, snapshot, failed>>

StartStep == step \/ run_constructor
OrderNext ==
    \/ step
    \/ run_constructor
    \/ lookup_early
    \/ ensure_init
    \/ \E m \in Mappings :
         \/ munmap(m)
         \/ \E caller \in Callers, huge \in BOOLEAN : mmap(m, caller, huge)

OrderSpec == OrderInit /\ [][OrderNext]_ovars
-----------------------------------------------------------------------------
\* However the initializers are entered, by constructors, by each other or by
\* an early lookup, every stage is gone through once and in the order that the
\* later ones need ("we have to do this before we init systrap", "ensure the
\* file metadata for the early libs is in place"), and no assertion fails.
StagesInOrder ==
    /\ failed # "assert"
    /\ done = SubSeq(Stages, 1, Len(done))

\* Once calls are trapped, every mapping was told of exactly once, whichever
\* of the three ways it came by, and none that is gone is still recorded:
\* "exactly one of these paths (preload or systrap) should be hit".
ToldOnce ==
    /\ failed # "told"
    /\ Done("systrap_on") =>
         \A m \in Mappings : told[m] = (IF m \in present THEN 1 ELSE 0)

\* An initializer that has begun finishes, though it may be entered again, by
\* what it calls or by a lookup, before it has.
StartupFinishes == \A fn \in DOMAIN Steps : fn \in entered ~> fn \in initialized
=============================================================================
