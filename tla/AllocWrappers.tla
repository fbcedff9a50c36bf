--------------------------- MODULE AllocWrappers ---------------------------
(***************************************************************************)
(* The wrappers that the linker plugin puts around a program's allocation  *)
(* functions (tools/stubgen.h, instantiated by tools/allocstubs.c): a      *)
(* thread's record of the allocation in progress, which nested wrappers    *)
(* leave to the outermost one, and what the hooks of malloc take from it   *)
(* when a chunk is indexed.  A suballocation is indexed with the size in   *)
(* that record.                                                            *)
(***************************************************************************)
EXTENDS Integers, Sequences, FiniteSets

CONSTANTS
    Sites,          \* call sites: positive
    Amounts,        \* sizes asked for: positive
    Granule,        \* a size is padded to a multiple of this for the insert
    MaxDepth,       \* of nested wrappers
    WrapperContracts

ASSUME AmountsAssumption ==
    Sites \subseteq Nat \ {0} /\ Amounts \subseteq Nat \ {0} /\ Granule \in Nat \ {0}
ASSUME AllocWrappersAssumption ==
    WrapperContracts \subseteq {"returns_normally", "passes_size", "sized_then_wrapped"}

VARIABLES
    tls,        \* __current_allocfn, allocsite, allocsz, __currently_allocating, _freeing
    frames,     \* the wrappers that have not returned, the outermost first
    event       \* the last chunk indexed: what was recorded and what was asked

wrapperVars == <<tls, frames, event>>

NoEvent == [site |-> 0, wanted |-> 0, size |-> 0, asked |-> 0]
Clear == [fn |-> 0, site |-> 0, sz |-> 0, allocating |-> FALSE, freeing |-> FALSE]
AllocKinds == {"alloc", "sz", "suballoc"}
Allocating == {i \in DOMAIN frames : frames[i].kind \in AllocKinds}
Outermost == frames[CHOOSE i \in Allocating : \A j \in Allocating : i <= j]

\* make_caller_wrapper, up to the call.
caller_wrapper(kind, site, size) ==
    LET setting == tls.fn = 0
        here == IF tls.site = 0 THEN site ELSE tls.site
    IN  /\ kind \in AllocKinds
        /\ Len(frames) < MaxDepth
        /\ tls' = IF setting
                  THEN [tls EXCEPT !.fn = Len(frames) + 1, !.site = here, !.sz = size,
                                   !.allocating = TRUE]
                  ELSE tls
        /\ frames' = Append(frames, [kind |-> kind, site |-> site, size |-> size,
                                     set |-> setting, first |-> ~tls.allocating])
        /\ UNCHANGED event

\* make_free_wrapper, up to the call.
free_wrapper ==
    /\ Len(frames) < MaxDepth
    /\ frames' = Append(frames, [kind |-> "free", site |-> 0, size |-> 0,
                                 set |-> ~tls.freeing, first |-> FALSE])
    /\ tls' = [tls EXCEPT !.freeing = TRUE]
    /\ UNCHANGED event

\* What the wrappers do after the call.
Reset_AnyLevel(s, f) ==
    IF f.kind = "free" THEN [s EXCEPT !.freeing = FALSE] ELSE [Clear EXCEPT !.freeing = s.freeing]
Reset(s, f) ==
    IF ~f.set THEN s
    ELSE IF f.kind = "free" THEN [s EXCEPT !.freeing = FALSE]
    ELSE [s EXCEPT !.site = 0, !.fn = 0,
                   !.sz = IF f.kind = "sz" THEN @ ELSE 0,
                   !.allocating = IF f.first THEN FALSE ELSE @]
HowCallsEnd == IF "returns_normally" \in WrapperContracts THEN {"return"}
               ELSE {"return", "longjmp"}
leave(how) ==
    LET f == frames[Len(frames)]
    IN  /\ frames # <<>>
        /\ tls' = IF how = "return" THEN Reset(tls, f) ELSE tls
        /\ frames' = SubSeq(frames, 1, Len(frames) - 1)
        /\ UNCHANGED event
-----------------------------------------------------------------------------
\* The site that a chunk should have: that of the outermost allocation wrapper.
WantedSite(caller) ==
    IF Allocating = {} THEN caller ELSE Outermost.site
CurrentSite(caller) == IF tls.site # 0 THEN tls.site ELSE caller

\* post_successful_alloc: malloc knows the size that was asked for.
post_successful_alloc(caller, asked) ==
    /\ event' = [site |-> CurrentSite(caller), wanted |-> WantedSite(caller),
                 size |-> asked, asked |-> asked]
    /\ UNCHANGED <<tls, frames>>

\* post_nonnull_nonzero_realloc: it does not, and takes the wrapper's, or
\* what the insert left of the padded size.
Padded(n) == ((n + Granule - 1) \div Granule) * Granule
ResizeContract(asked) ==
    /\ "passes_size" \in WrapperContracts =>
         (Allocating # {} => asked = Outermost.size)
    /\ "sized_then_wrapped" \in WrapperContracts => (Allocating = {} => tls.sz = 0)
RequestedSize(left) == IF tls.sz # 0 THEN tls.sz ELSE left
post_nonnull_nonzero_realloc(caller, asked) ==
    /\ ResizeContract(asked)
    /\ event' = [site |-> CurrentSite(caller), wanted |-> WantedSite(caller),
                 size |-> RequestedSize(Padded(asked)), asked |-> asked]
    /\ UNCHANGED <<tls, frames>>

\* __wrap___real_ of a suballocation function, inside its caller wrapper.
suballoc ==
    /\ frames # <<>> /\ frames[Len(frames)].kind = "suballoc"
    /\ event' = [site |-> CurrentSite(frames[Len(frames)].site),
                 wanted |-> WantedSite(0), size |-> tls.sz, asked |-> Outermost.size]
    /\ UNCHANGED <<tls, frames>>

WrappersInit ==
    /\ tls = Clear /\ frames = <<>> /\ event = NoEvent
WrappersNext ==
    \/ \E kind \in AllocKinds, site \in Sites, size \in Amounts : caller_wrapper(kind, site, size)
    \/ free_wrapper
    \/ \E how \in HowCallsEnd : leave(how)
    \/ \E caller \in Sites, asked \in Amounts :
         \/ post_successful_alloc(caller, asked)
         \/ post_nonnull_nonzero_realloc(caller, asked)
    \/ suballoc
WrappersSpec == WrappersInit /\ [][WrappersNext]_wrapperVars
-----------------------------------------------------------------------------
\* A chunk is recorded with the site of the outermost wrapper in progress, or
\* with malloc's caller if there is none, and with the size that was asked for or that padded,
\* however the wrappers nest and whatever came before; and the thread is marked
\* as allocating or freeing exactly while such a wrapper has not returned.
OutermostWrapperCounts ==
    /\ event.site = event.wanted
    /\ event.size \in event.asked..Padded(event.asked)
    /\ tls.allocating <=> Allocating # {}
    /\ tls.freeing <=> \E i \in DOMAIN frames : frames[i].kind = "free"
=============================================================================
