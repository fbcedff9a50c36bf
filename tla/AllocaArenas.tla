---------------------------- MODULE AllocaArenas ----------------------------
(***************************************************************************)
(* alloca: the padding of a request and the frame's byte counter           *)
(* (include/liballocs_cil_inlines.h), the promotion of the frame to a big  *)
(* allocation (src/allocators/stackframe.c), the bitmap that grows         *)
(* downwards with the frame, and the cleanup that runs when the frame      *)
(* returns (src/allocators/alloca.c).  One thread's stack, which grows     *)
(* towards lower addresses.                                                *)
(***************************************************************************)
EXTENDS Integers, Sequences, FiniteSets

CONSTANTS
    StackBase,          \* the highest address
    ALLOCA_ALIGN,       \* bytes per bit
    WordBits,
    HeaderSize, TrailerSize,
    AllocaSizes,
    MaxFrames, MaxAllocas,
    FrameContracts

ASSUME AllocaAssumption ==
    FrameContracts \subseteq {"no_longjmp"}

VARIABLES
    frames,     \* innermost last: bp, counter, sp, chunks
    arenas,     \* the big allocations of frames: begin, end, base, nwords, bits
    broken      \* an assertion failed or big allocations overlapped

allocaVars == <<frames, arenas, broken>>

RoundUp(n, a) == ((n + a - 1) \div a) * a
RoundDown(n, a) == (n \div a) * a
WordBytes == ALLOCA_ALIGN * WordBits
CalleeSpace == 2            \* how far below sp the cleanup function's own sp is
CounterAt(f) == f.bp - 1

\* __liballocs_alloca_size
alloca_size(n) == RoundUp(HeaderSize, ALLOCA_ALIGN) + RoundUp(n + TrailerSize, ALLOCA_ALIGN)
-----------------------------------------------------------------------------
Containing(A, a) == {x \in A : x.begin <= a /\ a < x.end}

\* realloc_bitmap_prepend: the old words move up by the words added.
Moved_Not(bits, added) == bits
Moved(bits, added) == {b + added * WordBits : b \in bits}
WithBitmap(x) ==
    LET base == RoundDown(x.begin, WordBytes)
        nwords == (RoundUp(x.end, WordBytes) - base) \div WordBytes
    IN  IF x.nwords < nwords
        THEN [x EXCEPT !.nwords = nwords,
                       !.base = IF @ = 0 THEN base ELSE @ - (nwords - x.nwords) * WordBytes,
                       !.bits = Moved(@, nwords - x.nwords)]
        ELSE x

\* ensure_arena_covers_addr.
Covering(x, a) ==
    IF x.nwords > 0 /\ x.begin <= a THEN x
    ELSE WithBitmap([x EXCEPT !.begin = IF a < @ THEN a ELSE @])
BaseIsRight(x) == x.base = RoundDown(x.begin, WordBytes)

Overlapping(A) ==
    \E x, y \in A : x # y /\ x.begin < y.end /\ y.begin < x.end

\* __stackframe_allocator_find_or_create_bigalloc, for the innermost frame.
find_or_create(A, f, addr) ==
    IF Containing(A, CounterAt(f)) # {} THEN Containing(A, CounterAt(f))
    ELSE {[begin |-> addr, end |-> f.bp, base |-> 0, nwords |-> 0, bits |-> {}]}
PromotionOK(A, f, addr) ==
    Containing(A, CounterAt(f)) # {}
      \/ (Containing(A, addr) = {} /\ Containing(A, f.bp - 1) = {})

\* __alloca_allocator_notify
alloca_notify(f, userchunk) ==
    \E x \in find_or_create(arenas, f, userchunk) :
      LET y == Covering(x, userchunk)
          bit == (userchunk - y.base) \div ALLOCA_ALIGN
          after == (arenas \ {x}) \cup {[y EXCEPT !.bits = @ \cup {bit}]}
      IN  /\ arenas' = after
          /\ broken' = (\/ ~PromotionOK(arenas, f, userchunk) \/ ~BaseIsRight(y)
                        \/ bit >= y.nwords * WordBits \/ Overlapping(after))

\* __liballocs_notify_and_adjust_alloca.  The compiler aligns what it allocates
\* to half of ALLOCA_ALIGN.
alloca(n, skew) ==
    LET f == frames[Len(frames)]
        tweaked == alloca_size(n)
        allocated == RoundDown(f.sp - tweaked, ALLOCA_ALIGN) - skew
        userchunk == RoundUp(allocated + HeaderSize, ALLOCA_ALIGN)
        usable == tweaked - (userchunk - allocated)
    IN  /\ frames # <<>> /\ ~broken
        /\ Len(f.chunks) < MaxAllocas /\ allocated > WordBytes
        /\ frames' = [frames EXCEPT ![Len(frames)] =
             [@ EXCEPT !.counter = @ + usable, !.sp = allocated,
                       !.chunks = Append(@, [addr |-> userchunk, usable |-> usable,
                                             asked |-> n, limit |-> allocated + tweaked])]]
        /\ alloca_notify(f, userchunk)

push(room) ==
    LET top == IF frames = <<>> THEN StackBase ELSE frames[Len(frames)].sp
    IN  /\ ~broken /\ Len(frames) < MaxFrames
        /\ top - room > WordBytes
        /\ frames' = Append(frames, [bp |-> top - 1, counter |-> 0, sp |-> top - room,
                                     chunks |-> <<>>])
        /\ UNCHANGED <<arenas, broken>>
-----------------------------------------------------------------------------
\* The loop of unindex_stack_objects_counted_by: bits are cleared upwards from
\* sp until the sizes of their chunks reach the counter.
UsableAt(f, x, bit) ==
    LET here == {i \in DOMAIN f.chunks : f.chunks[i].addr = x.base + bit * ALLOCA_ALIGN}
    IN  IF here = {} THEN 0 ELSE f.chunks[CHOOSE i \in here : TRUE].usable
StillIndexed(f, x, sp) ==
    LET from == (sp - x.base) \div ALLOCA_ALIGN
        unindexed[n \in 0..MaxAllocas] ==
          IF n = 0 THEN [total |-> 0, bits |-> x.bits]
          ELSE LET u == unindexed[n - 1]
                   rest == {b \in u.bits : b >= from}
                   next == CHOOSE b \in rest : \A c \in rest : b <= c
               IN  IF rest = {} \/ u.total >= f.counter THEN u
                   ELSE [total |-> u.total + UsableAt(f, x, next), bits |-> u.bits \ {next}]
    IN  unindexed[MaxAllocas].bits

\* The cleanup of the innermost frame, which then returns.  With a zero counter
\* nothing is looked for; either way the frame's big allocation is deleted.
HowFramesEnd == IF "no_longjmp" \in FrameContracts THEN {"return"} ELSE {"return", "longjmp"}
caller_frame_cleanup(how) ==
    LET f == frames[Len(frames)]
        mine == Containing(arenas, CounterAt(f))
    IN  /\ frames # <<>> /\ ~broken
        /\ frames' = SubSeq(frames, 1, Len(frames) - 1)
        /\ arenas' = IF how = "longjmp" THEN arenas ELSE arenas \ mine
        /\ broken' = (/\ how = "return" /\ f.counter # 0
                      /\ \/ mine = {}
                         \/ \E x \in mine :
                              LET y == Covering(x, f.sp - CalleeSpace)
                              IN  \/ ~BaseIsRight(y)
                                  \/ Overlapping((arenas \ {x}) \cup {y})
                                  \/ StillIndexed(f, y, f.sp - CalleeSpace) # {})

AllocaInit == frames = <<>> /\ arenas = {} /\ broken = FALSE
AllocaNext ==
    \/ \E room \in {3, 4} : push(room)
    \/ \E n \in AllocaSizes, skew \in {0, ALLOCA_ALIGN \div 2} : alloca(n, skew)
    \/ \E how \in HowFramesEnd : caller_frame_cleanup(how)
-----------------------------------------------------------------------------
\* __alloca_get_info: the bases that a query about an address may find.
AllocaBases(a) ==
    UNION {LET below == {b \in x.bits : x.base + b * ALLOCA_ALIGN <= a}
           IN  {x.base + b * ALLOCA_ALIGN : b \in {c \in below : \A d \in below : d <= c}} :
              x \in Containing(arenas, a)}

\* A query about any byte of any alloca chunk of any active frame finds that
\* chunk, however the frames and their requests have interleaved; a chunk has
\* room for its trailer; only frames that made a request are big allocations,
\* and these never overlap; and the cleanup of a frame finds every chunk that
\* the frame's counter counts.
AllocasFound ==
    /\ ~broken
    /\ \A i \in DOMAIN frames :
         /\ (frames[i].chunks # <<>>) <=> (Containing(arenas, CounterAt(frames[i])) # {})
         /\ \A k \in DOMAIN frames[i].chunks :
              LET c == frames[i].chunks[k]
              IN  /\ c.addr + c.asked + TrailerSize <= c.addr + c.usable
                  /\ c.addr + c.usable <= c.limit
                  /\ \A a \in c.addr..(c.addr + c.asked - 1) : AllocaBases(a) = {c.addr}
    /\ \A x \in arenas : \E i \in DOMAIN frames : CounterAt(frames[i]) \in x.begin..(x.end - 1)
=============================================================================
