--------------------------- MODULE PrivateMalloc ---------------------------
(***************************************************************************)
(* liballocs's own malloc, the one that never calls mmap                   *)
(* (src/dlmalloc-ext.c with NOMMAP): a heap of fixed size under an         *)
(* emulated sbrk, indexed by a bitmap that is itself the heap's first      *)
(* chunk, with wrappers that keep the bitmap.  dlmalloc is external: it    *)
(* returns any aligned place that is free below the break, or moves the    *)
(* break.  Each wrapper makes its dlmalloc call in one step, and reads and *)
(* writes the word of the bitmap in two.                                   *)
(***************************************************************************)
EXTENDS Integers, FiniteSets

CONSTANTS
    Callers,            \* threads
    heap_base, heap_limit,
    AddressMod,         \* uintptr_t is modulo AddressMod
    PRIVATE_MALLOC_ALIGN,
    WordBits,           \* bits in a word of the bitmap
    InsertBytes,
    Sizes,              \* requested sizes
    PrivateContracts

ASSUME PrivateMallocAssumption ==
    /\ heap_base \in Nat \ {0} /\ PRIVATE_MALLOC_ALIGN \in Nat \ {0}
    /\ heap_base % PRIVATE_MALLOC_ALIGN = 0
    /\ heap_limit \in Nat /\ heap_base < heap_limit
    /\ AddressMod \in Nat /\ heap_limit < AddressMod
    /\ InsertBytes \in Nat
    /\ \A n \in Sizes : n \in Nat /\ n + InsertBytes + PRIVATE_MALLOC_ALIGN <= AddressMod
    /\ PrivateContracts \subseteq {"serialised", "realloc_succeeds", "no_posix_memalign"}

VARIABLES
    curbrk,     \* emulated_curbrk, 0 before the first call
    held,       \* dlmalloc's live chunks: at, size
    bitmap,     \* the set of bits that are 1, by number
    bitmapAt,   \* suballocator_private, 0 before the heap exists
    at          \* each caller's place in a wrapper

privateVars == <<curbrk, held, bitmap, bitmapAt, at>>

Idle == [pc |-> "idle"]
DivideRoundingUp(n, d) == (n + d - 1) \div d
Bit(p) == (p - heap_base) \div PRIVATE_MALLOC_ALIGN
BitsOfWordOf(p) == {b \in 0..Bit(heap_limit) : b \div WordBits = Bit(p) \div WordBits}
-----------------------------------------------------------------------------
\* emulated_sbrk(increment) when the break is brk: the break it leaves, which is
\* brk on an error.  The increment is an intptr_t.
Flowed_Ignored(brk, increment, req) == FALSE
Flowed(brk, increment, req) ==
    \/ increment > 0 /\ req < brk
    \/ increment < 0 /\ req > brk
emulated_sbrk(brk, increment) ==
    LET req == (brk + increment) % AddressMod
        clipped == IF increment > 0
                   THEN IF req < heap_limit THEN req ELSE heap_limit
                   ELSE IF req > heap_base THEN req ELSE heap_base
    IN  IF Flowed(brk, increment, req) \/ clipped # req THEN brk ELSE req

\* dlmalloc: a free place below the break, or the old break once it has moved.
RoundUp(n) == DivideRoundingUp(n, PRIVATE_MALLOC_ALIGN) * PRIVATE_MALLOC_ALIGN
Disjoint(c, d) == c.at + c.size <= d.at \/ d.at + d.size <= c.at
FreePlaces(brk, H, n) ==
    {p \in heap_base..(brk - n) :
       /\ (p - heap_base) % PRIVATE_MALLOC_ALIGN = 0
       /\ \A c \in H : Disjoint(c, [at |-> p, size |-> n])}
real_dlmalloc(brk, H, size) ==
    LET n == RoundUp(size)
        moved == emulated_sbrk(brk, n)
    IN  IF FreePlaces(brk, H, n) # {}
        THEN {[ret |-> p, size |-> n, brk |-> brk] : p \in FreePlaces(brk, H, n)}
        ELSE IF moved # brk
        THEN {[ret |-> brk, size |-> n, brk |-> moved]}
        ELSE {[ret |-> 0, size |-> 0, brk |-> brk]}

\* dlmalloc returns unused space at the top of the heap.
Top(H) ==
    LET ends == {c.at + c.size : c \in H}
    IN  CHOOSE e \in ends : \A other \in ends : other <= e
trim ==
    /\ bitmapAt # 0
    /\ Top(held) < curbrk
    /\ curbrk' = emulated_sbrk(curbrk, Top(held) - curbrk)
    /\ UNCHANGED <<held, bitmap, bitmapAt, at>>
-----------------------------------------------------------------------------
\* create_private_nommap_malloc_heap: the first chunk is the bitmap, and its own
\* bit is the first that is set.
create_heap ==
    LET bytes == DivideRoundingUp(
                   DivideRoundingUp(heap_limit - heap_base, PRIVATE_MALLOC_ALIGN), 8)
                 + InsertBytes
    IN  /\ bitmapAt = 0
        /\ \E r \in real_dlmalloc(heap_base, {}, bytes) :
             /\ r.ret # 0 /\ r.ret + bytes < heap_limit
             /\ curbrk' = r.brk
             /\ held' = {[at |-> r.ret, size |-> r.size]}
             /\ bitmapAt' = r.ret
             /\ bitmap' = {Bit(r.ret)}
        /\ UNCHANGED at

Begin(t) ==
    /\ bitmapAt # 0 /\ at[t] = Idle
    /\ "serialised" \in PrivateContracts => \A u \in Callers : at[u] = Idle
InUse == {c \in held : c.at # bitmapAt /\ \A u \in Callers : at[u] # Idle => at[u].ptr # c.at}

\* The real function has been called; what remains of the wrapper is ptr's bit.
\* dlposix_memalign, where 0 is success, sets the bit on failure only.
Obtainers ==
    {"dlmalloc", "dlcalloc", "dlmemalign"}
      \cup IF "no_posix_memalign" \in PrivateContracts THEN {} ELSE {"dlposix_memalign"}
wrap_alloc(t, fn, size) ==
    /\ Begin(t)
    /\ \E r \in real_dlmalloc(curbrk, held, size) :
         /\ curbrk' = r.brk
         /\ held' = IF r.ret = 0 THEN held ELSE held \cup {[at |-> r.ret, size |-> r.size]}
         /\ at' = [at EXCEPT ![t] = IF r.ret = 0 \/ fn = "dlposix_memalign" THEN Idle
                                    ELSE [pc |-> "set", ptr |-> r.ret, then |-> "done"]]
    /\ UNCHANGED <<bitmap, bitmapAt>>

\* dlfree and dlrealloc clear the bit first.
ClearThen(t, c, then) ==
    at' = [at EXCEPT ![t] = [pc |-> "clear", ptr |-> c.at, then |-> then]]
wrap_dlfree(t, c) ==
    /\ Begin(t)
    /\ ClearThen(t, c, "free")
    /\ UNCHANGED <<curbrk, held, bitmap, bitmapAt>>
wrap_dlrealloc(t, c) ==
    /\ Begin(t)
    /\ ClearThen(t, c, "realloc")
    /\ UNCHANGED <<curbrk, held, bitmap, bitmapAt>>

\* bitmap_set_b and bitmap_clear_b: the word is read, then written.
ReadWord(t) ==
    /\ at[t].pc \in {"set", "clear"}
    /\ at' = [at EXCEPT ![t] = [pc |-> IF @.pc = "set" THEN "setting" ELSE "clearing",
                                ptr |-> @.ptr, then |-> @.then,
                                word |-> bitmap \cap BitsOfWordOf(@.ptr)]]
    /\ UNCHANGED <<curbrk, held, bitmap, bitmapAt>>
WriteWord(t) ==
    LET p == at[t].ptr
        others == bitmap \ BitsOfWordOf(p)
    IN  /\ at[t].pc \in {"setting", "clearing"}
        /\ bitmap' = others \cup (IF at[t].pc = "setting" THEN at[t].word \cup {Bit(p)}
                                  ELSE at[t].word \ {Bit(p)})
        /\ at' = [at EXCEPT ![t] = IF @.then = "done" THEN Idle
                                   ELSE [pc |-> @.then, ptr |-> @.ptr, then |-> @.then]]
        /\ UNCHANGED <<curbrk, held, bitmapAt>>

Without(p) == {c \in held : c.at # p}
real_dlfree(t) ==
    /\ at[t].pc = "free"
    /\ held' = Without(at[t].ptr)
    /\ at' = [at EXCEPT ![t] = Idle]
    /\ UNCHANGED <<curbrk, bitmap, bitmapAt>>

\* The new chunk may be where the old one was; an insert is added to the size,
\* as it is not by the other wrappers.  If there is no place the old chunk stays.
real_dlrealloc(t, size) ==
    LET p == at[t].ptr
        inPlace == {r \in real_dlmalloc(curbrk, Without(p), size + InsertBytes) : r.ret = p}
        results == IF size = 0 THEN {} ELSE IF inPlace # {} THEN inPlace
                   ELSE real_dlmalloc(curbrk, held, size + InsertBytes)
    IN  /\ at[t].pc = "realloc"
        /\ \/ /\ size = 0
              /\ held' = Without(p)
              /\ at' = [at EXCEPT ![t] = Idle]
              /\ UNCHANGED curbrk
           \/ \E r \in results :
                IF r.ret # 0
                THEN /\ curbrk' = r.brk
                     /\ held' = Without(p) \cup {[at |-> r.ret, size |-> r.size]}
                     /\ at' = [at EXCEPT ![t] = [pc |-> "set", ptr |-> r.ret, then |-> "done"]]
                ELSE /\ "realloc_succeeds" \notin PrivateContracts
                     /\ at' = [at EXCEPT ![t] = Idle]
                     /\ UNCHANGED <<curbrk, held>>
        /\ UNCHANGED <<bitmap, bitmapAt>>

PrivateInit ==
    /\ curbrk = 0 /\ held = {} /\ bitmap = {} /\ bitmapAt = 0
    /\ at = [t \in Callers |-> Idle]
PrivateNext ==
    \/ create_heap \/ trim
    \/ \E t \in Callers :
         \/ \E n \in Sizes \ {0}, fn \in Obtainers : wrap_alloc(t, fn, n)
         \/ \E c \in InUse : wrap_dlfree(t, c) \/ wrap_dlrealloc(t, c)
         \/ ReadWord(t) \/ WriteWord(t) \/ real_dlfree(t)
         \/ \E n \in Sizes : real_dlrealloc(t, n)
PrivateSpec == PrivateInit /\ [][PrivateNext]_privateVars
-----------------------------------------------------------------------------
\* The break and every chunk, the bitmap's included, stay in the heap and apart;
\* and when no wrapper is running the bits that are set are those of the chunks,
\* so that neither a chunk is unknown to a query nor a freed one still known.
PrivateIndexExact ==
    /\ bitmapAt # 0 => curbrk \in heap_base..heap_limit
    /\ \A c \in held : heap_base <= c.at /\ c.at + c.size <= curbrk
    /\ \A c, d \in held : c # d => Disjoint(c, d)
    /\ (\A t \in Callers : at[t] = Idle) => bitmap = {Bit(c.at) : c \in held}
=============================================================================
