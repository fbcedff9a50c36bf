------------------------------ MODULE Detours ------------------------------
(***************************************************************************)
(* How allocsld patches the dynamic linker before it runs (allocsld/       *)
(* chain.c, allocinstr.c, malloc-patcher.c): the entry of _dl_debug_state  *)
(* is overwritten by a jump to allocsld's own, and that of each __minimal_ *)
(* allocation function by a jump to a detour, which calls the original     *)
(* through a trampoline made of the displaced instructions and a jump      *)
(* back.  Memory is a function from addresses to bytes, a byte being a     *)
(* position in an instruction, so that overwriting or copying part of one  *)
(* shows.                                                                  *)
(***************************************************************************)
EXTENDS Integers, Sequences, FiniteSets

CONSTANTS
    Programs,       \* code to patch: sequences of functions, see MCHeaps
    CodeLimit,      \* code is in 0..CodeLimit - 1
    BufLimit,       \* the buffer of trampolines is CodeLimit..BufLimit - 1
    PageSize

CONSTANT PatchContracts

ASSUME DetoursAssumption ==
    PatchContracts \subseteq {"room_at_entry", "within_page", "no_incoming"}

VARIABLES mem,          \* what each byte of code and buffer holds
          program,      \* the functions, as they were
          unpatched,    \* the functions not yet visited
          orig,         \* orig_malloc etc.: the trampoline of each function
          nextfree,     \* struct trampoline_buf_info
          faulted       \* a write reached a page that had not been unprotected

detourVars == <<mem, program, unpatched, orig, nextfree, faulted>>

NBYTES_TO_CLOBBER == 5      \* a jmp with a 32-bit displacement
DebugPatchBytes == 12       \* movabs; jmpq *%rax
Detour(f) == BufLimit + f   \* where the function that replaces f is
Hole == [id |-> <<0, 0>>, len |-> 1, kind |-> "hole", to |-> 0]
Start(fn, k) == fn.at + (IF k = 1 THEN 0 ELSE fn.ends[k - 1])
Instr(p, f, k) ==
    LET fn == p[f]
    IN  [id |-> <<f, k>>, len |-> Start(fn, k + 1) - Start(fn, k), kind |-> fn.kinds[k],
         to |-> fn.targets[k] - Start(fn, k)]   \* a displacement, as encoded

\* The bytes of instruction i put at address a, over memory m.
Placed(m, a, i) ==
    [b \in DOMAIN m |-> IF a <= b /\ b < a + i.len THEN [ins |-> i, j |-> b - a] ELSE m[b]]
Jump(a, target, len) == [id |-> <<0, 0>>, len |-> len, kind |-> "jmp", to |-> target - a]
InstrsOf(p) == {<<f, k>> \in (DOMAIN p) \X (1..8) : k \in DOMAIN p[f].kinds}
InitialMemory(p) ==
    [b \in 0..(BufLimit - 1) |->
       LET here == {x \in InstrsOf(p) : /\ Start(p[x[1]], x[2]) <= b
                                        /\ b < Start(p[x[1]], x[2] + 1)}
       IN  IF here = {} THEN [ins |-> Hole, j |-> 0]
           ELSE LET x == CHOOSE y \in here : TRUE
                IN  [ins |-> Instr(p, x[1], x[2]), j |-> b - Start(p[x[1]], x[2])]]
-----------------------------------------------------------------------------
FirstNonDisplaced(fn) ==
    LET enough == {k \in DOMAIN fn.ends : fn.ends[k] >= NBYTES_TO_CLOBBER}
    IN  fn.at + fn.ends[CHOOSE k \in enough : \A other \in enough : k <= other]

\* memcpy of the displaced bytes to the trampoline, then read_one_relocated_field
\* and apply_one_reloc on each field that is relative to the instruction.
Relocated(byte, moved) ==
    IF byte.ins.kind = "pcrel"
    THEN [byte EXCEPT !.ins.to = @ - moved] ELSE byte
WithTrampoline(m, at, from, upto) ==
    LET n == upto - from
        copied == [b \in DOMAIN m |->
                     IF at <= b /\ b < at + n THEN Relocated(m[from + b - at], at - from)
                     ELSE m[b]]
    IN  Placed(copied, at + n, Jump(at + n, upto, NBYTES_TO_CLOBBER))

Writable(a, n, pages) == \A b \in a..(a + n - 1) : b \div PageSize \in pages

\* write_monopoline_and_detour, for the function that instr_cb comes to.
instr_cb(f) ==
    LET fn == program[f]
        upto == FirstNonDisplaced(fn)
        m == WithTrampoline(mem, nextfree, fn.at, upto)
    IN  /\ f \in unpatched
        /\ program[f].name # "_dl_debug_state"
        /\ mem' = Placed(m, fn.at, Jump(fn.at, Detour(f), NBYTES_TO_CLOBBER))
        /\ orig' = [orig EXCEPT ![f] = nextfree]
        /\ nextfree' = nextfree + (upto - fn.at) + NBYTES_TO_CLOBBER
        /\ unpatched' = unpatched \ {f}
        /\ UNCHANGED <<program, faulted>>

\* chain_dl_debug_state_function makes one page writable and writes.
chain_dl_debug_state(f) ==
    LET fn == program[f]
    IN  /\ f \in unpatched
        /\ fn.name = "_dl_debug_state"
        /\ faulted' = ~Writable(fn.at, DebugPatchBytes, {fn.at \div PageSize})
        /\ mem' = Placed(mem, fn.at, Jump(fn.at, Detour(f), DebugPatchBytes))
        /\ unpatched' = unpatched \ {f}
        /\ UNCHANGED <<program, orig, nextfree>>

\* cover_tracks: the debug function first, then the allocation functions in the
\* order of the symbol table.
DetoursNext ==
    \E f \in unpatched :
      \/ chain_dl_debug_state(f)
      \/ /\ \A g \in unpatched : program[g].name # "_dl_debug_state"
         /\ \A g \in unpatched : f <= g
         /\ instr_cb(f)
-----------------------------------------------------------------------------
\* What the programs are assumed to be like.
EndOf(fn) == fn.at + fn.ends[Len(fn.ends)]
NextStart(p, f) ==
    LET after == {p[g].at : g \in {h \in DOMAIN p : p[h].at > p[f].at}} \cup {CodeLimit}
    IN  CHOOSE a \in after : \A b \in after : a <= b
Clobbered(p, f) ==
    IF p[f].name = "_dl_debug_state" THEN DebugPatchBytes ELSE NBYTES_TO_CLOBBER
Accepted(p) ==
    \A f \in DOMAIN p :
      /\ p[f].name # "_dl_debug_state" => p[f].ends[Len(p[f].ends)] >= NBYTES_TO_CLOBBER
      /\ "room_at_entry" \in PatchContracts => p[f].at + Clobbered(p, f) <= NextStart(p, f)
      /\ "within_page" \in PatchContracts /\ p[f].name = "_dl_debug_state" =>
           Writable(p[f].at, DebugPatchBytes, {p[f].at \div PageSize})
      /\ "no_incoming" \in PatchContracts =>
           \A x \in InstrsOf(p) :
             p[x[1]].kinds[x[2]] = "pcrel" =>
               LET to == p[x[1]].targets[x[2]]
               IN  to <= p[f].at \/ p[f].at + Clobbered(p, f) <= to

DetoursInit ==
    /\ program \in {p \in Programs : Accepted(p)}
    /\ mem = InitialMemory(program)
    /\ unpatched = DOMAIN program
    /\ orig = [f \in DOMAIN program |-> 0]
    /\ nextfree = CodeLimit
    /\ faulted = FALSE
-----------------------------------------------------------------------------
\* A run from an address: the instructions executed, with the addresses they
\* refer to, until a return, a detour or something that is no instruction.
MaxSteps == 10
Whole(m, pc) ==
    /\ pc \in DOMAIN m /\ m[pc].j = 0 /\ m[pc].ins.kind # "hole"
    /\ \A k \in 0..(m[pc].ins.len - 1) :
          pc + k \in DOMAIN m /\ m[pc + k] = [ins |-> m[pc].ins, j |-> k]
Run(m, from) ==
    LET run[n \in 0..MaxSteps] ==
          IF n = 0 THEN [pc |-> from, trace |-> <<>>]
          ELSE LET r == run[n - 1]
                   i == m[r.pc].ins
               IN  IF r.pc < 0 \/ r.pc >= BufLimit THEN r
                   ELSE IF ~Whole(m, r.pc) THEN [r EXCEPT !.pc = -2]
                   ELSE IF i.kind = "jmp" THEN [r EXCEPT !.pc = @ + i.to]
                   ELSE [pc |-> IF i.kind = "ret" THEN -1 ELSE r.pc + i.len,
                         trace |-> Append(r.trace,
                           <<i.id, IF i.kind = "pcrel" THEN r.pc + i.to ELSE 0>>)]
    IN  run[MaxSteps]

=============================================================================
