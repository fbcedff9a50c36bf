----------------------------- MODULE StackQuery -----------------------------
(***************************************************************************)
(* Queries about addresses on the stack. First the table of frame layouts  *)
(* that tools/frametypes.cpp generates from debugging information: a       *)
(* subprogram occupies the pcs lo..hi-1; a variable has a size, a number,  *)
(* and locations: where it is over a range of pcs, relative to the frame   *)
(* base when it is on the stack. Reading DWARF and printing C are left     *)
(* out. Then the queries (src/allocators/stackframe.c): the stack is       *)
(* unwound from the innermost frame, each frame's ip is looked up in the   *)
(* table, and the first layout that spans the address is the answer. Calls *)
(* and returns change the stack between queries. libunwind is external: a  *)
(* step yields the caller's ip, sp and bp.                                 *)
(***************************************************************************)
EXTENDS Integers, Sequences, FiniteSets

CONSTANT WordSize

LowestOf(S) == CHOOSE x \in S : \A y \in S : x <= y
HighestOf(S) == CHOOSE x \in S : \A y \in S : x >= y

\* The pcs of a location; an entry "for all vaddrs" borrows the subprogram's.
PcsOf(s, l) == IF l.all THEN s.lo..(s.hi - 1) ELSE l.lo..(l.hi - 1)

\* The locations of a variable at a pc that are on the stack; registers, statics
\* and what cannot be evaluated are skipped.
OnStack(s, v, pc) == {l \in v.locs : pc \in PcsOf(s, l) /\ l.how = "stack"}

\* What the frame holds at a pc, the codomain of frame_intervals there: the
\* variables on the stack whose type is complete.
Elements(s, pc) ==
    UNION {{[off |-> l.off, size |-> v.size, var |-> v.var] : l \in OnStack(s, v, pc)} :
             v \in {w \in s.vars : w.complete}}
FramePcs(s) == {pc \in UNION {UNION {PcsOf(s, l) : l \in v.locs} : v \in s.vars} :
                  Elements(s, pc) # {}}

\* interval_maxoff: the end of the element that starts highest.
interval_maxoff(E) ==
    LET top == {e \in E : \A f \in E : f.off <= e.off}
        last == CHOOSE e \in top : \A f \in top : f.var <= e.var
    IN  IF last.off + last.size < 0 THEN 0 ELSE last.off + last.size
interval_minoff(E) ==
    LET least == LowestOf({e.off : e \in E}) IN IF least > 0 THEN 0 ELSE least

\* offset_to_all: one per subprogram, rounded up to a word.
offset_to_all_Down(s) ==
    LET least == LowestOf({0} \cup {interval_minoff(Elements(s, pc)) : pc \in FramePcs(s)})
    IN  ((-least) \div WordSize) * WordSize
offset_to_all(s) ==
    LET least == LowestOf({0} \cup {interval_minoff(Elements(s, pc)) : pc \in FramePcs(s)})
    IN  (((-least) + WordSize - 1) \div WordSize) * WordSize

\* The uniqtype of an interval: members at offsets from the lowest address used.
LayoutOf(s, pc) ==
    [o |-> offset_to_all(s),
     pos_maxoff |-> interval_maxoff(Elements(s, pc)) + offset_to_all(s),
     members |-> {[off |-> e.off + offset_to_all(s), size |-> e.size, var |-> e.var] :
                    e \in Elements(s, pc)}]

\* frame_vaddrs: one entry for each maximal interval with the same elements.
frame_vaddrs(prog) ==
    UNION {{[vaddr |-> pc, layout |-> LayoutOf(s, pc)] :
              pc \in {p \in FramePcs(s) :
                        p - 1 \notin FramePcs(s) \/ Elements(s, p - 1) # Elements(s, p)}} :
             s \in prog}
-----------------------------------------------------------------------------

CONSTANTS
    Programs,           \* each a set of subprograms
    MaxAddress,         \* BEGINNING_OF_STACK
    Rooms,              \* frame sizes
    MaxDepth,
    MainBp,             \* __liballocs_main_bp, an approximation
    NoFile,             \* an ip in no file with frame information
    StackContracts

ASSUME StackAssumption ==
    StackContracts \subseteq {"frame_pointers", "no_gaps", "returns_to_same_layout",
                              "highest_ends_last", "args_reserved", "unwindable"}

VARIABLES
    program,
    stack,      \* outermost first: pc, ip, sp, bp, step; the frame base is the caller's sp
    table,      \* frame_vaddrs of the program
    reply       \* the query just made and its answer

stackVars == <<program, stack, table, reply>>

\* pc_to_frame_uniqtype: the entry at or below the ip.
NoLayout == [o |-> 0, pos_maxoff |-> -1, members |-> {}]
pc_to_frame_uniqtype(ip) ==
    LET leq == {e \in table : e.vaddr <= ip}
    IN  IF ip = NoFile \/ leq = {} THEN NoLayout
        ELSE (CHOOSE e \in leq : \A f \in leq : f.vaddr <= e.vaddr).layout

NotFound(err) == [found |-> 0, base |-> 0, layout |-> NoLayout, err |-> err]
NoReply == [obj |-> 0, answer |-> NotFound("none")]

\* The loop of get_info, from the innermost frame.  A frame that cannot be
\* unwound ends the walk; near main it counts as the outermost.  Nothing is
\* found at the outermost frame: its base is the beginning of the stack.
Outermost(n) == stack[n].step # "ok"
FrameBase(n) == IF Outermost(n) THEN MaxAddress ELSE stack[n - 1].sp
at_or_above_main(n) == \E m \in n..Len(stack) : stack[m].bp >= MainBp \/ stack[m].sp >= MainBp
PastHigherFrame(obj, n) ==
    LET higherframe_bp == IF Outermost(n) THEN MaxAddress ELSE stack[n - 1].bp
    IN  /\ Outermost(n) \/ higherframe_bp >= stack[n].bp
        /\ obj > higherframe_bp
get_info_from(obj) ==
    LET look[n \in 0..Len(stack)] ==
          IF n = 0 THEN NotFound("reached_top_of_stack")
          ELSE LET layout == pc_to_frame_uniqtype(stack[n].ip)
                   base == FrameBase(n) - layout.o
                   onward == IF Outermost(n) THEN look[0] ELSE look[n - 1]
               IN  IF stack[n].step = "badreg" /\ ~at_or_above_main(n)
                   THEN NotFound("step_failure")
                   ELSE IF PastHigherFrame(obj, n) \/ layout = NoLayout THEN onward
                   ELSE IF obj >= base /\ obj < base + layout.pos_maxoff
                   THEN [found |-> n, base |-> base, layout |-> layout, err |-> "none"]
                   ELSE IF base > obj THEN NotFound("reached_higher_frame")
                   ELSE onward
    IN  look[Len(stack)]
-----------------------------------------------------------------------------
CallersSp(n) == IF n = 1 THEN MaxAddress ELSE stack[n - 1].sp
SubprogramAt(pc) == {s \in program : s.lo <= pc /\ pc < s.hi}
HeldAt(pc) == UNION {Elements(s, pc) : s \in SubprogramAt(pc)}

\* What a compiler, and the callers, are assumed to respect.
CallAllowed(pc, ip) ==
    pc # NoFile =>
      /\ "no_gaps" \in StackContracts => HeldAt(pc) # {}
      /\ "returns_to_same_layout" \in StackContracts =>
           SubprogramAt(ip) = SubprogramAt(pc) /\ HeldAt(ip) = HeldAt(pc)
      /\ "highest_ends_last" \in StackContracts =>
           \A e \in HeldAt(pc) : e.off + e.size <= interval_maxoff(HeldAt(pc))
      /\ "args_reserved" \in StackContracts =>
           \A n \in {Len(stack)} \ {0} : \A e \in HeldAt(pc) :
              LET end == stack[n].sp + e.off + e.size
              IN  /\ end < CallersSp(n)
                  /\ \A f \in HeldAt(stack[n].pc) : end <= CallersSp(n) + f.off

\* A function at the pc is entered and calls on: its frame's ip is the return
\* address.  One that omits the frame pointer leaves any value in bp.
Bps(sp, room) == IF "frame_pointers" \in StackContracts THEN {sp + room - 1}
                 ELSE {sp + room - 1, sp}
Steps == CASE stack = <<>> -> {"end", "badreg"}
           [] "unwindable" \in StackContracts -> {"ok"}
           [] OTHER -> {"ok", "badreg"}
call(pc, room) ==
    LET top == IF stack = <<>> THEN MaxAddress - 1 ELSE stack[Len(stack)].sp
        ip == IF pc = NoFile THEN NoFile ELSE pc + 1
    IN  /\ Len(stack) < MaxDepth /\ room < top
        /\ (stack = <<>>) => (pc = NoFile)
        /\ CallAllowed(pc, ip)
        /\ \E bp \in Bps(top - room, room), step \in Steps :
             stack' = Append(stack, [pc |-> pc, ip |-> ip, sp |-> top - room, bp |-> bp,
                                     step |-> step])
        /\ reply' = NoReply
        /\ UNCHANGED <<program, table>>

return ==
    /\ Len(stack) > 1
    /\ stack' = SubSeq(stack, 1, Len(stack) - 1)
    /\ reply' = NoReply
    /\ UNCHANGED <<program, table>>

get_info_stack(obj) ==
    /\ stack # <<>> /\ reply = NoReply
    /\ reply' = [obj |-> obj, answer |-> get_info_from(obj)]
    /\ UNCHANGED <<program, stack, table>>

StackInit ==
    /\ program \in Programs
    /\ stack = <<>>
    /\ table = frame_vaddrs(program)
    /\ reply = NoReply
StackNext ==
    \/ \E pc \in UNION {s.lo..(s.hi - 1) : s \in program} \cup {NoFile}, room \in Rooms :
         call(pc, room)
    \/ return
    \/ \E obj \in 1..(MaxAddress - 1) : get_info_stack(obj)
-----------------------------------------------------------------------------
\* The variables whose bytes an address is one of, by frame.
Owners(obj) ==
    {<<n, e>> \in UNION {{n} \X HeldAt(stack[n].pc) : n \in 2..Len(stack)} :
       LET at == CallersSp(n) + e.off IN at <= obj /\ obj < at + e.size}

\* A query about a byte of a variable on the stack is answered with the
\* innermost frame that has a variable there, and with a layout that has that
\* variable at that offset; and a layout is only ever reported of a frame whose
\* pc it describes.  (The table's offsets, the unwound bases and the early exits
\* of the walk agree, arguments in the caller's frame included.)
LocalsFound ==
    reply.obj # 0 =>
       LET a == reply.answer
           owners == Owners(reply.obj)
       IN  /\ owners # {} =>
                LET n == HighestOf({p[1] : p \in owners})
                IN  /\ a.found = n
                    /\ \A p \in owners : p[1] = n =>
                         \E m \in a.layout.members :
                           m.var = p[2].var /\ a.base + m.off = CallersSp(n) + p[2].off
           /\ a.found # 0 =>
                {[off |-> m.off - a.layout.o, size |-> m.size, var |-> m.var] :
                   m \in a.layout.members} = HeldAt(stack[a.found].pc)
=============================================================================
