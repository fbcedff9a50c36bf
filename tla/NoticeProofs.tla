---------------------------- MODULE NoticeProofs ----------------------------
(***************************************************************************)
(* How mappings come to the mmap allocator's notice.  While the program    *)
(* runs (Systrap), for any number of threads and pages: when the calls on  *)
(* one page follow one another, the record of the mmap allocator agrees    *)
(* with the kernel on every page nothing is still to be told of, and no    *)
(* notification meets an overlap that was not asked for.  While it starts  *)
(* (StartupOrder): the initializers of liballocs go through their stages   *)
(* in order and learn of every mapping once, whichever of them is entered  *)
(* first.                                                                  *)
(***************************************************************************)
EXTENDS Systrap, StartupOrder, SequenceTheorems, TLAPS

-----------------------------------------------------------------------------
(* The trapped calls. *)

Told == [op : {"none", "mmap", "munmap", "mremap"}, pages : SUBSET Pages,
         fixed : BOOLEAN, old : SUBSET Pages]

About(t) == pending[t].pages \cup pending[t].old

Types ==
    /\ kernel \in [Pages -> Threads \cup {Nobody}]
    /\ record \in [Pages -> Threads \cup {Nobody}]
    /\ pending \in [Threads -> Told]
    /\ aborted = FALSE

\* What a thread is about to tell is what the kernel did, and a call that did
\* not ask to map over anything is about memory the record has as free.
TellsTruth ==
    \A t \in Threads :
      /\ pending[t].op = "none" => About(t) = {}
      /\ pending[t].op \in {"mmap", "mremap"} =>
           /\ \A p \in pending[t].pages : kernel[p] = t
           /\ \A p \in pending[t].old : kernel[p] = Nobody
           /\ ~pending[t].fixed => \A p \in pending[t].pages : record[p] = Nobody
      /\ pending[t].op = "munmap" =>
           /\ \A p \in pending[t].pages : kernel[p] = Nobody
           /\ pending[t].old = {}

Untold == \A p \in Pages : (\A t \in Threads : p \notin About(t)) => record[p] = kernel[p]

Apart == \A t, u \in Threads : t # u => About(t) \cap About(u) = {}

IInv == Types /\ TellsTruth /\ Untold /\ Apart

\* The contract in terms of what each thread is about to tell.
LEMMA NobodyTells ==
    ASSUME "no_reuse_in_flight" \in Contracts, NEW ps, ReuseContract(ps)
    PROVE  \A t \in Threads : About(t) \cap ps = {}
BY DEF ReuseContract, InFlight, About

\* Nothing is mapped, recorded or pending at the start.
LEMMA InitIInv == Init => IInv
BY DEF Init, IInv, Types, TellsTruth, Untold, Apart, About, Told, Idle

\* Every raw call makes one step of this form: the kernel changes only on the
\* pages the thread is then about to tell of, and nobody else was.
LEMMA RawCallKeeps ==
    ASSUME IInv, NEW t \in Threads, NEW call \in Told,
           pending[t] = Idle,
           pending' = [pending EXCEPT ![t] = call],
           \A u \in Threads : About(u) \cap (call.pages \cup call.old) = {},
           kernel' \in [Pages -> Threads \cup {Nobody}],
           \A p \in Pages : p \notin call.pages \cup call.old => kernel'[p] = kernel[p],
           call.op = "none" => call.pages = {} /\ call.old = {},
           call.op \in {"mmap", "mremap"} =>
             /\ \A p \in call.pages : kernel'[p] = t
             /\ \A p \in call.old : kernel'[p] = Nobody
             /\ ~call.fixed => \A p \in call.pages : kernel[p] = Nobody,
           call.op = "munmap" =>
             (\A p \in call.pages : kernel'[p] = Nobody) /\ call.old = {},
           UNCHANGED <<record, aborted>>
    PROVE  IInv'
<1>1. /\ pending' \in [Threads -> Told] /\ pending'[t] = call
      /\ \A u \in Threads : u # t => pending'[u] = pending[u]
  BY DEF IInv, Types
<1>2. record' = record /\ aborted' = aborted
  OBVIOUS
<1>3. About(t)' = call.pages \cup call.old /\ About(t) = {}
  BY <1>1 DEF About, Idle
<1>4. \A u \in Threads : u # t => About(u)' = About(u)
  BY <1>1 DEF About
<1>5. Types'
  BY <1>1, <1>2 DEF IInv, Types
<1>6. Apart'
  BY <1>3, <1>4 DEF IInv, Apart
<1>7. Untold'
  <2> SUFFICES ASSUME NEW p \in Pages, \A u \in Threads : p \notin About(u)'
               PROVE  record'[p] = kernel'[p]
    BY DEF Untold
  <2>1. p \notin call.pages \cup call.old
    BY <1>3
  <2>2. \A u \in Threads : p \notin About(u)
    BY <1>3, <1>4
  <2> QED BY <1>2, <2>1, <2>2 DEF IInv, Untold
<1>8. TellsTruth'
  <2> SUFFICES ASSUME NEW u \in Threads PROVE
         /\ pending'[u].op = "none" => About(u)' = {}
         /\ pending'[u].op \in {"mmap", "mremap"} =>
              /\ \A p \in pending'[u].pages : kernel'[p] = u
              /\ \A p \in pending'[u].old : kernel'[p] = Nobody
              /\ ~pending'[u].fixed => \A p \in pending'[u].pages : record'[p] = Nobody
         /\ pending'[u].op = "munmap" =>
              /\ \A p \in pending'[u].pages : kernel'[p] = Nobody
              /\ pending'[u].old = {}
    BY DEF TellsTruth
  <2>1. CASE u = t
    <3>1. \A p \in call.pages : p \in Pages /\ record[p] = kernel[p]
      BY DEF IInv, Untold, Told
    <3> QED BY <1>1, <1>2, <1>3, <2>1, <3>1
  <2>2. CASE u # t
    <3>1. \A p \in About(u) : p \in Pages /\ p \notin call.pages \cup call.old
      BY DEF About, IInv, Types, Told
    <3>2. \A p \in About(u) : kernel'[p] = kernel[p]
      BY <3>1
    <3> QED BY <1>1, <1>2, <1>4, <2>2, <3>2 DEF IInv, TellsTruth, About
  <2> QED BY <2>1, <2>2
<1> QED BY <1>5, <1>6, <1>7, <1>8 DEF IInv

\* mmap_replacement, up to its notification.
LEMMA MmapKeeps ==
    ASSUME "no_reuse_in_flight" \in Contracts, IInv,
           NEW t \in Threads, NEW pages \in SUBSET Pages, NEW fixed \in BOOLEAN,
           raw_mmap(t, pages, fixed)
    PROVE  IInv'
<1> DEFINE call == [op |-> "mmap", pages |-> pages, fixed |-> fixed, old |-> {}]
<1>1. \A u \in Threads : About(u) \cap (call.pages \cup call.old) = {}
  BY NobodyTells DEF raw_mmap
<1>2. /\ kernel' \in [Pages -> Threads \cup {Nobody}]
      /\ \A p \in Pages : kernel'[p] = IF p \in pages THEN t ELSE kernel[p]
  BY DEF raw_mmap, Set, IInv, Types
<1>3. call \in Told /\ pending[t] = Idle /\ pending' = [pending EXCEPT ![t] = call]
  BY DEF raw_mmap, Told
<1>4. /\ ~call.fixed => \A p \in call.pages : kernel[p] = Nobody
      /\ UNCHANGED <<record, aborted>>
  BY DEF raw_mmap
<1>5. /\ \A p \in Pages : p \notin call.pages \cup call.old => kernel'[p] = kernel[p]
      /\ \A p \in call.pages : kernel'[p] = t
  BY <1>2
<1> HIDE DEF call
<1>6. call.op = "mmap" /\ call.old = {}
  BY DEF call
<1> QED BY <1>1, <1>2, <1>3, <1>4, <1>5, <1>6, RawCallKeeps

\* munmap_replacement, up to its notification; a failed call tells nothing.
LEMMA MunmapKeeps ==
    ASSUME "no_reuse_in_flight" \in Contracts, IInv,
           NEW t \in Threads, NEW pages \in SUBSET Pages, NEW ret \in {0, 1},
           raw_munmap(t, pages, ret)
    PROVE  IInv'
<1> DEFINE asked == [op |-> "munmap", pages |-> pages, fixed |-> FALSE, old |-> {}]
           call == ToldOfUnmap(ret, asked)
<1>1. call \in Told /\ call.old = {} /\ call.op \in {"none", "munmap"}
  BY DEF ToldOfUnmap, Told, Idle
<1>2. call.pages \subseteq pages /\ (call.op = "none" => call.pages = {})
  BY DEF ToldOfUnmap, Idle
<1>3. /\ kernel' \in [Pages -> Threads \cup {Nobody}]
      /\ \A p \in Pages : kernel'[p] = IF p \in call.pages THEN Nobody ELSE kernel[p]
  BY DEF raw_munmap, Set, IInv, Types, ToldOfUnmap, Idle
<1>4. /\ pending[t] = Idle /\ pending' = [pending EXCEPT ![t] = call]
      /\ UNCHANGED <<record, aborted>>
  BY DEF raw_munmap
<1>5. \A u \in Threads : About(u) \cap (call.pages \cup call.old) = {}
  BY <1>1, <1>2, NobodyTells DEF raw_munmap
<1> HIDE DEF call
<1>6. /\ \A p \in Pages : p \notin call.pages \cup call.old => kernel'[p] = kernel[p]
      /\ \A p \in call.pages : kernel'[p] = Nobody
  BY <1>1, <1>2, <1>3 DEF Told
<1> QED BY <1>1, <1>2, <1>3, <1>4, <1>5, <1>6, RawCallKeeps

\* mremap_replacement, up to its notification.
LEMMA MremapKeeps ==
    ASSUME "no_reuse_in_flight" \in Contracts, IInv,
           NEW t \in Threads, NEW old \in SUBSET Pages, NEW pages \in SUBSET Pages,
           raw_mremap(t, old, pages)
    PROVE  IInv'
<1> DEFINE call == [op |-> "mremap", pages |-> pages, fixed |-> FALSE, old |-> old]
<1>1. \A u \in Threads : About(u) \cap (call.pages \cup call.old) = {}
  BY NobodyTells DEF raw_mremap
<1>2. /\ kernel' \in [Pages -> Threads \cup {Nobody}]
      /\ \A p \in Pages : kernel'[p] = IF p \in old THEN Nobody
                                       ELSE IF p \in pages THEN t ELSE kernel[p]
  BY DEF raw_mremap, Set, IInv, Types
<1>3. call \in Told /\ pending[t] = Idle /\ pending' = [pending EXCEPT ![t] = call]
  BY DEF raw_mremap, Told
<1>4. /\ \A p \in call.pages : kernel[p] = Nobody
      /\ UNCHANGED <<record, aborted>> /\ pages \cap old = {}
  BY DEF raw_mremap
<1>5. /\ \A p \in Pages : p \notin call.pages \cup call.old => kernel'[p] = kernel[p]
      /\ \A p \in call.pages : kernel'[p] = t
      /\ \A p \in call.old : kernel'[p] = Nobody
  BY <1>2, <1>4
<1> HIDE DEF call
<1>6. call.op = "mremap"
  BY DEF call
<1> QED BY <1>1, <1>2, <1>3, <1>4, <1>5, <1>6, RawCallKeeps

\* Every notification makes one step of this form: the record takes from the
\* kernel the pages the thread was about to tell of, and only those.
LEMMA NotificationKeeps ==
    ASSUME IInv, NEW t \in Threads,
           record' \in [Pages -> Threads \cup {Nobody}],
           \A p \in Pages : record'[p] = IF p \in About(t) THEN kernel[p] ELSE record[p],
           pending' = [pending EXCEPT ![t] = Idle],
           UNCHANGED <<kernel, aborted>>
    PROVE  IInv'
<1>1. /\ pending' \in [Threads -> Told] /\ pending'[t] = Idle
      /\ \A u \in Threads : u # t => pending'[u] = pending[u]
  BY DEF IInv, Types, Idle, Told
<1>2. kernel' = kernel /\ aborted' = aborted
  OBVIOUS
<1>3. About(t)' = {}
  BY <1>1 DEF About, Idle
<1>4. \A u \in Threads : u # t => About(u)' = About(u)
  BY <1>1 DEF About
<1>5. Types'
  BY <1>1, <1>2 DEF IInv, Types
<1>6. Apart'
  BY <1>3, <1>4 DEF IInv, Apart
<1>7. Untold'
  BY <1>2, <1>4 DEF IInv, Untold
<1>8. TellsTruth'
  <2> SUFFICES ASSUME NEW u \in Threads PROVE
         /\ pending'[u].op = "none" => About(u)' = {}
         /\ pending'[u].op \in {"mmap", "mremap"} =>
              /\ \A p \in pending'[u].pages : kernel'[p] = u
              /\ \A p \in pending'[u].old : kernel'[p] = Nobody
              /\ ~pending'[u].fixed => \A p \in pending'[u].pages : record'[p] = Nobody
         /\ pending'[u].op = "munmap" =>
              /\ \A p \in pending'[u].pages : kernel'[p] = Nobody
              /\ pending'[u].old = {}
    BY DEF TellsTruth
  <2>1. CASE u = t
    BY <1>1, <1>3, <2>1 DEF Idle
  <2>2. CASE u # t
    <3>1. \A p \in About(u) : p \in Pages /\ p \notin About(t)
      BY <2>2 DEF About, IInv, Types, Told, Apart
    <3>2. \A p \in About(u) : record'[p] = record[p]
      BY <3>1
    <3> QED BY <1>1, <1>2, <1>4, <2>2, <3>2 DEF IInv, TellsTruth, About
  <2> QED BY <2>1, <2>2
<1> QED BY <1>5, <1>6, <1>7, <1>8 DEF IInv

\* __mmap_allocator_notify_mmap and _notify_mremap find no overlap that was not
\* asked for, so they record and do not abort.
LEMMA NotifyMapKeeps ==
    ASSUME IInv, NEW t \in Threads, notify_map(t)
    PROVE  IInv'
<1>1. pending[t] \in Told /\ pending[t].op \in {"mmap", "mremap"}
  BY DEF notify_map, IInv, Types
<1>2. /\ \A p \in pending[t].pages : kernel[p] = t
      /\ \A p \in pending[t].old : kernel[p] = Nobody
      /\ ~pending[t].fixed => \A p \in pending[t].pages : record[p] = Nobody
  BY <1>1 DEF IInv, TellsTruth
<1>3. ~OverlapsUnasked(pending[t])
  BY <1>2 DEF OverlapsUnasked
<1>4. /\ record' = Set(Set(record, pending[t].pages, t), pending[t].old, Nobody)
      /\ pending' = [pending EXCEPT ![t] = Idle]
      /\ UNCHANGED <<kernel, aborted>>
  BY <1>3 DEF notify_map
<1>5. record' \in [Pages -> Threads \cup {Nobody}]
  BY <1>4 DEF Set, IInv, Types
<1>6. \A p \in Pages : record'[p] = IF p \in About(t) THEN kernel[p] ELSE record[p]
  BY <1>1, <1>2, <1>4 DEF Set, About, IInv, Types, Told
<1> QED BY <1>4, <1>5, <1>6, NotificationKeeps

\* __mmap_allocator_notify_munmap.
LEMMA NotifyMunmapKeeps ==
    ASSUME IInv, NEW t \in Threads, notify_munmap(t)
    PROVE  IInv'
<1>1. /\ pending[t].old = {}
      /\ \A p \in pending[t].pages : kernel[p] = Nobody
  BY DEF notify_munmap, IInv, TellsTruth
<1>2. /\ record' = Set(record, pending[t].pages, Nobody)
      /\ pending' = [pending EXCEPT ![t] = Idle]
      /\ UNCHANGED <<kernel, aborted>>
  BY DEF notify_munmap
<1>3. record' \in [Pages -> Threads \cup {Nobody}]
  BY <1>2 DEF Set, IInv, Types
<1>4. \A p \in Pages : record'[p] = IF p \in About(t) THEN kernel[p] ELSE record[p]
  BY <1>1, <1>2 DEF Set, About
<1> QED BY <1>2, <1>3, <1>4, NotificationKeeps

\* The invariant is inductive under the contract that the calls on one page
\* follow one another.
LEMMA NextIInv ==
    ASSUME "no_reuse_in_flight" \in Contracts
    PROVE  IInv /\ [Next]_vars => IInv'
<1> SUFFICES ASSUME IInv, [Next]_vars PROVE IInv'
  OBVIOUS
<1>1. CASE UNCHANGED vars
  BY <1>1 DEF vars, IInv, Types, TellsTruth, Untold, Apart, About
<1>2. CASE Next
  <2>1. PICK t \in Threads :
          \/ \E pages \in SUBSET Pages \ {{}} :
               \/ \E fixed \in BOOLEAN : raw_mmap(t, pages, fixed)
               \/ \E ret \in {0, 1} : raw_munmap(t, pages, ret)
               \/ \E old \in SUBSET Pages \ {{}} : raw_mremap(t, old, pages)
          \/ notify_map(t)
          \/ notify_munmap(t)
    BY <1>2 DEF Next
  <2> QED BY <2>1, MmapKeeps, MunmapKeeps, MremapKeeps, NotifyMapKeeps, NotifyMunmapKeeps
<1> QED BY <1>1, <1>2

\* What the invariant says in the words of module Systrap.
LEMMA IInvImplies == IInv => AgreesWhenTold /\ OnlyAskedOverlaps
<1> SUFFICES ASSUME IInv PROVE AgreesWhenTold /\ OnlyAskedOverlaps
  OBVIOUS
<1>1. \A p \in Pages \ InFlight : record[p] = kernel[p]
  BY DEF IInv, Untold, InFlight, About
<1> QED BY <1>1 DEF IInv, Apart, Types, About, AgreesWhenTold, OnlyAskedOverlaps

\* With any number of threads, whatever the order of their raw calls and of the
\* notifications that follow them: as long as the calls on one page follow one
\* another, the mmap allocator's record agrees with the kernel on every page
\* nothing is still to be told of.
THEOREM RecordAgrees ==
    ASSUME "no_reuse_in_flight" \in Contracts
    PROVE  Spec => []AgreesWhenTold
<1>1. IInv => AgreesWhenTold
  BY IInvImplies
<1> QED BY InitIInv, NextIInv, <1>1, PTL DEF Spec

\* Under the same contract no notification makes do_mmap abort on an overlap
\* that its caller did not ask for.
THEOREM NoUnaskedOverlap ==
    ASSUME "no_reuse_in_flight" \in Contracts
    PROVE  Spec => []OnlyAskedOverlaps
<1>1. IInv => OnlyAskedOverlaps
  BY IInvImplies
<1> QED BY InitIInv, NextIInv, <1>1, PTL DEF Spec

-----------------------------------------------------------------------------
(* The order of the initializers. *)

AllOrderContracts ==
    {"quiet_between", "known_code", "sane_lengths", "no_early_query"} \subseteq OrderContracts

At(f, p) == [fn |-> f, pc |-> p]
Push(s, f, p) == Append(s, At(f, p))
Every == {"mmap", "files", "global"}

\* Where the initializers are after the first k stages.  Either
\* __mmap_allocator_init is entered first, and calls the global one when it is
\* through, or the global one is, and the other is entered from it.  In both
\* cases the last stage, "auxv", is left to the files' initializer.
MmapFirst(k) ==
    \/ \E p \in 1..12 :
         /\ stack = Push(<<>>, "mmap", p)
         /\ entered = {"mmap"} /\ initialized = {} /\ k = p - 1
    \/ \E p \in 1..2 :
         /\ stack = Push(Push(<<>>, "mmap", 13), "global", p)
         /\ entered = {"mmap", "global"} /\ initialized = {} /\ k = 11
    \/ \E p \in 1..4 :
         /\ stack = Push(Push(Push(<<>>, "mmap", 13), "global", 3), "files", p)
         /\ entered = Every /\ initialized = {} /\ k = IF p = 4 THEN 12 ELSE 11
    \/ /\ stack = Push(Push(<<>>, "mmap", 13), "global", 3)
       /\ entered = Every /\ initialized = {"files"} /\ k = 12
    \/ /\ stack = Push(<<>>, "mmap", 13)
       /\ entered = Every /\ initialized = {"files", "global"} /\ k = 12
GlobalFirst(k) ==
    \/ /\ stack = Push(<<>>, "global", 1)
       /\ entered = {"global"} /\ initialized = {} /\ k = 0
    \/ \E g \in 1..2, p \in 1..13 :
         /\ stack = Push(Push(<<>>, "global", g), "mmap", p)
         /\ entered = {"mmap", "global"} /\ initialized = {} /\ k = IF p = 13 THEN 11 ELSE p - 1
    \/ \E g \in 1..2 :
         /\ stack = Push(<<>>, "global", g)
         /\ entered = {"mmap", "global"} /\ initialized = {"mmap"} /\ k = 11
    \/ \E p \in 1..4 :
         /\ stack = Push(Push(<<>>, "global", 3), "files", p)
         /\ entered = Every /\ initialized = {"mmap"} /\ k = IF p = 4 THEN 12 ELSE 11
    \/ /\ stack = Push(<<>>, "global", 3)
       /\ entered = Every /\ initialized = {"mmap", "files"} /\ k = 12
Position(k) ==
    \/ /\ stack = <<>> /\ entered = {} /\ initialized = {} /\ k = 0
       /\ constructors # <<>> /\ Head(constructors) = "mmap"
    \/ MmapFirst(k)
    \/ GlobalFirst(k)
    \/ stack = <<>> /\ entered = Every /\ initialized = Every /\ k = 12

\* What has been told of after the first k stages.
ToldAfter(k) ==
    /\ told = [m \in Mappings |-> told[m]] /\ present \subseteq Mappings
    /\ k < 4 => \A m \in Mappings : told[m] = 0
    /\ k = 3 => snapshot = present
    /\ k >= 4 => \A m \in Mappings : told[m] = IF m \in present THEN 1 ELSE 0

OrderInv ==
    /\ failed = "no"
    /\ \E k \in 0..12 : done = SubSeq(Stages, 1, k) /\ Position(k) /\ ToldAfter(k)

Frames == [fn : Every, pc : Nat]

Pushed(s, b, f, p) ==
    /\ s \in Seq(Frames) /\ s # <<>> /\ s[Len(s)] = At(f, p)
    /\ Advance(s) = Push(b, f, p + 1)
    /\ SubSeq(s, 1, Len(s) - 1) = b

LEMMA PushProperties ==
    ASSUME NEW b \in Seq(Frames), NEW f \in Every, NEW p \in Nat, NEW s, s = Push(b, f, p)
    PROVE  Pushed(s, b, f, p)
<1>1. At(f, p) \in Frames /\ At(f, p + 1) \in Frames
  BY DEF At, Frames
<1>2. /\ s \in Seq(Frames) /\ s # <<>> /\ Len(s) = Len(b) + 1
      /\ \A i \in 1..Len(b) : s[i] = b[i]
      /\ s[Len(b) + 1] = At(f, p)
  BY <1>1, AppendProperties DEF Push
<1>3. PICK r : r = Push(b, f, p + 1)
  OBVIOUS
<1>4. /\ r \in Seq(Frames) /\ Len(r) = Len(b) + 1
      /\ \A i \in 1..Len(b) : r[i] = b[i]
      /\ r[Len(b) + 1] = At(f, p + 1)
  BY <1>1, <1>3, AppendProperties DEF Push
<1>5. PICK n \in Nat : n = Len(b)
  BY LenProperties
<1>6. Advance(s) = [s EXCEPT ![n + 1] = At(f, p + 1)]
  <2>1. Len(s) = n + 1 /\ s[n + 1] = At(f, p)
    BY <1>2, <1>5
  <2>2. Advance(s) = [s EXCEPT ![n + 1] = [s[n + 1] EXCEPT !.pc = s[n + 1].pc + 1]]
    BY <2>1 DEF Advance
  <2>3. [At(f, p) EXCEPT !.pc = At(f, p).pc + 1] = At(f, p + 1)
    BY DEF At
  <2> QED BY <2>1, <2>2, <2>3
<1>7. [s EXCEPT ![n + 1] = At(f, p + 1)] = r
  <2>1. PICK q : q = [s EXCEPT ![n + 1] = At(f, p + 1)]
    OBVIOUS
  <2>2. q \in Seq(Frames) /\ Len(q) = n + 1 /\ \A i \in 1..(n + 1) : q[i] = r[i]
    <3>1. n + 1 \in 1..Len(s)
      BY <1>2, <1>5
    <3>2. q \in Seq(Frames) /\ Len(q) = Len(s)
          /\ \A i \in 1..Len(s) : q[i] = IF i = n + 1 THEN At(f, p + 1) ELSE s[i]
      BY <2>1, <3>1, <1>1, <1>2, ExceptSeq
    <3> QED BY <3>2, <1>2, <1>4, <1>5
  <2> QED BY <2>1, <2>2, <1>4, <1>5, SeqEqual
<1>8. SubSeq(s, 1, Len(s) - 1) = b
  <2>1. PICK q : q = SubSeq(s, 1, n)
    OBVIOUS
  <2>2. \A i \in 1..n : s[i] \in Frames
    BY <1>2, <1>5, ElementOfSeq
  <2>3. q \in Seq(Frames) /\ Len(q) = n /\ \A i \in 1..n : q[i] = s[i]
    BY <2>1, <2>2, <1>5, SubSeqProperties
  <2> QED BY <2>1, <2>3, <1>2, <1>5, SeqEqual
<1>9. s[Len(s)] = At(f, p) /\ Advance(s) = Push(b, f, p + 1)
  BY <1>2, <1>3, <1>6, <1>7
<1> QED BY <1>2, <1>8, <1>9, Zenon DEF Pushed

LEMMA StagesAre ==
    /\ Stages[1] = "pageindex" /\ Stages[2] = "holes" /\ Stages[3] = "read_maps"
    /\ Stages[4] = "add_maps" /\ Stages[5] = "brk" /\ Stages[6] = "runt_files"
    /\ Stages[7] = "trap" /\ Stages[8] = "systrap_on" /\ Stages[9] = "notify_brk"
    /\ Stages[10] = "meta_objects" /\ Stages[11] = "dlbind" /\ Stages[12] = "auxv"
<1>1. /\ Stages[1] = "pageindex" /\ Stages[2] = "holes" /\ Stages[3] = "read_maps"
      /\ Stages[4] = "add_maps" /\ Stages[5] = "brk" /\ Stages[6] = "runt_files"
  BY DEF Stages
<1>2. /\ Stages[7] = "trap" /\ Stages[8] = "systrap_on" /\ Stages[9] = "notify_brk"
      /\ Stages[10] = "meta_objects" /\ Stages[11] = "dlbind" /\ Stages[12] = "auxv"
  BY DEF Stages
<1> QED BY <1>1, <1>2

LEMMA StagesDiffer ==
    ASSUME NEW i \in 1..12
    PROVE  /\ Stages[i] = "read_maps" <=> i = 3
           /\ Stages[i] = "add_maps" <=> i = 4
           /\ Stages[i] = "runt_files" <=> i = 6
           /\ Stages[i] = "trap" <=> i = 7
           /\ Stages[i] = "systrap_on" <=> i = 8
           /\ Stages[i] \notin {"finish", "call_mmap", "call_files", "call_global"}
<1>1. \/ i = 1 \/ i = 2 \/ i = 3 \/ i = 4 \/ i = 5 \/ i = 6
      \/ i = 7 \/ i = 8 \/ i = 9 \/ i = 10 \/ i = 11 \/ i = 12
  OBVIOUS
<1> QED BY <1>1, StagesAre

LEMMA DoneMeans ==
    ASSUME NEW k \in 0..12, DOMAIN done = 1..k, \A i \in 1..k : done[i] = Stages[i]
    PROVE  /\ Done("read_maps") <=> 3 <= k
           /\ Done("add_maps") <=> 4 <= k
           /\ Done("runt_files") <=> 6 <= k
           /\ Done("trap") <=> 7 <= k
           /\ Done("systrap_on") <=> 8 <= k
<1>1. ASSUME NEW x, NEW j \in 1..12, \A i \in 1..12 : Stages[i] = x <=> i = j
      PROVE  Done(x) <=> j <= k
  <2>1. Done(x) <=> \E i \in 1..k : Stages[i] = x
    BY DEF Done
  <2>2. \A i \in 1..k : i \in 1..12
    OBVIOUS
  <2> QED BY <1>1, <2>1, <2>2
<1>2. Done("read_maps") <=> 3 <= k
  <2>1. \A i \in 1..12 : Stages[i] = "read_maps" <=> i = 3
    BY StagesDiffer
  <2> QED BY <1>1, <2>1
<1>3. Done("add_maps") <=> 4 <= k
  <2>1. \A i \in 1..12 : Stages[i] = "add_maps" <=> i = 4
    BY StagesDiffer
  <2> QED BY <1>1, <2>1, SMTT(20)
<1>4. Done("runt_files") <=> 6 <= k
  <2>1. \A i \in 1..12 : Stages[i] = "runt_files" <=> i = 6
    BY StagesDiffer
  <2> QED BY <1>1, <2>1
<1>5. Done("trap") <=> 7 <= k
  <2>1. \A i \in 1..12 : Stages[i] = "trap" <=> i = 7
    BY StagesDiffer
  <2> QED BY <1>1, <2>1
<1>6. Done("systrap_on") <=> 8 <= k
  <2>1. \A i \in 1..12 : Stages[i] = "systrap_on" <=> i = 8
    BY StagesDiffer
  <2> QED BY <1>1, <2>1
<1> QED BY <1>2, <1>3, <1>4, <1>5, <1>6

LEMMA DoneIs ==
    ASSUME NEW k \in 0..12, done = SubSeq(Stages, 1, k)
    PROVE  /\ Len(done) = k
           /\ Done("read_maps") <=> 3 <= k
           /\ Done("add_maps") <=> 4 <= k
           /\ Done("runt_files") <=> 6 <= k
           /\ Done("trap") <=> 7 <= k
           /\ Done("systrap_on") <=> 8 <= k
           /\ k < 12 => Append(done, Stages[k + 1]) = SubSeq(Stages, 1, k + 1)
<1> DEFINE Name == {Stages[i] : i \in 1..12}
<1>1. \A i \in 1..12 : Stages[i] \in Name
  OBVIOUS
<1> HIDE DEF Name
<1>2. done \in Seq(Name) /\ Len(done) = k /\ \A i \in 1..k : done[i] = Stages[i]
  <2>1. \A i \in 1..k : Stages[i] \in Name
    BY <1>1
  <2> QED BY <2>1, SubSeqProperties, SMTT(20)
<1>3. DOMAIN done = 1..k
  BY <1>2, LenProperties
<1>4. /\ Done("read_maps") <=> 3 <= k
      /\ Done("add_maps") <=> 4 <= k
      /\ Done("runt_files") <=> 6 <= k
      /\ Done("trap") <=> 7 <= k
      /\ Done("systrap_on") <=> 8 <= k
  BY <1>2, <1>3, DoneMeans
<1>5. k < 12 => Append(done, Stages[k + 1]) = SubSeq(Stages, 1, k + 1)
  <2> SUFFICES ASSUME k < 12
               PROVE  Append(done, Stages[k + 1]) = SubSeq(Stages, 1, k + 1)
    OBVIOUS
  <2>1. PICK r : r = Append(done, Stages[k + 1])
    OBVIOUS
  <2>2. PICK q : q = SubSeq(Stages, 1, k + 1)
    OBVIOUS
  <2>3. \A i \in 1..(k + 1) : Stages[i] \in Name
    BY <1>1, SMTT(20)
  <2>4. /\ r \in Seq(Name) /\ Len(r) = k + 1 /\ r[k + 1] = Stages[k + 1]
        /\ \A i \in 1..k : r[i] = done[i]
    <3>1. PICK e \in Name : e = Stages[k + 1]
      BY <2>3
    <3>2. /\ Append(done, e) \in Seq(Name) /\ Len(Append(done, e)) = Len(done) + 1
          /\ \A i \in 1..Len(done) : Append(done, e)[i] = done[i]
          /\ Append(done, e)[Len(done) + 1] = e
      BY <1>2, AppendProperties
    <3> QED BY <1>2, <2>1, <3>1, <3>2
  <2>5. q \in Seq(Name) /\ Len(q) = k + 1 /\ \A i \in 1..(k + 1) : q[i] = Stages[i]
    <3>1. PICK n \in Nat : n = k + 1
      OBVIOUS
    <3>2. \A i \in 1..n : Stages[i] \in Name
      BY <2>3, <3>1
    <3>3. /\ SubSeq(Stages, 1, n) \in Seq(Name)
          /\ Len(SubSeq(Stages, 1, n)) = IF 1 <= n THEN n - 1 + 1 ELSE 0
          /\ \A i \in 1..(n - 1 + 1) : SubSeq(Stages, 1, n)[i] = Stages[1 + i - 1]
      BY <3>2, SubSeqProperties
    <3>4. 1 <= n /\ n - 1 + 1 = n /\ \A i \in 1..n : 1 + i - 1 = i
      BY <3>1
    <3>5. Len(SubSeq(Stages, 1, n)) = n /\ \A i \in 1..n : SubSeq(Stages, 1, n)[i] = Stages[i]
      BY <3>3, <3>4
    <3> QED BY <2>2, <3>1, <3>3, <3>5
  <2>6. \A i \in 1..Len(r) : r[i] = q[i]
    BY <2>4, <2>5, <1>2
  <2> QED BY <2>1, <2>2, <2>4, <2>5, <2>6, SeqEqual
<1> QED BY <1>2, <1>4, <1>5

LEMMA StepsAre ==
    /\ \A p \in 1..11 : Steps["mmap"][p] = Stages[p]
    /\ Steps["mmap"][12] = "call_global" /\ Steps["mmap"][13] = "finish"
    /\ Steps["files"][1] = "runt_files" /\ Steps["files"][2] = "call_mmap"
    /\ Steps["files"][3] = "auxv" /\ Steps["files"][4] = "finish"
    /\ Steps["global"][1] = "call_mmap" /\ Steps["global"][2] = "call_files"
    /\ Steps["global"][3] = "finish"
<1>1. PICK m : m = mmap_allocator_init
  OBVIOUS
<1>2. Steps["mmap"] = m
  BY <1>1 DEF Steps
<1>3. m[1] = "pageindex" /\ m[2] = "holes" /\ m[3] = "read_maps" /\ m[4] = "add_maps"
  BY <1>1 DEF mmap_allocator_init, systrap_init, post_systrap_init
<1>4. m[5] = "brk" /\ m[6] = "runt_files" /\ m[7] = "trap" /\ m[8] = "systrap_on"
  BY <1>1 DEF mmap_allocator_init, systrap_init, post_systrap_init
<1>5. m[9] = "notify_brk" /\ m[10] = "meta_objects" /\ m[11] = "dlbind"
  BY <1>1 DEF mmap_allocator_init, systrap_init, post_systrap_init
<1>6. m[12] = "call_global" /\ m[13] = "finish"
  BY <1>1 DEF mmap_allocator_init, systrap_init, post_systrap_init
<1>7. \A p \in 1..11 : m[p] = Stages[p]
  BY <1>3, <1>4, <1>5, StagesAre
<1>8. /\ Steps["files"][1] = "runt_files" /\ Steps["files"][2] = "call_mmap"
      /\ Steps["files"][3] = "auxv" /\ Steps["files"][4] = "finish"
  BY DEF Steps, static_file_allocator_init
<1>9. /\ Steps["global"][1] = "call_mmap" /\ Steps["global"][2] = "call_files"
      /\ Steps["global"][3] = "finish"
  BY DEF Steps, global_init
<1> QED BY <1>2, <1>6, <1>7, <1>8, <1>9

\* One step of the innermost initializer: it finishes, calls another, or goes
\* through a stage.
Finishes(b, f) ==
    /\ stack' = b /\ initialized' = initialized \cup {f}
    /\ UNCHANGED <<entered, done, snapshot, told, failed>>
Enters(b, f, p, g) ==
    /\ IF g \in entered THEN stack' = Push(b, f, p + 1) /\ UNCHANGED entered
       ELSE stack' = Push(Push(b, f, p + 1), g, 1) /\ entered' = entered \cup {g}
    /\ UNCHANGED <<initialized, done, snapshot, told, failed>>
GoesThrough(b, f, p, stage) ==
    /\ stack' = Push(b, f, p + 1)
    /\ done' = IF stage = "runt_files" /\ Done(stage) THEN done ELSE Append(done, stage)
    /\ Effect(stage)
    /\ UNCHANGED <<entered, initialized>>

LEMMA StepIs ==
    ASSUME step, NEW b \in Seq(Frames), NEW f \in Every, NEW p \in Nat, stack = Push(b, f, p)
    PROVE  /\ Steps[f][p] = "finish" => Finishes(b, f)
           /\ Steps[f][p] = "call_mmap" => Enters(b, f, p, "mmap")
           /\ Steps[f][p] = "call_files" => Enters(b, f, p, "files")
           /\ Steps[f][p] = "call_global" => Enters(b, f, p, "global")
           /\ Steps[f][p] \notin {"finish", "call_mmap", "call_files", "call_global"} =>
                 GoesThrough(b, f, p, Steps[f][p])
<1>1. /\ stack[Len(stack)] = At(f, p) /\ Advance(stack) = Push(b, f, p + 1)
      /\ SubSeq(stack, 1, Len(stack) - 1) = b
  <2>1. Pushed(stack, b, f, p)
    BY PushProperties
  <2> QED BY <2>1, Zenon DEF Pushed
<1>2. stack[Len(stack)].fn = f /\ stack[Len(stack)].pc = p
  BY <1>1 DEF At
<1>3. PICK next : next = Steps[f][p]
  OBVIOUS
<1>4. IF next = "finish"
      THEN Finishes(b, f)
      ELSE IF Callee(next) # {}
      THEN /\ \E g \in Callee(next) : Call(g, Push(b, f, p + 1))
           /\ UNCHANGED <<initialized, done, snapshot, told, failed>>
      ELSE GoesThrough(b, f, p, next)
  <2>1. PICK top, pop, adv :
          /\ top = stack[Len(stack)] /\ adv = Advance(stack)
          /\ pop = SubSeq(stack, 1, Len(stack) - 1)
    OBVIOUS
  <2>2. IF Steps[top.fn][top.pc] = "finish"
        THEN /\ stack' = pop /\ initialized' = initialized \cup {top.fn}
             /\ UNCHANGED <<entered, done, snapshot, told, failed>>
        ELSE IF Callee(Steps[top.fn][top.pc]) # {}
        THEN /\ \E g \in Callee(Steps[top.fn][top.pc]) : Call(g, adv)
             /\ UNCHANGED <<initialized, done, snapshot, told, failed>>
        ELSE /\ stack' = adv
             /\ done' = IF Steps[top.fn][top.pc] = "runt_files" /\ Done(Steps[top.fn][top.pc])
                        THEN done ELSE Append(done, Steps[top.fn][top.pc])
             /\ Effect(Steps[top.fn][top.pc])
             /\ UNCHANGED <<entered, initialized>>
    BY <2>1, Zenon DEF step
  <2>3. top.fn = f /\ top.pc = p /\ adv = Push(b, f, p + 1) /\ pop = b
    BY <2>1, <1>1, <1>2
  <2> QED BY <2>2, <2>3, <1>3 DEF Finishes, GoesThrough
<1>5. \A g \in Every : Call(g, Push(b, f, p + 1)) /\
        UNCHANGED <<initialized, done, snapshot, told, failed>> => Enters(b, f, p, g)
  BY DEF Call, MayBegin, Enters, Frame, Push, At
<1>6. /\ Callee("call_mmap") = {"mmap"} /\ Callee("call_files") = {"files"}
      /\ Callee("call_global") = {"global"}
  BY DEF Callee
<1>7. next \notin {"call_mmap", "call_files", "call_global"} => Callee(next) = {}
  BY DEF Callee
<1>8. CASE next = "call_mmap"
  BY <1>3, <1>4, <1>5, <1>6, <1>8 DEF Every
<1>9. CASE next = "call_files"
  BY <1>3, <1>4, <1>5, <1>6, <1>9 DEF Every
<1>10. CASE next = "call_global"
  BY <1>3, <1>4, <1>5, <1>6, <1>10 DEF Every
<1>11. CASE next \notin {"call_mmap", "call_files", "call_global"}
  BY <1>3, <1>4, <1>7, <1>11
<1> QED BY <1>8, <1>9, <1>10, <1>11

\* The steps that are the same whoever called: all but the first eleven of
\* __mmap_allocator_init.
LEMMA StepAt ==
    ASSUME step, NEW b \in Seq(Frames)
    PROVE  /\ stack = Push(b, "mmap", 12) => Enters(b, "mmap", 12, "global")
           /\ stack = Push(b, "mmap", 13) => Finishes(b, "mmap")
           /\ stack = Push(b, "files", 1) => GoesThrough(b, "files", 1, "runt_files")
           /\ stack = Push(b, "files", 2) => Enters(b, "files", 2, "mmap")
           /\ stack = Push(b, "files", 3) => GoesThrough(b, "files", 3, "auxv")
           /\ stack = Push(b, "files", 4) => Finishes(b, "files")
           /\ stack = Push(b, "global", 1) => Enters(b, "global", 1, "mmap")
           /\ stack = Push(b, "global", 2) => Enters(b, "global", 2, "files")
           /\ stack = Push(b, "global", 3) => Finishes(b, "global")
<1>1. "mmap" \in Every /\ "files" \in Every /\ "global" \in Every
  BY DEF Every
<1>2. ASSUME stack = Push(b, "mmap", 12) PROVE Enters(b, "mmap", 12, "global")
  <2>1. Steps["mmap"][12] = "call_global"
    BY StepsAre
  <2> QED BY <1>1, <1>2, <2>1, StepIs
<1>3. ASSUME stack = Push(b, "mmap", 13) PROVE Finishes(b, "mmap")
  <2>1. Steps["mmap"][13] = "finish"
    BY StepsAre
  <2> QED BY <1>1, <1>3, <2>1, StepIs
<1>4. ASSUME stack = Push(b, "files", 1) PROVE GoesThrough(b, "files", 1, "runt_files")
  <2>1. Steps["files"][1] = "runt_files"
    BY StepsAre
  <2> QED BY <1>1, <1>4, <2>1, StepIs
<1>5. ASSUME stack = Push(b, "files", 2) PROVE Enters(b, "files", 2, "mmap")
  <2>1. Steps["files"][2] = "call_mmap"
    BY StepsAre
  <2> QED BY <1>1, <1>5, <2>1, StepIs
<1>6. ASSUME stack = Push(b, "files", 3) PROVE GoesThrough(b, "files", 3, "auxv")
  <2>1. Steps["files"][3] = "auxv"
    BY StepsAre
  <2> QED BY <1>1, <1>6, <2>1, StepIs
<1>7. ASSUME stack = Push(b, "files", 4) PROVE Finishes(b, "files")
  <2>1. Steps["files"][4] = "finish"
    BY StepsAre
  <2> QED BY <1>1, <1>7, <2>1, StepIs
<1>8. ASSUME stack = Push(b, "global", 1) PROVE Enters(b, "global", 1, "mmap")
  <2>1. Steps["global"][1] = "call_mmap"
    BY StepsAre
  <2> QED BY <1>1, <1>8, <2>1, StepIs
<1>9. ASSUME stack = Push(b, "global", 2) PROVE Enters(b, "global", 2, "files")
  <2>1. Steps["global"][2] = "call_files"
    BY StepsAre
  <2> QED BY <1>1, <1>9, <2>1, StepIs
<1>10. ASSUME stack = Push(b, "global", 3) PROVE Finishes(b, "global")
  <2>1. Steps["global"][3] = "finish"
    BY StepsAre
  <2> QED BY <1>1, <1>10, <2>1, StepIs
<1> QED BY <1>2, <1>3, <1>4, <1>5, <1>6, <1>7, <1>8, <1>9, <1>10

LEMMA PositionStays ==
    ASSUME NEW k, Position(k), UNCHANGED <<stack, entered, initialized, constructors>>
    PROVE  Position(k)'
<1>1. MmapFirst(k) => MmapFirst(k)'
  BY DEF MmapFirst
<1>2. GlobalFirst(k) => GlobalFirst(k)'
  BY DEF GlobalFirst
<1>3. ASSUME stack = <<>>, entered = {}, initialized = {}, k = 0,
             constructors # <<>>, Head(constructors) = "mmap"
      PROVE  Position(k)'
  <2>1. Head(constructors') = "mmap"
    BY <1>3
  <2> QED BY <1>3, <2>1 DEF Position
<1> QED BY <1>1, <1>2, <1>3 DEF Position

\* The stages tell of what the maps file showed, when they get there.
LEMMA EffectIs ==
    ASSUME NEW k \in 0..11, ToldAfter(k), failed = "no", UNCHANGED present, Effect(Stages[k + 1])
    PROVE  ToldAfter(k + 1)' /\ failed' = "no"
<1>1. PICK stage : stage = Stages[k + 1]
  OBVIOUS
<1>2. (stage = "read_maps" <=> k = 2) /\ (stage = "add_maps" <=> k = 3)
  BY <1>1, StagesDiffer
<1>3. CASE k = 3
  <2>1. Tell(snapshot) /\ snapshot = present /\ \A m \in Mappings : told[m] = 0
    BY <1>1, <1>2, <1>3 DEF Effect, ToldAfter
  <2>2. \A m \in Mappings : told'[m] = IF m \in present THEN 1 ELSE 0
    BY <2>1 DEF Tell
  <2>3. told' = [m \in Mappings |-> told'[m]]
    BY <2>1 DEF Tell
  <2>4. failed' = "no"
    BY <2>1 DEF Tell, ToldAfter
  <2> QED BY <2>2, <2>3, <2>4, <1>3 DEF ToldAfter
<1>4. CASE k = 2
  BY <1>1, <1>2, <1>4 DEF Effect, ToldAfter
<1>5. CASE k \notin {2, 3}
  <2>1. UNCHANGED <<told, failed, present>>
    BY <1>1, <1>2, <1>5 DEF Effect
  <2>2. (k + 1 < 4 => k < 4) /\ (k + 1 >= 4 => k >= 4) /\ k + 1 # 3
    BY <1>5
  <2> QED BY <2>1, <2>2 DEF ToldAfter
<1> QED BY <1>3, <1>4, <1>5

\* A step that goes through no stage, and one that does.
LEMMA NoStage ==
    ASSUME NEW k \in 0..12, done = SubSeq(Stages, 1, k), ToldAfter(k), failed = "no",
           UNCHANGED <<done, snapshot, told, failed, present>>, Position(k)'
    PROVE  OrderInv'
BY DEF OrderInv, ToldAfter

LEMMA OneStage ==
    ASSUME NEW k \in 0..11, done = SubSeq(Stages, 1, k), ToldAfter(k), failed = "no",
           NEW b, NEW f, NEW p, GoesThrough(b, f, p, Stages[k + 1]), UNCHANGED present,
           Position(k + 1)'
    PROVE  OrderInv'
<1>1. k \in 0..12 /\ k + 1 \in 1..12 /\ k + 1 \in 0..12
  OBVIOUS
<1>2. done' = SubSeq(Stages, 1, k + 1)
  <2>1. Done("runt_files") <=> 6 <= k
    BY <1>1, DoneIs
  <2>2. Stages[k + 1] = "runt_files" <=> k + 1 = 6
    BY <1>1, StagesDiffer
  <2>3. ~(Stages[k + 1] = "runt_files" /\ Done(Stages[k + 1]))
    BY <2>1, <2>2
  <2>4. Append(done, Stages[k + 1]) = SubSeq(Stages, 1, k + 1)
    BY <1>1, DoneIs
  <2> QED BY <2>3, <2>4 DEF GoesThrough
<1>3. ToldAfter(k + 1)' /\ failed' = "no"
  BY EffectIs DEF GoesThrough
<1> QED BY <1>1, <1>2, <1>3 DEF OrderInv

LEMMA Bases ==
    ASSUME NEW b \in Seq(Frames), NEW f \in Every, NEW p \in Nat
    PROVE  Push(b, f, p) \in Seq(Frames)
BY AppendProperties DEF Push, At, Frames

\* The initializer of the files runs on top of whatever entered it; the files
\* themselves are there already.
LEMMA FilesStep ==
    ASSUME step, failed = "no", NEW k \in 0..12, done = SubSeq(Stages, 1, k), ToldAfter(k),
           NEW b \in Seq(Frames), NEW p \in 1..4, stack = Push(b, "files", p), entered = Every,
           k = IF p = 4 THEN 12 ELSE 11,
           \A q \in 2..4 : /\ stack' = Push(b, "files", q)
                           /\ entered' = Every /\ initialized' = initialized
                           => Position(IF q = 4 THEN 12 ELSE 11)',
           /\ stack' = b /\ entered' = Every /\ initialized' = initialized \cup {"files"}
           => Position(12)'
    PROVE  OrderInv'
<1>1. "files" \in Every /\ "mmap" \in Every /\ p \in Nat
  BY DEF Every
<1>2. UNCHANGED <<present, constructors>>
  BY DEF step
<1>3. CASE p = 1
  <2>1. GoesThrough(b, "files", 1, "runt_files")
    BY <1>1, <1>3, StepAt
  <2>2. Done("runt_files")
    BY <1>3, DoneIs
  <2>3. /\ stack' = Push(b, "files", 2)
        /\ UNCHANGED <<done, snapshot, told, failed, entered, initialized>>
    BY <2>1, <2>2 DEF GoesThrough, Effect
  <2>4. Position(11)'
    BY <2>3
  <2> QED BY <2>3, <2>4, <1>2, <1>3, NoStage
<1>4. CASE p = 2
  <2>1. Enters(b, "files", 2, "mmap")
    BY <1>1, <1>4, StepAt
  <2>2. /\ stack' = Push(b, "files", 3)
        /\ UNCHANGED <<done, snapshot, told, failed, entered, initialized>>
    BY <2>1, <1>1 DEF Enters
  <2>3. Position(11)'
    BY <2>2
  <2>4. Position(k)'
    BY <2>3, <1>4
  <2> QED BY <2>2, <2>4, <1>2, NoStage
<1>5. CASE p = 3
  <2>1. GoesThrough(b, "files", 3, Stages[12]) /\ k = 11 /\ k \in 0..11 /\ k + 1 = 12
    BY <1>1, <1>5, StepAt, StagesAre
  <2>2. stack' = Push(b, "files", 4) /\ UNCHANGED <<entered, initialized>>
    BY <2>1 DEF GoesThrough
  <2>3. Position(12)'
    BY <2>2
  <2>4. GoesThrough(b, "files", 3, Stages[k + 1]) /\ Position(k + 1)'
    BY <2>1, <2>3
  <2> QED BY <2>1, <2>4, <1>2, OneStage
<1>6. CASE p = 4
  <2>1. Finishes(b, "files")
    BY <1>1, <1>6, StepAt
  <2>2. Position(12)' /\ UNCHANGED <<done, snapshot, told, failed>>
    BY <2>1 DEF Finishes
  <2> QED BY <2>2, <1>2, <1>6, NoStage
<1> QED BY <1>3, <1>4, <1>5, <1>6

\* The mmap allocator's initializer, up to its last call.
LEMMA MmapStep ==
    ASSUME step, failed = "no", NEW k \in 0..10, done = SubSeq(Stages, 1, k), ToldAfter(k),
           NEW b \in Seq(Frames), stack = Push(b, "mmap", k + 1),
           /\ stack' = Push(b, "mmap", k + 2) /\ entered' = entered /\ initialized' = initialized
           => Position(k + 1)'
    PROVE  OrderInv'
<1>1. "mmap" \in Every /\ k + 1 \in Nat /\ k + 1 \in 1..11 /\ k + 1 \in 1..12 /\ k \in 0..11
  BY DEF Every
<1>2. Steps["mmap"][k + 1] = Stages[k + 1]
  BY <1>1, StepsAre
<1>3. Stages[k + 1] \notin {"finish", "call_mmap", "call_files", "call_global"}
  BY <1>1, StagesDiffer
<1>4. GoesThrough(b, "mmap", k + 1, Stages[k + 1])
  BY <1>1, <1>2, <1>3, StepIs, SMTT(20)
<1>5. k + 1 + 1 = k + 2
  OBVIOUS
<1>6. Position(k + 1)'
  BY <1>4, <1>5 DEF GoesThrough
<1>7. UNCHANGED present
  BY DEF step
<1> QED BY <1>1, <1>4, <1>6, <1>7, OneStage

LEMMA MmapFirstStep ==
    ASSUME step, failed = "no", NEW k \in 0..12, done = SubSeq(Stages, 1, k), ToldAfter(k),
           MmapFirst(k)
    PROVE  OrderInv'
<1> PICK m : m = Push(<<>>, "mmap", 13)
  OBVIOUS
<1> PICK g : g = Push(m, "global", 3)
  OBVIOUS
<1>1. <<>> \in Seq(Frames) /\ m \in Seq(Frames) /\ g \in Seq(Frames)
  <2>1. <<>> \in Seq(Frames) /\ "mmap" \in Every /\ "global" \in Every
    BY EmptySeq DEF Every
  <2>2. m \in Seq(Frames)
    BY <2>1, Bases
  <2> QED BY <2>1, <2>2, Bases
<1>2. "mmap" \in Every /\ "global" \in Every /\ "files" \in Every
  BY DEF Every
<1>3. UNCHANGED <<present, constructors>>
  BY DEF step
<1>4. ASSUME NEW p \in 1..12, stack = Push(<<>>, "mmap", p),
             entered = {"mmap"}, initialized = {}, k = p - 1
      PROVE  OrderInv'
  <2>1. CASE p \in 1..11
    <3>1. k \in 0..10 /\ p = k + 1 /\ k + 2 \in 1..12 /\ k + 1 = k + 2 - 1
      BY <1>4, <2>1
    <3>2. ASSUME stack' = Push(<<>>, "mmap", k + 2), entered' = entered, initialized' = initialized
          PROVE  Position(k + 1)'
      <4>1. MmapFirst(k + 1)'
        BY <3>1, <3>2, <1>4 DEF MmapFirst
      <4> QED BY <4>1 DEF Position
    <3>3. stack = Push(<<>>, "mmap", k + 1)
      BY <3>1, <1>4
    <3> QED BY <3>1, <3>2, <3>3, <1>1, MmapStep
  <2>2. CASE p = 12
    <3>1. Enters(<<>>, "mmap", 12, "global")
      BY <1>1, <1>2, <1>4, <2>2, StepAt
    <3>2. /\ stack' = Push(m, "global", 1) /\ entered' = {"mmap", "global"} /\ k = 11
          /\ UNCHANGED <<initialized, done, snapshot, told, failed>>
      BY <3>1, <1>4, <2>2 DEF Enters
    <3>3. Position(k)'
      <4>1. MmapFirst(k)'
        BY <3>2, <1>4 DEF MmapFirst
      <4> QED BY <4>1 DEF Position
    <3> QED BY <3>2, <3>3, <1>3, NoStage
  <2> QED BY <2>1, <2>2
<1>5. ASSUME NEW p \in 1..2, stack = Push(m, "global", p),
             entered = {"mmap", "global"}, initialized = {}, k = 11
      PROVE  OrderInv'
  <2>1. CASE p = 1
    <3>1. Enters(m, "global", 1, "mmap")
      BY <1>1, <1>2, <1>5, <2>1, StepAt
    <3>2. /\ stack' = Push(m, "global", 2) /\ entered' = {"mmap", "global"}
          /\ UNCHANGED <<initialized, done, snapshot, told, failed>>
      BY <3>1, <1>5 DEF Enters
    <3>3. Position(k)'
      <4>1. MmapFirst(k)'
        BY <3>2, <1>5 DEF MmapFirst
      <4> QED BY <4>1 DEF Position
    <3> QED BY <3>2, <3>3, <1>3, NoStage
  <2>2. CASE p = 2
    <3>1. Enters(m, "global", 2, "files")
      BY <1>1, <1>2, <1>5, <2>2, StepAt
    <3>2. /\ stack' = Push(g, "files", 1) /\ entered' = Every
          /\ UNCHANGED <<initialized, done, snapshot, told, failed>>
      BY <3>1, <1>5 DEF Enters, Every
    <3>3. Position(k)'
      <4>1. MmapFirst(k)'
        BY <3>2, <1>5 DEF MmapFirst
      <4> QED BY <4>1 DEF Position
    <3> QED BY <3>2, <3>3, <1>3, NoStage
  <2> QED BY <2>1, <2>2
<1>6. ASSUME NEW p \in 1..4, stack = Push(g, "files", p),
             entered = Every, initialized = {}, k = IF p = 4 THEN 12 ELSE 11
      PROVE  OrderInv'
  <2>1. ASSUME NEW q \in 2..4, stack' = Push(g, "files", q), entered' = Every,
               initialized' = initialized
        PROVE  Position(IF q = 4 THEN 12 ELSE 11)'
    <3>1. MmapFirst(IF q = 4 THEN 12 ELSE 11)'
      BY <2>1, <1>6 DEF MmapFirst
    <3> QED BY <3>1 DEF Position
  <2>2. ASSUME stack' = g, entered' = Every, initialized' = initialized \cup {"files"}
        PROVE  Position(12)'
    <3>1. initialized' = {"files"}
      BY <2>2, <1>6
    <3>2. MmapFirst(12)'
      BY <3>1, <2>2 DEF MmapFirst
    <3> QED BY <3>2 DEF Position
  <2> QED BY <2>1, <2>2, <1>1, <1>6, FilesStep
<1>7. ASSUME stack = g, entered = Every, initialized = {"files"}, k = 12
      PROVE  OrderInv'
  <2>1. Finishes(m, "global")
    BY <1>1, <1>2, <1>7, StepAt
  <2>2. /\ stack' = m /\ entered' = Every /\ initialized' = {"files", "global"}
        /\ UNCHANGED <<done, snapshot, told, failed>>
    BY <2>1, <1>7 DEF Finishes
  <2>3. Position(k)'
    <3>1. MmapFirst(k)'
      BY <2>2, <1>7 DEF MmapFirst
    <3> QED BY <3>1 DEF Position
  <2> QED BY <2>2, <2>3, <1>3, NoStage
<1>8. ASSUME stack = m, entered = Every, initialized = {"files", "global"}, k = 12
      PROVE  OrderInv'
  <2>1. Finishes(<<>>, "mmap")
    BY <1>1, <1>2, <1>8, StepAt
  <2>2. /\ stack' = <<>> /\ entered' = Every /\ initialized' = Every
        /\ UNCHANGED <<done, snapshot, told, failed>>
    BY <2>1, <1>8 DEF Finishes, Every
  <2>3. Position(k)'
    BY <2>2, <1>8 DEF Position
  <2> QED BY <2>2, <2>3, <1>3, NoStage
<1> QED BY <1>4, <1>5, <1>6, <1>7, <1>8 DEF MmapFirst

LEMMA GlobalFirstStep ==
    ASSUME step, failed = "no", NEW k \in 0..12, done = SubSeq(Stages, 1, k), ToldAfter(k),
           GlobalFirst(k)
    PROVE  OrderInv'
<1>1. /\ <<>> \in Seq(Frames)
      /\ \A g \in 1..3 : Push(<<>>, "global", g) \in Seq(Frames)
  <2>1. <<>> \in Seq(Frames) /\ "global" \in Every /\ 1..3 \subseteq Nat
    BY EmptySeq DEF Every
  <2>2. \A g \in Nat : Push(<<>>, "global", g) \in Seq(Frames)
    BY <2>1, Bases
  <2> QED BY <2>1, <2>2
<1>2. "mmap" \in Every /\ "global" \in Every /\ "files" \in Every
  BY DEF Every
<1>3. UNCHANGED <<present, constructors>>
  BY DEF step
<1>4. ASSUME stack = Push(<<>>, "global", 1), entered = {"global"}, initialized = {}, k = 0
      PROVE  OrderInv'
  <2>1. Enters(<<>>, "global", 1, "mmap")
    BY <1>1, <1>2, <1>4, StepAt
  <2>2. /\ stack' = Push(Push(<<>>, "global", 2), "mmap", 1) /\ entered' = {"mmap", "global"}
        /\ UNCHANGED <<initialized, done, snapshot, told, failed>>
    BY <2>1, <1>4 DEF Enters
  <2>3. Position(k)'
    <3>1. GlobalFirst(k)'
      BY <2>2, <1>4 DEF GlobalFirst
    <3> QED BY <3>1 DEF Position
  <2> QED BY <2>2, <2>3, <1>3, NoStage
<1>5. ASSUME NEW g \in 1..2, NEW p \in 1..13, stack = Push(Push(<<>>, "global", g), "mmap", p),
             entered = {"mmap", "global"}, initialized = {}, k = IF p = 13 THEN 11 ELSE p - 1
      PROVE  OrderInv'
  <2> PICK b : b = Push(<<>>, "global", g)
    OBVIOUS
  <2>0. b \in Seq(Frames) /\ stack = Push(b, "mmap", p)
    BY <1>1, <1>5
  <2>1. CASE p \in 1..11
    <3>1. k \in 0..10 /\ p = k + 1 /\ k + 2 \in 1..12 /\ k + 2 # 13 /\ k + 1 = k + 2 - 1
      BY <1>5, <2>1
    <3>2. ASSUME stack' = Push(b, "mmap", k + 2), entered' = entered, initialized' = initialized
          PROVE  Position(k + 1)'
      <4> PICK q : q = k + 2
        OBVIOUS
      <4>1. q \in 1..13 /\ k + 1 = (IF q = 13 THEN 11 ELSE q - 1)
        BY <3>1
      <4>2. /\ stack' = Push(Push(<<>>, "global", g), "mmap", q)
            /\ entered' = {"mmap", "global"} /\ initialized' = {}
        BY <3>2, <1>5
      <4>3. GlobalFirst(k + 1)'
        BY <4>1, <4>2 DEF GlobalFirst
      <4> QED BY <4>3 DEF Position
    <3>3. stack = Push(b, "mmap", k + 1)
      BY <3>1, <2>0
    <3> QED BY <3>1, <3>2, <3>3, <2>0, MmapStep
  <2>2. CASE p = 12
    <3>1. Enters(b, "mmap", 12, "global")
      BY <2>0, <1>2, <2>2, StepAt
    <3>2. /\ stack' = Push(Push(<<>>, "global", g), "mmap", 13)
          /\ entered' = {"mmap", "global"} /\ k = 11 /\ initialized' = {}
          /\ UNCHANGED <<done, snapshot, told, failed>>
      BY <3>1, <1>5, <2>2 DEF Enters
    <3>3. Position(k)'
      <4>1. GlobalFirst(k)'
        BY <3>2 DEF GlobalFirst
      <4> QED BY <4>1 DEF Position
    <3> QED BY <3>2, <3>3, <1>3, NoStage
  <2>3. CASE p = 13
    <3>1. Finishes(b, "mmap")
      BY <2>0, <1>2, <2>3, StepAt
    <3>2. /\ stack' = Push(<<>>, "global", g)
          /\ entered' = {"mmap", "global"} /\ k = 11 /\ initialized' = {"mmap"}
          /\ UNCHANGED <<done, snapshot, told, failed>>
      BY <3>1, <1>5, <2>3 DEF Finishes
    <3>3. Position(k)'
      <4>1. GlobalFirst(k)'
        BY <3>2 DEF GlobalFirst
      <4> QED BY <4>1 DEF Position
    <3> QED BY <3>2, <3>3, <1>3, NoStage
  <2> QED BY <2>1, <2>2, <2>3
<1>6. ASSUME NEW g \in 1..2, stack = Push(<<>>, "global", g),
             entered = {"mmap", "global"}, initialized = {"mmap"}, k = 11
      PROVE  OrderInv'
  <2>1. CASE g = 1
    <3>1. Enters(<<>>, "global", 1, "mmap")
      BY <1>1, <1>2, <1>6, <2>1, StepAt
    <3>2. /\ stack' = Push(<<>>, "global", 2)
          /\ UNCHANGED <<entered, initialized, done, snapshot, told, failed>>
      BY <3>1, <1>6 DEF Enters
    <3>3. Position(k)'
      <4>1. GlobalFirst(k)'
        BY <3>2, <1>6 DEF GlobalFirst
      <4> QED BY <4>1 DEF Position
    <3> QED BY <3>2, <3>3, <1>3, NoStage
  <2>2. CASE g = 2
    <3>1. Enters(<<>>, "global", 2, "files")
      BY <1>1, <1>2, <1>6, <2>2, StepAt
    <3>2. /\ stack' = Push(Push(<<>>, "global", 3), "files", 1) /\ entered' = Every
          /\ UNCHANGED <<initialized, done, snapshot, told, failed>>
      BY <3>1, <1>6 DEF Enters, Every
    <3>3. Position(k)'
      <4>1. GlobalFirst(k)'
        BY <3>2, <1>6 DEF GlobalFirst
      <4> QED BY <4>1 DEF Position
    <3> QED BY <3>2, <3>3, <1>3, NoStage
  <2> QED BY <2>1, <2>2
<1>7. ASSUME NEW p \in 1..4, stack = Push(Push(<<>>, "global", 3), "files", p),
             entered = Every, initialized = {"mmap"}, k = IF p = 4 THEN 12 ELSE 11
      PROVE  OrderInv'
  <2> PICK b : b = Push(<<>>, "global", 3)
    OBVIOUS
  <2>1. ASSUME NEW q \in 2..4, stack' = Push(b, "files", q), entered' = Every,
               initialized' = initialized
        PROVE  Position(IF q = 4 THEN 12 ELSE 11)'
    <3>1. GlobalFirst(IF q = 4 THEN 12 ELSE 11)'
      BY <2>1, <1>7 DEF GlobalFirst
    <3> QED BY <3>1 DEF Position
  <2>2. ASSUME stack' = b, entered' = Every, initialized' = initialized \cup {"files"}
        PROVE  Position(12)'
    <3>1. initialized' = {"mmap", "files"}
      BY <2>2, <1>7
    <3>2. GlobalFirst(12)'
      BY <3>1, <2>2 DEF GlobalFirst
    <3> QED BY <3>2 DEF Position
  <2>3. b \in Seq(Frames) /\ stack = Push(b, "files", p)
    BY <1>1, <1>7
  <2> QED BY <2>1, <2>2, <2>3, <1>7, FilesStep
<1>8. ASSUME stack = Push(<<>>, "global", 3), entered = Every,
             initialized = {"mmap", "files"}, k = 12
      PROVE  OrderInv'
  <2>1. Finishes(<<>>, "global")
    BY <1>1, <1>2, <1>8, StepAt
  <2>2. /\ stack' = <<>> /\ entered' = Every /\ initialized' = Every
        /\ UNCHANGED <<done, snapshot, told, failed>>
    BY <2>1, <1>8 DEF Finishes, Every
  <2>3. Position(k)'
    BY <2>2, <1>8 DEF Position
  <2> QED BY <2>2, <2>3, <1>3, NoStage
<1> QED BY <1>4, <1>5, <1>6, <1>7, <1>8 DEF GlobalFirst

LEMMA StepInv ==
    ASSUME OrderInv, step
    PROVE  OrderInv'
<1>1. PICK k \in 0..12 : done = SubSeq(Stages, 1, k) /\ Position(k) /\ ToldAfter(k)
  BY DEF OrderInv
<1>2. failed = "no" /\ stack # <<>>
  BY DEF step
<1>3. MmapFirst(k) \/ GlobalFirst(k)
  BY <1>1, <1>2 DEF Position
<1> QED BY <1>1, <1>2, <1>3, MmapFirstStep, GlobalFirstStep

LEMMA Busy ==
    ASSUME NEW k \in 0..12, stack = <<>>, Position(k)
    PROVE  \/ /\ entered = {} /\ initialized = {} /\ k = 0 /\ Head(constructors) = "mmap"
           \/ entered = Every /\ initialized = Every /\ k = 12
<1>1. \A b \in Seq(Frames), f \in Every, p \in Nat : Push(b, f, p) # <<>>
  BY PushProperties DEF Pushed
<1>2. /\ <<>> \in Seq(Frames) /\ 1..13 \subseteq Nat
      /\ "mmap" \in Every /\ "global" \in Every /\ "files" \in Every
  BY EmptySeq DEF Every
<1>3. \A b \in Seq(Frames), f \in Every, p \in Nat : Push(b, f, p) \in Seq(Frames)
  BY Bases
<1>4. ~MmapFirst(k)
  <2>1. \A p \in 1..12 : stack # Push(<<>>, "mmap", p)
    <3>1. \A p \in Nat : Push(<<>>, "mmap", p) # <<>>
      BY <1>1, <1>2, Zenon
    <3> QED BY <3>1
  <2>2. PICK m : m = Push(<<>>, "mmap", 13)
    OBVIOUS
  <2>3. m \in Seq(Frames) /\ stack # m
    BY <1>1, <1>2, <1>3, <2>2
  <2>4. PICK g : g = Push(m, "global", 3)
    OBVIOUS
  <2>5. g \in Seq(Frames) /\ stack # g /\ \A p \in 1..2 : stack # Push(m, "global", p)
    BY <1>1, <1>2, <1>3, <2>3, <2>4
  <2>6. \A p \in 1..4 : stack # Push(g, "files", p)
    BY <1>1, <1>2, <2>5
  <2> QED BY <2>1, <2>2, <2>3, <2>4, <2>5, <2>6, Zenon DEF MmapFirst
<1>5. ~GlobalFirst(k)
  <2>1. \A g \in 1..3 : Push(<<>>, "global", g) \in Seq(Frames) /\ stack # Push(<<>>, "global", g)
    <3>1. \A g \in Nat : /\ Push(<<>>, "global", g) \in Seq(Frames)
                         /\ Push(<<>>, "global", g) # <<>>
      BY <1>1, <1>2, <1>3, Zenon
    <3> QED BY <3>1
  <2>2. \A g \in 1..2, p \in 1..13 : stack # Push(Push(<<>>, "global", g), "mmap", p)
    <3> TAKE g \in 1..2, p \in 1..13
    <3> PICK b : b = Push(<<>>, "global", g)
      OBVIOUS
    <3>1. b \in Seq(Frames) /\ p \in Nat
      BY <2>1
    <3> QED BY <3>1, <1>1, <1>2
  <2>3. \A p \in 1..4 : stack # Push(Push(<<>>, "global", 3), "files", p)
    <3> TAKE p \in 1..4
    <3> PICK b : b = Push(<<>>, "global", 3)
      OBVIOUS
    <3>1. b \in Seq(Frames) /\ p \in Nat
      BY <2>1
    <3> QED BY <3>1, <1>1, <1>2
  <2>4. 1 \in 1..3 /\ 3 \in 1..3 /\ \A g \in 1..2 : g \in 1..3
    OBVIOUS
  <2> QED BY <2>1, <2>2, <2>3, <2>4, Zenon DEF GlobalFirst
<1> QED BY <1>4, <1>5 DEF Position

\* The ways in from outside: the constructors, a lookup before anything is
\* indexed, and a query.
LEMMA ConstructorInv ==
    ASSUME OrderInv, constructors \in Seq(Every), run_constructor
    PROVE  OrderInv'
<1>1. PICK k \in 0..12 : done = SubSeq(Stages, 1, k) /\ Position(k) /\ ToldAfter(k)
  BY DEF OrderInv
<1>2. /\ stack = <<>> /\ Call(Head(constructors), <<>>) /\ failed = "no" /\ constructors # <<>>
      /\ UNCHANGED <<initialized, done, snapshot, present, told, failed>>
  BY DEF run_constructor
<1>3. Head(constructors) \in Every
  BY <1>2
<1>4. CASE entered = {} /\ initialized = {} /\ k = 0 /\ Head(constructors) = "mmap"
  <2>1. stack' = Push(<<>>, "mmap", 1) /\ entered' = {"mmap"} /\ initialized' = {}
    BY <1>2, <1>4 DEF Call, MayBegin, Push, At, Frame
  <2>2. Position(k)'
    <3>1. MmapFirst(k)'
      BY <2>1, <1>4 DEF MmapFirst
    <3> QED BY <3>1 DEF Position
  <2> QED BY <1>1, <1>2, <2>2, NoStage
<1>5. CASE entered = Every /\ initialized = Every /\ k = 12
  <2>1. stack' = <<>> /\ entered' = Every /\ initialized' = Every
    BY <1>2, <1>3, <1>5 DEF Call, MayBegin
  <2>2. Position(k)'
    BY <2>1, <1>5 DEF Position
  <2> QED BY <1>1, <1>2, <2>2, NoStage
<1>6. \/ entered = {} /\ initialized = {} /\ k = 0 /\ Head(constructors) = "mmap"
      \/ entered = Every /\ initialized = Every /\ k = 12
  BY <1>1, <1>2, Busy, SMTT(20)
<1> QED BY <1>4, <1>5, <1>6

LEMMA LookupInv ==
    ASSUME OrderInv, lookup_early
    PROVE  OrderInv'
<1>1. PICK k \in 0..12 : done = SubSeq(Stages, 1, k) /\ Position(k) /\ ToldAfter(k)
  BY DEF OrderInv
<1>2. /\ Call("mmap", stack) /\ failed = "no"
      /\ UNCHANGED <<constructors, initialized, done, snapshot, present, told, failed>>
  BY DEF lookup_early
<1>3. k < 4
  <2>1. ~Done("add_maps")
    BY DEF lookup_early
  <2>2. Done("add_maps") <=> 4 <= k
    BY <1>1, DoneIs
  <2>3. ~(4 <= k)
    BY <2>1, <2>2
  <2> QED BY <2>3
<1>4. CASE "mmap" \in entered
  <2>1. UNCHANGED <<stack, entered>>
    BY <1>2, <1>4 DEF Call, MayBegin
  <2>2. Position(k)'
    BY <1>1, <1>2, <2>1, PositionStays
  <2> QED BY <1>1, <1>2, <2>2, NoStage
<1>5. CASE "mmap" \notin entered
  <2>1. stack' = Push(stack, "mmap", 1) /\ entered' = entered \cup {"mmap"}
    BY <1>2, <1>5 DEF Call, MayBegin, Push, At, Frame
  <2>2. \/ stack = <<>> /\ entered = {} /\ initialized = {} /\ k = 0
        \/ stack = Push(<<>>, "global", 1) /\ entered = {"global"} /\ initialized = {} /\ k = 0
    BY <1>1, <1>3, <1>5 DEF Position, MmapFirst, GlobalFirst, Every
  <2>3. CASE stack = <<>> /\ entered = {} /\ initialized = {} /\ k = 0
    <3>1. stack' = Push(<<>>, "mmap", 1) /\ entered' = {"mmap"} /\ initialized' = {}
      BY <1>2, <2>1, <2>3
    <3>2. Position(k)'
      <4>1. MmapFirst(k)'
        BY <3>1, <2>3 DEF MmapFirst
      <4> QED BY <4>1 DEF Position
    <3> QED BY <1>1, <1>2, <3>2, NoStage
  <2>4. CASE stack = Push(<<>>, "global", 1) /\ entered = {"global"} /\ initialized = {} /\ k = 0
    <3>1. /\ stack' = Push(Push(<<>>, "global", 1), "mmap", 1)
          /\ entered' = {"mmap", "global"} /\ initialized' = {}
      BY <1>2, <2>1, <2>4
    <3>2. Position(k)'
      <4>1. GlobalFirst(k)'
        BY <3>1, <2>4 DEF GlobalFirst
      <4> QED BY <4>1 DEF Position
    <3> QED BY <1>1, <1>2, <3>2, NoStage
  <2> QED BY <2>2, <2>3, <2>4
<1> QED BY <1>4, <1>5

LEMMA QueryInv ==
    ASSUME OrderInv, AllOrderContracts, ensure_init
    PROVE  OrderInv'
<1>1. PICK k \in 0..12 : done = SubSeq(Stages, 1, k) /\ Position(k) /\ ToldAfter(k)
  BY DEF OrderInv
<1>2. /\ Call("global", stack) /\ failed = "no" /\ "global" \notin initialized
      /\ failed' = IF MayBegin("global") THEN "no" ELSE "assert"
      /\ UNCHANGED <<constructors, initialized, done, snapshot, present, told>>
  BY DEF ensure_init
<1>3. stack = <<>>
  BY <1>2 DEF ensure_init, MayQuery, AllOrderContracts
<1>4. entered = {} /\ initialized = {} /\ k = 0
  BY <1>1, <1>2, <1>3, Busy DEF Every
<1>5. /\ stack' = Push(<<>>, "global", 1) /\ entered' = {"global"} /\ initialized' = {}
      /\ UNCHANGED failed
  BY <1>2, <1>3, <1>4 DEF Call, MayBegin, Push, At, Frame
<1>6. Position(k)'
  <2>1. GlobalFirst(k)'
    BY <1>4, <1>5 DEF GlobalFirst
  <2> QED BY <2>1 DEF Position
<1> QED BY <1>1, <1>2, <1>5, <1>6, NoStage

\* Calls are made only where either nobody has looked yet or they are noticed.
LEMMA NoticedOrEarly ==
    ASSUME AllOrderContracts, NEW k \in 0..12, done = SubSeq(Stages, 1, k),
           NEW caller \in Callers, Quiet(caller)
    PROVE  \/ k < 3 /\ ~IsTold(caller, FALSE)
           \/ k >= 7 /\ IsTold(caller, FALSE)
<1>1. /\ Done("read_maps") <=> 3 <= k
      /\ Done("trap") <=> 7 <= k
      /\ Done("systrap_on") <=> 8 <= k
  BY DoneIs
<1>2. caller = "self" \/ caller = "old"
  BY DEF Callers, AllOrderContracts
<1>3. IsTold(caller, FALSE) <=> IF caller = "self" THEN 8 <= k ELSE 7 <= k
  BY <1>1, <1>2 DEF IsTold
<1>4. 3 <= k /\ ~(8 <= k) => IF caller = "self" THEN 8 <= k ELSE 7 <= k
  BY <1>1, <1>3 DEF Quiet, AllOrderContracts
<1>5. CASE k < 3
  <2>1. ~(8 <= k) /\ ~(7 <= k)
    BY <1>5
  <2> QED BY <2>1, <1>3, <1>5
<1>6. CASE ~(k < 3)
  <2>1. k >= 7 /\ IF caller = "self" THEN 8 <= k ELSE 7 <= k
    BY <1>4, <1>6
  <2> QED BY <2>1, <1>3
<1> QED BY <1>5, <1>6

LEMMA MapInv ==
    ASSUME OrderInv, AllOrderContracts, NEW m \in Mappings, NEW caller \in Callers,
           NEW huge \in BOOLEAN, mmap(m, caller, huge)
    PROVE  OrderInv'
<1>1. PICK k \in 0..12 : done = SubSeq(Stages, 1, k) /\ Position(k) /\ ToldAfter(k)
  BY DEF OrderInv
<1>2. huge = FALSE
  BY DEF mmap, AllOrderContracts
<1>3. /\ failed = "no" /\ m \notin present /\ told[m] = 0 /\ Quiet(caller)
      /\ present' = present \cup {m}
      /\ IF ~IsTold(caller, FALSE) THEN UNCHANGED <<told, failed>> ELSE Tell({m})
      /\ UNCHANGED <<stack, constructors, entered, initialized, done, snapshot>>
  BY <1>2 DEF mmap
<1>4. ToldAfter(k)' /\ failed' = "no"
  <2>1. CASE k < 3 /\ ~IsTold(caller, FALSE)
    BY <1>1, <1>3, <2>1 DEF ToldAfter
  <2>2. CASE k >= 7 /\ IsTold(caller, FALSE)
    <3>1. /\ told' = [n \in Mappings |-> told[n] + (IF n \in {m} THEN 1 ELSE 0)]
          /\ failed' = "no"
      BY <1>3, <2>2 DEF Tell
    <3>2. \A n \in Mappings : told[n] = IF n \in present THEN 1 ELSE 0
      BY <1>1, <2>2 DEF ToldAfter
    <3>3. \A n \in Mappings : told'[n] = IF n \in present' THEN 1 ELSE 0
      BY <3>1, <3>2, <1>3
    <3>4. told' = [n \in Mappings |-> told'[n]]
      BY <3>1
    <3>5. present' \subseteq Mappings
      BY <1>1, <1>3 DEF ToldAfter
    <3> QED BY <2>2, <3>1, <3>3, <3>4, <3>5 DEF ToldAfter
  <2> QED BY <1>1, <1>3, <2>1, <2>2, NoticedOrEarly
<1>5. Position(k)'
  BY <1>1, <1>3, PositionStays
<1>6. done' = SubSeq(Stages, 1, k)
  BY <1>1, <1>3
<1> QED BY <1>4, <1>5, <1>6 DEF OrderInv

LEMMA UnmapInv ==
    ASSUME OrderInv, AllOrderContracts, NEW m \in Mappings, munmap(m)
    PROVE  OrderInv'
<1>1. PICK k \in 0..12 : done = SubSeq(Stages, 1, k) /\ Position(k) /\ ToldAfter(k)
  BY DEF OrderInv
<1>2. "old" \in Callers
  BY DEF Callers
<1>3. /\ failed = "no" /\ m \in present /\ Quiet("old") /\ present' = present \ {m}
      /\ told' = IF IsTold("old", FALSE) THEN [told EXCEPT ![m] = 0] ELSE told
      /\ UNCHANGED <<stack, constructors, entered, initialized, done, snapshot, failed>>
  BY DEF munmap
<1>4. ToldAfter(k)'
  <2>1. CASE k < 3 /\ ~IsTold("old", FALSE)
    BY <1>1, <1>3, <2>1 DEF ToldAfter
  <2>2. CASE k >= 7 /\ IsTold("old", FALSE)
    <3>1. told' = [told EXCEPT ![m] = 0] /\ told = [n \in Mappings |-> told[n]]
      BY <1>1, <1>3, <2>2 DEF ToldAfter
    <3>2. \A n \in Mappings : told[n] = IF n \in present THEN 1 ELSE 0
      BY <1>1, <2>2 DEF ToldAfter
    <3>3. told' = [n \in Mappings |-> IF n = m THEN 0 ELSE told[n]]
      BY <3>1
    <3>4. \A n \in Mappings : told'[n] = IF n \in present' THEN 1 ELSE 0
      BY <3>2, <3>3, <1>3
    <3>5. told' = [n \in Mappings |-> told'[n]] /\ present' \subseteq Mappings
      BY <3>3, <1>1, <1>3 DEF ToldAfter
    <3> QED BY <2>2, <3>4, <3>5 DEF ToldAfter
  <2> QED BY <1>1, <1>2, <1>3, <2>1, <2>2, NoticedOrEarly
<1>5. Position(k)'
  BY <1>1, <1>3, PositionStays
<1>6. done' = SubSeq(Stages, 1, k) /\ failed' = "no"
  BY <1>1, <1>3
<1> QED BY <1>4, <1>5, <1>6 DEF OrderInv

\* With the list of constructors, which only gets shorter.
OrderIInv == OrderInv /\ constructors \in Seq(Every)

LEMMA OrderInitInv == OrderInit => OrderIInv
<1> SUFFICES ASSUME OrderInit PROVE OrderIInv
  OBVIOUS
<1>1. constructors \in Seq(Every) /\ constructors # <<>> /\ Head(constructors) = "mmap"
  BY DEF OrderInit, Every
<1>2. Position(0) /\ ToldAfter(0) /\ failed = "no"
  BY <1>1 DEF OrderInit, Position, ToldAfter
<1>3. done = SubSeq(Stages, 1, 0)
  BY SubSeqEmpty DEF OrderInit, Stages
<1> QED BY <1>1, <1>2, <1>3 DEF OrderIInv, OrderInv

LEMMA OrderNextInv ==
    ASSUME AllOrderContracts, OrderIInv, [OrderNext]_ovars
    PROVE  OrderIInv'
<1>1. constructors' \in Seq(Every)
  <2>1. CASE run_constructor
    BY <2>1 DEF OrderIInv, run_constructor
  <2>2. CASE UNCHANGED constructors
    BY <2>2 DEF OrderIInv
  <2> QED BY <2>1, <2>2 DEF OrderNext, step, lookup_early, ensure_init, mmap, munmap, ovars
<1>2. OrderInv'
  <2>1. CASE step
    BY <2>1, StepInv DEF OrderIInv
  <2>2. CASE run_constructor
    BY <2>2, ConstructorInv DEF OrderIInv
  <2>3. CASE lookup_early
    BY <2>3, LookupInv DEF OrderIInv
  <2>4. CASE ensure_init
    BY <2>4, QueryInv DEF OrderIInv
  <2>5. CASE \E m \in Mappings : munmap(m)
    BY <2>5, UnmapInv DEF OrderIInv
  <2>6. CASE \E m \in Mappings, caller \in Callers, huge \in BOOLEAN : mmap(m, caller, huge)
    BY <2>6, MapInv DEF OrderIInv
  <2>7. CASE UNCHANGED ovars
    <3>1. PICK k \in 0..12 : done = SubSeq(Stages, 1, k) /\ Position(k) /\ ToldAfter(k)
      BY DEF OrderIInv, OrderInv
    <3>2. failed = "no"
      BY DEF OrderIInv, OrderInv
    <3>3. Position(k)'
      BY <3>1, <2>7, PositionStays DEF ovars
    <3>4. UNCHANGED <<done, snapshot, told, failed, present>>
      BY <2>7 DEF ovars
    <3> QED BY <3>1, <3>2, <3>3, <3>4, NoStage
  <2> QED BY <2>1, <2>2, <2>3, <2>4, <2>5, <2>6, <2>7 DEF OrderNext
<1> QED BY <1>1, <1>2 DEF OrderIInv

LEMMA OrderHolds ==
    ASSUME OrderInv
    PROVE  StagesInOrder /\ ToldOnce
<1>1. PICK k \in 0..12 : done = SubSeq(Stages, 1, k) /\ Position(k) /\ ToldAfter(k)
  BY DEF OrderInv
<1>2. Len(done) = k /\ (Done("systrap_on") <=> 8 <= k)
  BY <1>1, DoneIs
<1>3. StagesInOrder
  BY <1>1, <1>2 DEF StagesInOrder, OrderInv
<1>4. ToldOnce
  BY <1>1, <1>2 DEF ToldOnce, OrderInv, ToldAfter
<1> QED BY <1>3, <1>4

\* Whichever of the three initializers is entered first, by a constructor, a
\* lookup that finds nothing indexed or a query, and however deep the calls
\* nest, every stage of the start is gone through once and in the order the
\* later ones need, and ensure_init's assertion never fails.
THEOREM StartupInOrder ==
    ASSUME AllOrderContracts
    PROVE  OrderSpec => []StagesInOrder
<1>1. OrderInit => OrderIInv
  BY OrderInitInv
<1>2. OrderIInv /\ [OrderNext]_ovars => OrderIInv'
  BY OrderNextInv
<1>3. OrderIInv => StagesInOrder
  BY OrderHolds DEF OrderIInv
<1> QED BY <1>1, <1>2, <1>3, PTL DEF OrderSpec

\* Every mapping, from before, during or after the start, is told of exactly
\* once by whichever of the maps file, preload.c and systrap.c notices it, and
\* no longer recorded once it is gone, for any number of mappings.
THEOREM MappingsToldOnce ==
    ASSUME AllOrderContracts
    PROVE  OrderSpec => []ToldOnce
<1>1. OrderInit => OrderIInv
  BY OrderInitInv
<1>2. OrderIInv /\ [OrderNext]_ovars => OrderIInv'
  BY OrderNextInv
<1>3. OrderIInv => ToldOnce
  BY OrderHolds DEF OrderIInv
<1> QED BY <1>1, <1>2, <1>3, PTL DEF OrderSpec
=============================================================================
