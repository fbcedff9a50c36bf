----------------------------- MODULE HeapProofs -----------------------------
(***************************************************************************)
(* Proofs about the heaps' bookkeeping, for every number of threads, files,*)
(* sites and sizes.                                                        *)
(***************************************************************************)
EXTENDS AllocWrappers, MallocInsert, SequenceTheorems, TLAPS

-----------------------------------------------------------------------------
(* The allocation wrappers. *)

WrapperFrame ==
    [kind : AllocKinds \cup {"free"}, site : Nat, size : Nat, set : BOOLEAN, first : BOOLEAN]
ThreadRecord ==
    [fn : Nat, site : Nat, sz : Nat, allocating : BOOLEAN, freeing : BOOLEAN]

Outer(i) == i \in Allocating /\ \A j \in Allocating : i <= j
Freeing == {i \in DOMAIN frames : frames[i].kind = "free"}

\* The thread's record is the outermost allocation wrapper's, and only that
\* wrapper's frame says that it is to be reset; likewise for free.
WrapperTypes == frames \in Seq(WrapperFrame) /\ tls \in ThreadRecord
NoneAllocating == Allocating = {} => tls.fn = 0 /\ tls.site = 0 /\ ~tls.allocating
OuterExists == Allocating # {} => \E i \in Allocating : Outer(i)
FramesNonzero == \A i \in Allocating : frames[i].site # 0 /\ frames[i].size # 0
OuterSet ==
    \A i \in Allocating : (frames[i].set <=> Outer(i)) /\ (frames[i].first <=> Outer(i))
OuterHolds ==
    \A i \in Allocating :
        Outer(i) => /\ tls.fn # 0 /\ tls.allocating
                    /\ tls.site = frames[i].site /\ tls.sz = frames[i].size
FreeSet == \A i \in Freeing : frames[i].set <=> \A j \in Freeing : i <= j
FreeMarked == tls.freeing <=> Freeing # {}
EventRight ==
    event.site = event.wanted /\ event.size \in event.asked..Padded(event.asked)

FramesInv ==
    /\ WrapperTypes /\ NoneAllocating /\ OuterExists /\ FramesNonzero /\ OuterSet
    /\ OuterHolds /\ FreeSet /\ FreeMarked
WrappersInv == FramesInv /\ EventRight

\* Padding a size for the insert (the insert's caller_usable_size) never makes
\* it smaller.
LEMMA PaddedLarger ==
    ASSUME NEW n \in Nat PROVE Padded(n) \in Nat /\ n <= Padded(n)
<1>1. Granule \in Nat \ {0}
  BY AmountsAssumption
<1>2. /\ (n + Granule - 1) \div Granule \in Nat
      /\ n + Granule - 1 = ((n + Granule - 1) \div Granule) * Granule + ((n + Granule - 1) % Granule)
      /\ (n + Granule - 1) % Granule \in 0..(Granule - 1)
  BY <1>1
<1> QED BY <1>1, <1>2 DEF Padded

\* Outermost is the frame that Outer says.
LEMMA OutermostIs ==
    ASSUME WrapperTypes, NEW i, Outer(i)
    PROVE  Outermost = frames[i]
<1>1. Allocating \subseteq Nat
  BY DEF WrapperTypes, Allocating
<1>2. \A k \in Allocating : (\A j \in Allocating : k <= j) => k = i
  BY <1>1 DEF Outer
<1> QED BY <1>2 DEF Outermost, Outer

LEMMA WrappersInitInv == WrappersInit => WrappersInv
<1> SUFFICES ASSUME WrappersInit PROVE WrappersInv
  OBVIOUS
<1>1. Allocating = {} /\ Freeing = {}
  BY DEF WrappersInit, Allocating, Freeing
<1>2. WrapperTypes
  BY DEF WrappersInit, WrapperTypes, Clear, ThreadRecord
<1>3. NoneAllocating /\ FreeMarked
  BY <1>1 DEF WrappersInit, NoneAllocating, FreeMarked, Clear
<1>4. EventRight
  BY PaddedLarger DEF WrappersInit, EventRight, NoEvent
<1> QED
  BY <1>1, <1>2, <1>3, <1>4 DEF WrappersInv, FramesInv, OuterExists, FramesNonzero, OuterSet,
     OuterHolds, FreeSet

\* A wrapper adds a frame above the others.
LEMMA FramePushed ==
    ASSUME WrapperTypes, NEW f \in WrapperFrame, frames' = Append(frames, f)
    PROVE  LET n == Len(frames) + 1
           IN  /\ frames' \in Seq(WrapperFrame)
               /\ n \in Nat /\ DOMAIN frames' = 1..n /\ DOMAIN frames = 1..(n - 1)
               /\ \A i \in DOMAIN frames : frames'[i] = frames[i]
               /\ frames'[n] = f
               /\ Allocating' = IF f.kind \in AllocKinds THEN Allocating \cup {n} ELSE Allocating
               /\ Freeing' = IF f.kind = "free" THEN Freeing \cup {n} ELSE Freeing
               /\ \A i \in Allocating \cup Freeing : i \in Nat /\ i < n
<1> DEFINE n == Len(frames) + 1
<1>1. frames \in Seq(WrapperFrame) /\ Len(frames) \in Nat
  BY DEF WrapperTypes
<1>2. /\ frames' \in Seq(WrapperFrame)
      /\ n \in Nat /\ DOMAIN frames' = 1..n /\ DOMAIN frames = 1..(n - 1)
      /\ \A i \in DOMAIN frames : frames'[i] = frames[i]
      /\ frames'[n] = f
  BY <1>1
<1> HIDE DEF n
<1>3. DOMAIN frames' = DOMAIN frames \cup {n} /\ n \notin DOMAIN frames
  BY <1>2
<1>4. Allocating' = IF f.kind \in AllocKinds THEN Allocating \cup {n} ELSE Allocating
  BY <1>2, <1>3 DEF Allocating
<1>5. Freeing' = IF f.kind = "free" THEN Freeing \cup {n} ELSE Freeing
  BY <1>2, <1>3 DEF Freeing
<1>6. \A i \in Allocating \cup Freeing : i \in Nat /\ i < n
  BY <1>2 DEF Allocating, Freeing
<1> QED BY <1>2, <1>4, <1>5, <1>6 DEF n

\* make_caller_wrapper: it sets the record only when it is the outermost.
LEMMA CallerWrapperKeeps ==
    ASSUME FramesInv, NEW kind \in AllocKinds, NEW site \in Sites, NEW size \in Amounts,
           caller_wrapper(kind, site, size)
    PROVE  FramesInv'
<1>0. PICK n \in Nat : n = Len(frames) + 1
  BY DEF FramesInv, WrapperTypes
<1> DEFINE setting == tls.fn = 0
           f == [kind |-> kind, site |-> site, size |-> size,
                 set |-> setting, first |-> ~tls.allocating]
<1>1. site \in Nat \ {0} /\ size \in Nat \ {0}
  BY AmountsAssumption
<1>2. f \in WrapperFrame /\ f.kind \in AllocKinds /\ f.kind # "free"
  BY <1>1 DEF WrapperFrame, AllocKinds
<1>3. frames' = Append(frames, f)
  BY DEF caller_wrapper
<1>4. tls \in ThreadRecord
  BY DEF FramesInv, WrapperTypes
<1>5. setting <=> Allocating = {}
  BY DEF FramesInv, NoneAllocating, OuterExists, OuterHolds
<1>6. tls.allocating <=> Allocating # {}
  BY DEF FramesInv, NoneAllocating, OuterExists, OuterHolds
<1>7. f.site = site /\ f.size = size /\ (f.set <=> Allocating = {}) /\ (f.first <=> Allocating = {})
  BY <1>5, <1>6
<1>8. IF Allocating = {}
      THEN /\ tls' \in ThreadRecord /\ tls'.fn # 0 /\ tls'.site = site /\ tls'.sz = size
           /\ tls'.allocating /\ (tls'.freeing <=> tls.freeing)
      ELSE tls' = tls
  <2>1. CASE Allocating = {}
    <3>1. tls.site = 0
      BY <2>1 DEF FramesInv, NoneAllocating
    <3>2. tls' = [tls EXCEPT !.fn = Len(frames) + 1, !.site = site, !.sz = size,
                             !.allocating = TRUE]
      BY <2>1, <1>5, <3>1 DEF caller_wrapper
    <3>3. Len(frames) + 1 \in Nat \ {0}
      BY DEF FramesInv, WrapperTypes
    <3> QED BY <1>1, <1>4, <2>1, <3>2, <3>3 DEF ThreadRecord
  <2>2. CASE Allocating # {}
    BY <2>2, <1>5 DEF caller_wrapper
  <2> QED BY <2>1, <2>2
<1> HIDE DEF f, setting
<1>9. /\ frames' \in Seq(WrapperFrame)
      /\ \A i \in DOMAIN frames : frames'[i] = frames[i]
      /\ frames'[n] = f
      /\ Allocating' = Allocating \cup {n}
      /\ Freeing' = Freeing
      /\ \A i \in Allocating \cup Freeing : i \in Nat /\ i < n /\ i \in DOMAIN frames
  BY <1>0, <1>2, <1>3, FramePushed DEF FramesInv, Allocating, Freeing
<1>10. \A i \in Allocating : Outer(i)' <=> Outer(i)
  BY <1>9 DEF Outer
<1>11. Outer(n)' <=> Allocating = {}
  BY <1>9 DEF Outer
<1>12. WrapperTypes' /\ NoneAllocating'
  BY <1>4, <1>8, <1>9 DEF WrapperTypes, NoneAllocating
<1>13. OuterExists'
  BY <1>9, <1>10, <1>11 DEF OuterExists, FramesInv
<1>14. FramesNonzero'
  BY <1>1, <1>7, <1>9 DEF FramesNonzero, FramesInv
<1>15. OuterSet'
  BY <1>7, <1>9, <1>10, <1>11 DEF OuterSet, FramesInv
<1>16. OuterHolds'
  BY <1>7, <1>8, <1>9, <1>10, <1>11 DEF OuterHolds, FramesInv
<1>17. FreeSet'
  BY <1>9 DEF FreeSet, FramesInv
<1>18. FreeMarked'
  BY <1>8, <1>9 DEF FreeMarked, FramesInv
<1> QED BY <1>12, <1>13, <1>14, <1>15, <1>16, <1>17, <1>18 DEF FramesInv

\* make_free_wrapper: the thread is marked once.
LEMMA FreeWrapperKeeps ==
    ASSUME FramesInv, free_wrapper
    PROVE  FramesInv'
<1>0. PICK n \in Nat : n = Len(frames) + 1
  BY DEF FramesInv, WrapperTypes
<1> DEFINE f == [kind |-> "free", site |-> 0, size |-> 0, set |-> ~tls.freeing, first |-> FALSE]
<1>1. f \in WrapperFrame /\ f.kind = "free" /\ f.kind \notin AllocKinds
  BY DEF WrapperFrame, AllocKinds
<1>2. frames' = Append(frames, f) /\ tls' = [tls EXCEPT !.freeing = TRUE]
  BY DEF free_wrapper
<1>3. tls \in ThreadRecord
  BY DEF FramesInv, WrapperTypes
<1>4. f.set <=> Freeing = {}
  BY DEF FramesInv, FreeMarked
<1>5. /\ tls' \in ThreadRecord /\ tls'.freeing /\ tls'.fn = tls.fn /\ tls'.site = tls.site
      /\ tls'.sz = tls.sz /\ tls'.allocating = tls.allocating
  BY <1>2, <1>3 DEF ThreadRecord
<1> HIDE DEF f
<1>6. /\ frames' \in Seq(WrapperFrame)
      /\ \A i \in DOMAIN frames : frames'[i] = frames[i]
      /\ frames'[n] = f
      /\ Allocating' = Allocating
      /\ Freeing' = Freeing \cup {n}
      /\ \A i \in Allocating \cup Freeing : i \in Nat /\ i < n /\ i \in DOMAIN frames
  BY <1>0, <1>1, <1>2, FramePushed DEF FramesInv, Allocating, Freeing
<1>7. \A i : Outer(i)' <=> Outer(i)
  BY <1>6 DEF Outer
<1>8. WrapperTypes' /\ NoneAllocating' /\ OuterExists' /\ FramesNonzero'
  BY <1>5, <1>6, <1>7 DEF WrapperTypes, NoneAllocating, OuterExists, FramesNonzero, FramesInv
<1>9. OuterSet' /\ OuterHolds'
  BY <1>5, <1>6, <1>7 DEF OuterSet, OuterHolds, FramesInv
<1>10. FreeSet' /\ FreeMarked'
  BY <1>4, <1>5, <1>6 DEF FreeSet, FreeMarked, FramesInv
<1> QED BY <1>8, <1>9, <1>10 DEF FramesInv

\* A wrapper that returns removes the frame above the others.
LEMMA FramePopped ==
    ASSUME WrapperTypes, frames # <<>>, frames' = SubSeq(frames, 1, Len(frames) - 1),
           NEW n, n = Len(frames)
    PROVE  /\ frames' \in Seq(WrapperFrame)
           /\ n \in DOMAIN frames /\ n \in Nat /\ frames[n] \in WrapperFrame
           /\ \A i \in DOMAIN frames' : frames'[i] = frames[i]
           /\ Allocating' = Allocating \ {n} /\ Freeing' = Freeing \ {n}
           /\ \A i \in Allocating \cup Freeing :
                  i \in DOMAIN frames /\ i \in Nat /\ i <= n /\ (i # n => i \in DOMAIN frames')
<1>1. frames \in Seq(WrapperFrame) /\ n \in Nat \ {0} /\ DOMAIN frames = 1..n
  BY DEF WrapperTypes
<1>2. /\ frames' \in Seq(WrapperFrame) /\ DOMAIN frames' = 1..(n - 1)
      /\ \A i \in 1..(n - 1) : frames'[i] = frames[i]
  BY <1>1, SubSeqProperties
<1>3. n \in DOMAIN frames /\ frames[n] \in WrapperFrame
  BY <1>1
<1>4. DOMAIN frames' = DOMAIN frames \ {n}
  BY <1>1, <1>2
<1>5. Allocating' = Allocating \ {n}
  BY <1>2, <1>4 DEF Allocating
<1>6. Freeing' = Freeing \ {n}
  BY <1>2, <1>4 DEF Freeing
<1>7. \A i \in Allocating \cup Freeing :
         i \in DOMAIN frames /\ i \in Nat /\ i <= n /\ (i # n => i \in DOMAIN frames')
  BY <1>1, <1>2 DEF Allocating, Freeing
<1> QED BY <1>1, <1>2, <1>3, <1>5, <1>6, <1>7

\* What a wrapper does after the call: the outermost one resets the record and
\* the others do nothing.
LEMMA LeaveKeeps ==
    ASSUME FramesInv, leave("return")
    PROVE  FramesInv'
<1>0. PICK n : n = Len(frames)
  OBVIOUS
<1>1. frames # <<>> /\ tls' = Reset(tls, frames[n]) /\ WrapperTypes
      /\ frames' = SubSeq(frames, 1, Len(frames) - 1)
  BY <1>0 DEF leave, FramesInv
<1>2. /\ frames' \in Seq(WrapperFrame)
      /\ n \in DOMAIN frames /\ n \in Nat /\ frames[n] \in WrapperFrame
      /\ \A i \in DOMAIN frames' : frames'[i] = frames[i]
      /\ Allocating' = Allocating \ {n} /\ Freeing' = Freeing \ {n}
      /\ \A i \in Allocating \cup Freeing :
             i \in DOMAIN frames /\ i \in Nat /\ i <= n /\ (i # n => i \in DOMAIN frames')
  BY <1>0, <1>1, FramePopped
<1>3. tls \in ThreadRecord
  BY DEF FramesInv, WrapperTypes
<1>4. ~(n \in Allocating /\ n \in Freeing) /\ (n \in Allocating \/ n \in Freeing)
  BY <1>2 DEF Allocating, Freeing, WrapperFrame, AllocKinds
<1>5. CASE n \in Allocating /\ Outer(n)
  <2>1. Allocating' = {} /\ Freeing' = Freeing
    BY <1>2, <1>4, <1>5 DEF Outer
  <2>2. frames[n].set /\ frames[n].first /\ frames[n].kind # "free"
    BY <1>4, <1>5, <1>2 DEF FramesInv, OuterSet, Freeing
  <2>3. tls' = [tls EXCEPT !.site = 0, !.fn = 0,
                           !.sz = IF frames[n].kind = "sz" THEN @ ELSE 0,
                           !.allocating = FALSE]
    BY <1>1, <2>2 DEF Reset
  <2>4. /\ tls' \in ThreadRecord /\ tls'.fn = 0 /\ tls'.site = 0 /\ ~tls'.allocating
        /\ tls'.freeing = tls.freeing
    BY <1>3, <2>3 DEF ThreadRecord
  <2>5. WrapperTypes' /\ NoneAllocating' /\ FreeMarked'
    BY <1>2, <2>1, <2>4 DEF WrapperTypes, NoneAllocating, FreeMarked, FramesInv
  <2>6. FreeSet'
    BY <1>2, <1>4, <1>5, <2>1 DEF FreeSet, FramesInv
  <2> QED
    BY <2>1, <2>5, <2>6 DEF FramesInv, OuterExists, FramesNonzero, OuterSet, OuterHolds
<1>6. CASE n \in Allocating /\ ~Outer(n)
  <2>1. tls' = tls
    BY <1>1, <1>6 DEF FramesInv, OuterSet, Reset
  <2>2. \A i \in Allocating' : Outer(i)' <=> Outer(i)
    BY <1>2, <1>6 DEF Outer
  <2>3. \E i \in Allocating : Outer(i) /\ i # n
    BY <1>6 DEF FramesInv, OuterExists
  <2>4. WrapperTypes' /\ NoneAllocating' /\ OuterExists'
    BY <1>2, <2>1, <2>2, <2>3 DEF WrapperTypes, NoneAllocating, OuterExists, FramesInv
  <2>5. FramesNonzero' /\ OuterSet' /\ OuterHolds'
    BY <1>2, <2>1, <2>2 DEF FramesNonzero, OuterSet, OuterHolds, FramesInv
  <2>6. FreeSet' /\ FreeMarked'
    BY <1>2, <1>4, <1>6, <2>1 DEF FreeSet, FreeMarked, FramesInv
  <2> QED BY <2>4, <2>5, <2>6 DEF FramesInv
<1>7. CASE n \in Freeing
  <2>1. Allocating' = Allocating /\ \A i : Outer(i)' <=> Outer(i)
    BY <1>2, <1>4, <1>7 DEF Outer
  <2>2. /\ tls' \in ThreadRecord /\ tls'.fn = tls.fn /\ tls'.site = tls.site
        /\ tls'.sz = tls.sz /\ tls'.allocating = tls.allocating
        /\ tls'.freeing <=> tls.freeing /\ ~frames[n].set
    <3>1. frames[n].kind = "free"
      BY <1>7 DEF Freeing
    <3>2. CASE frames[n].set
      BY <1>1, <1>3, <3>1, <3>2 DEF Reset, ThreadRecord
    <3>3. CASE ~frames[n].set
      BY <1>1, <1>3, <3>3 DEF Reset, ThreadRecord
    <3> QED BY <3>2, <3>3
  <2>3. WrapperTypes' /\ NoneAllocating' /\ OuterExists' /\ FramesNonzero'
    BY <1>2, <2>1, <2>2, <1>4, <1>7
    DEF WrapperTypes, NoneAllocating, OuterExists, FramesNonzero, FramesInv
  <2>4. OuterSet' /\ OuterHolds'
    BY <1>2, <2>1, <2>2, <1>4, <1>7 DEF OuterSet, OuterHolds, FramesInv
  <2>5. FreeSet'
    BY <1>2, <1>7 DEF FreeSet, FramesInv
  <2>6. FreeMarked'
    <3>1. CASE frames[n].set
      <4>1. Freeing' = {} /\ ~tls'.freeing
        BY <1>2, <1>7, <2>2, <3>1 DEF FreeSet, FramesInv
      <4> QED BY <4>1 DEF FreeMarked
    <3>2. CASE ~frames[n].set
      <4>1. Freeing' # {} /\ tls.freeing
        BY <1>2, <1>7, <3>2 DEF FreeSet, FreeMarked, FramesInv
      <4> QED BY <2>2, <3>2, <4>1 DEF FreeMarked
    <3> QED BY <3>1, <3>2
  <2> QED BY <2>3, <2>4, <2>5, <2>6 DEF FramesInv
<1> QED BY <1>4, <1>5, <1>6, <1>7

\* What a hook takes from the thread's record is what the outermost wrapper was
\* asked for, and there is nothing to take when there is no wrapper.
LEMMA RecordIsOutermosts ==
    ASSUME FramesInv
    PROVE  /\ Allocating # {} =>
                tls.site = Outermost.site /\ tls.sz = Outermost.size /\ tls.site # 0
                /\ tls.sz \in Nat \ {0}
           /\ Allocating = {} => tls.site = 0
<1>1. ASSUME Allocating # {}
      PROVE  /\ tls.site = Outermost.site /\ tls.sz = Outermost.size /\ tls.site # 0
             /\ tls.sz \in Nat \ {0}
  <2>1. PICK i \in Allocating : Outer(i)
    BY <1>1 DEF FramesInv, OuterExists
  <2>2. Outermost = frames[i]
    BY <2>1, OutermostIs DEF FramesInv
  <2>3. tls.sz \in Nat
    BY DEF FramesInv, WrapperTypes, ThreadRecord
  <2> QED BY <2>1, <2>2, <2>3 DEF FramesInv, OuterHolds, FramesNonzero
<1> QED BY <1>1 DEF FramesInv, NoneAllocating

\* The hooks that index a chunk, and the wrapper of a suballocation function.
LEMMA EventKeeps ==
    ASSUME FramesInv,
           WrapperContracts = {"returns_normally", "passes_size", "sized_then_wrapped"},
           \/ \E caller \in Sites, asked \in Amounts :
                \/ post_successful_alloc(caller, asked)
                \/ post_nonnull_nonzero_realloc(caller, asked)
           \/ suballoc
    PROVE  EventRight'
<1>1. ASSUME NEW caller \in Sites, NEW asked \in Amounts, post_successful_alloc(caller, asked)
      PROVE  EventRight'
  <2>1. CurrentSite(caller) = WantedSite(caller)
    BY RecordIsOutermosts DEF CurrentSite, WantedSite
  <2>2. asked \in Nat /\ asked <= Padded(asked) /\ Padded(asked) \in Nat
    BY AmountsAssumption, PaddedLarger
  <2> QED BY <1>1, <2>1, <2>2 DEF post_successful_alloc, EventRight
<1>2. ASSUME NEW caller \in Sites, NEW asked \in Amounts,
             post_nonnull_nonzero_realloc(caller, asked)
      PROVE  EventRight'
  <2>1. CurrentSite(caller) = WantedSite(caller)
    BY RecordIsOutermosts DEF CurrentSite, WantedSite
  <2>2. asked \in Nat /\ asked <= Padded(asked) /\ Padded(asked) \in Nat
    BY AmountsAssumption, PaddedLarger
  <2>3. RequestedSize(Padded(asked)) \in {asked, Padded(asked)}
    BY <1>2, RecordIsOutermosts DEF post_nonnull_nonzero_realloc, ResizeContract, RequestedSize
  <2> QED BY <1>2, <2>1, <2>2, <2>3 DEF post_nonnull_nonzero_realloc, EventRight
<1>3. ASSUME suballoc PROVE EventRight'
  <2>1. Len(frames) \in Allocating
    BY <1>3 DEF suballoc, FramesInv, WrapperTypes, Allocating, AllocKinds
  <2>2. /\ event'.site = tls.site /\ event'.wanted = Outermost.site
        /\ event'.size = tls.sz /\ event'.asked = Outermost.size
    <3>1. /\ Allocating # {} /\ tls.site # 0
      BY <2>1, RecordIsOutermosts
    <3>2. \A c : CurrentSite(c) = tls.site
      BY <3>1 DEF CurrentSite
    <3>3. \A c : WantedSite(c) = Outermost.site
      BY <3>1 DEF WantedSite
    <3>4. event' = [site |-> CurrentSite(frames[Len(frames)].site), wanted |-> WantedSite(0),
                    size |-> tls.sz, asked |-> Outermost.size]
      BY <1>3 DEF suballoc
    <3> QED BY <3>2, <3>3, <3>4
  <2>3. Outermost.size \in Nat /\ Outermost.size <= Padded(Outermost.size)
        /\ Padded(Outermost.size) \in Nat
    BY <2>1, RecordIsOutermosts, PaddedLarger
  <2>4. event'.size \in event'.asked..Padded(event'.asked) /\ event'.site = event'.wanted
    <3>1. tls.site = Outermost.site /\ tls.sz = Outermost.size
      BY <2>1, RecordIsOutermosts
    <3>2. PICK n \in Nat : n = Outermost.size
      BY <2>3
    <3>3. n \in n..Padded(n)
      BY <2>3, <3>2
    <3> QED BY <2>2, <3>1, <3>2, <3>3
  <2> QED BY <2>4 DEF EventRight, Padded
<1> QED BY <1>1, <1>2, <1>3

LEMMA WrappersNextInv ==
    ASSUME WrapperContracts = {"returns_normally", "passes_size", "sized_then_wrapped"}
    PROVE  WrappersInv /\ [WrappersNext]_wrapperVars => WrappersInv'
<1> SUFFICES ASSUME WrappersInv, [WrappersNext]_wrapperVars PROVE WrappersInv'
  OBVIOUS
<1>1. CASE UNCHANGED wrapperVars
  BY <1>1 DEF wrapperVars, WrappersInv, FramesInv, WrapperTypes, NoneAllocating, OuterExists,
     FramesNonzero, OuterSet, OuterHolds, FreeSet, FreeMarked, EventRight, Allocating, Freeing,
     Outer
<1>2. ASSUME UNCHANGED event PROVE EventRight'
  BY <1>2 DEF WrappersInv, EventRight
<1>3. ASSUME UNCHANGED <<tls, frames>> PROVE FramesInv'
  BY <1>3 DEF WrappersInv, FramesInv, WrapperTypes, NoneAllocating, OuterExists,
     FramesNonzero, OuterSet, OuterHolds, FreeSet, FreeMarked, Allocating, Freeing, Outer
<1>4. ASSUME NEW kind \in AllocKinds, NEW site \in Sites, NEW size \in Amounts,
             caller_wrapper(kind, site, size)
      PROVE  WrappersInv'
  BY <1>2, <1>4, CallerWrapperKeeps DEF WrappersInv, caller_wrapper
<1>5. ASSUME free_wrapper PROVE WrappersInv'
  BY <1>2, <1>5, FreeWrapperKeeps DEF WrappersInv, free_wrapper
<1>6. ASSUME NEW how \in HowCallsEnd, leave(how) PROVE WrappersInv'
  BY <1>2, <1>6, LeaveKeeps DEF WrappersInv, leave, HowCallsEnd
<1>7. ASSUME \/ \E caller \in Sites, asked \in Amounts :
                  \/ post_successful_alloc(caller, asked)
                  \/ post_nonnull_nonzero_realloc(caller, asked)
             \/ suballoc
      PROVE  WrappersInv'
  BY <1>3, <1>7, EventKeeps
  DEF WrappersInv, post_successful_alloc, post_nonnull_nonzero_realloc, suballoc
<1> QED BY <1>1, <1>4, <1>5, <1>6, <1>7 DEF WrappersNext

LEMMA WrappersInvImplies == WrappersInv => OutermostWrapperCounts
<1> SUFFICES ASSUME WrappersInv PROVE OutermostWrapperCounts
  OBVIOUS
<1>1. tls.allocating <=> Allocating # {}
  BY DEF WrappersInv, FramesInv, NoneAllocating, OuterExists, OuterHolds
<1>2. tls.freeing <=> \E i \in DOMAIN frames : frames[i].kind = "free"
  BY DEF WrappersInv, FramesInv, FreeMarked, Freeing
<1> QED BY <1>1, <1>2 DEF WrappersInv, EventRight, OutermostWrapperCounts

\* However deep the wrappers of tools/stubgen.h nest, for every set of sites and
\* sizes: each chunk and each suballocation is recorded with the site of the
\* outermost wrapper and with the size it was asked for, perhaps padded, and the
\* thread is marked as allocating or freeing exactly while such a wrapper runs.
THEOREM OutermostRecorded ==
    ASSUME WrapperContracts = {"returns_normally", "passes_size", "sized_then_wrapped"}
    PROVE  WrappersSpec => []OutermostWrapperCounts
<1>1. WrappersInit => WrappersInv
  BY WrappersInitInv
<1>2. WrappersInv /\ [WrappersNext]_wrapperVars => WrappersInv'
  BY WrappersNextInv
<1> QED BY <1>1, <1>2, WrappersInvImplies, PTL DEF WrappersSpec
-----------------------------------------------------------------------------
(* The ids of allocation sites, and the insert of a chunk. *)

AllSiteContracts == SiteContracts = {"slots_left", "ids_left", "nonempty"}
AllInsertContracts ==
    InsertContracts = {"types_high", "sites_listed", "set_alone", "queried_in_time"}

VectorEntry == [start_id : Nat, count : Nat, file : Files]
Site == [file : Files, index : Nat]

\* The spine's vectors cover intervals of ids that are nonempty and follow one
\* another, below UnknownId; a loaded file's slot is its own, and it is alone at
\* its place.
SpineOrdered ==
    /\ spine \in Seq(VectorEntry)
    /\ \A i \in DOMAIN spine :
          /\ spine[i].count \in Counts \ {0}
          /\ spine[i].start_id + spine[i].count < IdLimit
    /\ \A i, j \in DOMAIN spine : i < j => spine[i].start_id + spine[i].count <= spine[j].start_id
SlotsOwn ==
    /\ slot \in [Files -> Nat]
    /\ base \in [Files -> Nat]
    /\ \A f \in Files : slot[f] # 0 =>
          slot[f] \in DOMAIN spine /\ spine[slot[f]].file = f /\ base[f] \in Places
    /\ \A f, g \in Files : slot[f] # 0 /\ slot[g] # 0 /\ base[f] = base[g] => f = g

\* id is the one that some load of the site's file gave to the site.
HasId(id, site) ==
    \E i \in DOMAIN spine :
        /\ spine[i].file = site.file /\ site \in Site /\ site.index < spine[i].count
        /\ id = spine[i].start_id + site.index

\* An initial insert, or one that a query holds: still the address of the
\* chunk's site, or what a query leaves that found no type.
StillSite(w) ==
    /\ w.mid \in Places /\ w.low \in Nat
    /\ TypeAt(initial_site(w)) = current /\ TypeOf(home) = current
    /\ TypeOf(home) # NoType => find_allocsite_entry_at(initial_site(w)) = {home}
GivenUp(w) ==
    w = WithType(UnknownId, NoType) /\ current = NoType /\ TypeOf(home) = NoType
Initial(w) == w.top = 0 /\ (StillSite(w) \/ GivenUp(w))
Typed(w) ==
    /\ current \in [mid : Nat, top : Nat]
    /\ w.mid = current.mid /\ w.top = current.top /\ w.top # 0
    /\ TypeOf(home) # NoType => HasId(w.low, home)

InsertInv ==
    /\ SpineOrdered /\ SlotsOwn
    /\ current = NoType \/ current \in [mid : Nat, top : Nat \ {0}]
    /\ home = Nowhere \/ home \in Site
    /\ Initial(insert) \/ Typed(insert)
    /\ read = [q \in Queries |-> read[q]]
    /\ \A q \in Queries : read[q] # NotReading => Initial(read[q])

LEMMA SpineEntry ==
    ASSUME SpineOrdered
    PROVE  \A i \in DOMAIN spine :
              /\ i \in Nat /\ spine[i].file \in Files /\ spine[i].start_id \in Nat
              /\ spine[i].count \in Nat /\ spine[i].count > 0 /\ spine[i].count \in Counts
              /\ spine[i].start_id + spine[i].count < IdLimit
<1> SUFFICES ASSUME NEW i \in DOMAIN spine
             PROVE  /\ i \in Nat /\ spine[i].file \in Files /\ spine[i].start_id \in Nat
                    /\ spine[i].count \in Nat /\ spine[i].count > 0 /\ spine[i].count \in Counts
                    /\ spine[i].start_id + spine[i].count < IdLimit
  OBVIOUS
<1>1. i \in Nat /\ spine[i] \in VectorEntry
  BY DEF SpineOrdered
<1>2. /\ spine[i].count \in Counts \ {0}
      /\ spine[i].start_id + spine[i].count < IdLimit
  BY DEF SpineOrdered
<1> QED BY <1>1, <1>2 DEF VectorEntry

\* allocsite_entry_by_id finds a site again by the id that a load gave it
\* (bsearch_leq_generic over allocsites_vectors_by_base_id).
LEMMA IdFinds ==
    ASSUME SpineOrdered, NEW id, NEW site, HasId(id, site)
    PROVE  allocsite_entry_by_id(id) = {site}
<1>1. PICK i \in DOMAIN spine :
        /\ spine[i].file = site.file /\ site \in Site /\ site.index < spine[i].count
        /\ id = spine[i].start_id + site.index
  BY DEF HasId
<1>2. \A j \in DOMAIN spine :
         /\ j \in Nat /\ spine[j].start_id \in Nat
         /\ spine[j].count \in Nat /\ spine[j].count > 0
  BY SpineEntry
<1>3. site.index \in Nat
  BY <1>1 DEF Site
<1> DEFINE below == {j \in DOMAIN spine : spine[j].start_id <= id}
           starts == {spine[j].start_id : j \in below}
<1>4. \A j \in below : j <= i
  <2> SUFFICES ASSUME NEW j \in below, i < j PROVE FALSE
    BY <1>1, <1>2
  <2>1. spine[i].start_id + spine[i].count <= spine[j].start_id
    BY <1>1 DEF SpineOrdered
  <2> QED BY <1>1, <1>2, <1>3, <2>1
<1>5. i \in below
  BY <1>1, <1>2, <1>3
<1>6. \A j \in below : j # i => spine[j].start_id < spine[i].start_id
  <2> SUFFICES ASSUME NEW j \in below, j # i PROVE spine[j].start_id < spine[i].start_id
    OBVIOUS
  <2>1. j < i
    BY <1>1, <1>2, <1>4
  <2>2. spine[j].start_id + spine[j].count <= spine[i].start_id
    BY <1>1, <2>1 DEF SpineOrdered
  <2> QED BY <1>1, <1>2, <2>2
<1>7. Max(starts) = spine[i].start_id
  <2>1. spine[i].start_id \in starts /\ \A y \in starts : spine[i].start_id >= y /\ y \in Nat
    BY <1>1, <1>2, <1>5, <1>6
  <2>2. \A x \in starts : (\A y \in starts : x >= y) => x = spine[i].start_id
    BY <2>1
  <2> QED BY <2>1, <2>2 DEF Max
<1>8. FoundSlots(id) = {i}
  <2>1. FoundSlots(id) = {j \in below : spine[j].start_id = Max(starts)}
    BY DEF FoundSlots
  <2> QED BY <1>2, <1>5, <1>6, <1>7, <2>1
<1>9. allocsite_entry_by_id(id) = {[file |-> spine[i].file, index |-> id - spine[i].start_id]}
  BY <1>8 DEF allocsite_entry_by_id
<1>10. id - spine[i].start_id = site.index
  BY <1>1, <1>2, <1>3
<1>11. site = [file |-> site.file, index |-> site.index]
  BY <1>1 DEF Site
<1> QED BY <1>1, <1>9, <1>10, <1>11

\* find_allocsite_entry_at finds one site at most, of the file that is loaded at
\* the address.
LEMMA FindsOne ==
    ASSUME SpineOrdered, SlotsOwn, NEW addr, addr.low \in Nat
    PROVE  \/ find_allocsite_entry_at(addr) = {}
           \/ \E s \in Site :
                /\ find_allocsite_entry_at(addr) = {s} /\ get_file(addr) # {}
                /\ slot[s.file] # 0 /\ s.index < Count(s.file)
<1> SUFFICES ASSUME find_allocsite_entry_at(addr) # {}
             PROVE  \E s \in Site :
                      /\ find_allocsite_entry_at(addr) = {s} /\ get_file(addr) # {}
                      /\ slot[s.file] # 0 /\ s.index < Count(s.file)
  OBVIOUS
<1>1. PICK f \in get_file(addr) : addr.low > 0 /\ Count(f) > 0
  BY DEF find_allocsite_entry_at
<1>2. f \in Files /\ slot[f] # 0 /\ base[f] = addr.mid
  BY DEF get_file
<1>3. get_file(addr) = {f}
  BY <1>2 DEF get_file, SlotsOwn
<1>4. slot[f] \in DOMAIN spine /\ Count(f) \in Nat
  BY <1>2, SpineEntry DEF SlotsOwn, Count
<1> DEFINE k == (addr.low - 1) \div 2
           m == Min({k, Count(f) - 1})
<1>5. k \in Nat
  BY <1>1
<1> HIDE DEF k
<1>6. m \in Nat /\ m < Count(f)
  BY <1>1, <1>4, <1>5 DEF Min
<1> HIDE DEF m
<1>7. {g \in get_file(addr) : addr.low > 0 /\ Count(g) > 0} = {f}
  BY <1>1, <1>3
<1>8. find_allocsite_entry_at(addr) = {[file |-> f, index |-> m]}
  BY <1>7 DEF find_allocsite_entry_at, m, k
<1>9. [file |-> f, index |-> m] \in Site
  BY <1>2, <1>6 DEF Site
<1> QED BY <1>2, <1>3, <1>6, <1>8, <1>9

\* What the address of a site leads to: its type, and its id.
LEMMA FoundSite ==
    ASSUME SpineOrdered, SlotsOwn, NEW addr, NEW s \in Site,
           find_allocsite_entry_at(addr) = {s}, get_file(addr) # {},
           slot[s.file] # 0, s.index < Count(s.file)
    PROVE  /\ s # Nowhere
           /\ TypeAt(addr) = TypeOf(s)
           /\ TypeOf(s) \in [mid : Nat, top : Nat] \cup {NoType}
           /\ HasId(IdAt(addr), s)
<1>1. s.file \in Files /\ s.index \in Nat /\ s.file # NoFile
  BY AllocSitesAssumption DEF Site
<1>2. s # Nowhere
  BY <1>1 DEF Nowhere
<1>3. TypeAt(addr) = TypeOf(s)
  BY DEF TypeAt
<1>4. slot[s.file] \in DOMAIN spine /\ spine[slot[s.file]].file = s.file
  BY <1>1 DEF SlotsOwn
<1>5. /\ Count(s.file) \in Counts
      /\ spine[slot[s.file]].start_id \in Nat
      /\ spine[slot[s.file]].start_id + Count(s.file) < IdLimit
  BY <1>4, SpineEntry DEF Count
<1>6. Count(s.file) \in Nat
  BY <1>5, AllocSitesAssumption
<1>7. TypeOf(s) \in [mid : Nat, top : Nat] \cup {NoType}
  <2>1. s.index \in 0..(Count(s.file) - 1)
    BY <1>1, <1>6
  <2> QED BY <1>1, <1>2, <1>5, <2>1, TypesAssumption DEF TypeOf
<1>8. IdAt(addr) = (spine[slot[s.file]].start_id + s.index) % IdLimit
  BY <1>1 DEF IdAt, allocsite_id
<1>9. IdAt(addr) = spine[slot[s.file]].start_id + s.index
  BY <1>1, <1>5, <1>6, <1>8, AllocSitesAssumption
<1>10. HasId(IdAt(addr), s)
  BY <1>4, <1>9 DEF HasId, Count
<1> QED BY <1>2, <1>3, <1>7, <1>10

\* What a load or an unload leaves as it was: the sites of the other places and
\* the ids given before.
TablesKept(place) ==
    /\ SpineOrdered' /\ SlotsOwn'
    /\ \A addr : addr.mid # place =>
          find_allocsite_entry_at(addr)' = find_allocsite_entry_at(addr)
    /\ \A id, site : HasId(id, site) => HasId(id, site)'

\* init_allocsites_info appends a vector whose ids follow the others.
LEMMA LoadTables ==
    ASSUME SpineOrdered, SlotsOwn, AllSiteContracts,
           NEW f \in Files, NEW n \in Counts, NEW place \in Places, load_file(f, n, place)
    PROVE  TablesKept(place)
<1>1. PICK start : start = NextStartId(spine)
  OBVIOUS
<1>2. n \in Nat \ {0} /\ IdLimit \in Nat \ {0} /\ place \in Nat \ {0}
  BY AllocSitesAssumption, MallocInsertAssumption
     DEF load_file, init_allocsites_info, AllSiteContracts
<1>3. spine \in Seq(VectorEntry) /\ Len(spine) \in Nat /\ DOMAIN spine = 1..Len(spine)
  BY DEF SpineOrdered
<1>4. /\ start \in Nat
      /\ \A i \in DOMAIN spine : spine[i].start_id + spine[i].count <= start
      /\ ~Wrapped(spine)
  <2>1. CASE spine = <<>>
    BY <1>1, <2>1 DEF NextStartId, Wrapped
  <2>2. CASE spine # <<>>
    <3>1. Len(spine) \in DOMAIN spine
      BY <1>3, <2>2
    <3>2. start = spine[Len(spine)].start_id + spine[Len(spine)].count
      <4>1. start = (spine[Len(spine)].start_id + spine[Len(spine)].count) % IdLimit
        BY <1>1, <2>2 DEF NextStartId
      <4>2. PICK end : end = spine[Len(spine)].start_id + spine[Len(spine)].count
        OBVIOUS
      <4>3. end \in Nat /\ end < IdLimit
        BY <3>1, <4>2, SpineEntry
      <4>4. end % IdLimit = end
        BY <1>2, <4>3
      <4> QED BY <4>1, <4>2, <4>4
    <3>3. \A i \in DOMAIN spine : spine[i].start_id + spine[i].count <= start
      <4> TAKE i \in DOMAIN spine
      <4>1. CASE i = Len(spine)
        BY <3>1, <3>2, <4>1, SpineEntry
      <4>2. CASE i # Len(spine)
        <5>1. i < Len(spine)
          BY <1>3, <4>2
        <5>2. spine[i].start_id + spine[i].count <= spine[Len(spine)].start_id
          BY <3>1, <5>1 DEF SpineOrdered
        <5>3. /\ spine[i].start_id \in Nat /\ spine[i].count \in Nat
              /\ spine[Len(spine)].start_id \in Nat /\ spine[Len(spine)].count \in Nat
          BY <3>1, SpineEntry
        <5> QED BY <3>2, <5>2, <5>3, SMTT(20)
      <4> QED BY <4>1, <4>2
    <3> QED BY <1>1, <3>1, <3>2, <3>3, SpineEntry DEF Wrapped
  <2> QED BY <2>1, <2>2
<1>5. start + n < IdLimit /\ ~NoSlot(spine) /\ slot[f] = 0
  BY <1>1, <1>3, AllocSitesAssumption
     DEF load_file, init_allocsites_info, AllSiteContracts, NoSlot
<1> DEFINE e == [start_id |-> start, count |-> n, file |-> f]
<1>6. /\ spine' = Append(spine, e)
      /\ slot' = [slot EXCEPT ![f] = Len(spine) + 1]
      /\ base' = [base EXCEPT ![f] = place]
  <2>1. /\ spine' = Append(spine, [start_id |-> start, count |-> n % IdLimit, file |-> f])
        /\ slot' = [slot EXCEPT ![f] = Len(spine) + 1]
        /\ base' = [base EXCEPT ![f] = place]
    BY <1>1, <1>4, <1>5 DEF load_file, init_allocsites_info
  <2>2. n % IdLimit = n
    BY <1>2, <1>4, <1>5
  <2> QED BY <2>1, <2>2
<1>7. e \in VectorEntry /\ e.start_id = start /\ e.count = n /\ e.file = f
  BY <1>2, <1>4 DEF VectorEntry
<1> HIDE DEF e
<1>8. /\ spine' \in Seq(VectorEntry) /\ DOMAIN spine' = DOMAIN spine \cup {Len(spine) + 1}
      /\ \A i \in DOMAIN spine : spine'[i] = spine[i] /\ i < Len(spine) + 1
      /\ spine'[Len(spine) + 1] = e
  BY <1>3, <1>6, <1>7
<1>9. SpineOrdered'
  <2>1. \A i \in DOMAIN spine' :
          /\ spine'[i].count \in Counts \ {0}
          /\ spine'[i].start_id + spine'[i].count < IdLimit
    BY <1>2, <1>5, <1>7, <1>8 DEF SpineOrdered
  <2>2. \A i, j \in DOMAIN spine' :
          i < j => spine'[i].start_id + spine'[i].count <= spine'[j].start_id
    <3> SUFFICES ASSUME NEW i \in DOMAIN spine', NEW j \in DOMAIN spine', i < j
                 PROVE  spine'[i].start_id + spine'[i].count <= spine'[j].start_id
      OBVIOUS
    <3>1. i \in DOMAIN spine
      BY <1>3, <1>8
    <3>2. CASE j \in DOMAIN spine
      BY <1>8, <3>1, <3>2 DEF SpineOrdered
    <3>3. CASE j = Len(spine) + 1
      BY <1>4, <1>7, <1>8, <3>1, <3>3
    <3> QED BY <1>8, <3>2, <3>3
  <2> QED BY <1>8, <2>1, <2>2 DEF SpineOrdered
<1>10. \A g \in Files : g # f => slot'[g] = slot[g] /\ base'[g] = base[g]
  BY <1>6 DEF SlotsOwn
<1>11. slot'[f] = Len(spine) + 1 /\ base'[f] = place
  BY <1>6 DEF SlotsOwn
<1>12. \A g \in Files : slot[g] # 0 =>
          slot[g] \in DOMAIN spine /\ spine[slot[g]].file = g /\ base[g] \in Places
  BY DEF SlotsOwn
<1>13. SlotsOwn'
  <2>1. slot' \in [Files -> Nat] /\ base' \in [Files -> Nat]
    BY <1>2, <1>3, <1>6 DEF SlotsOwn
  <2>2. \A g \in Files : slot'[g] # 0 =>
          slot'[g] \in DOMAIN spine' /\ spine'[slot'[g]].file = g /\ base'[g] \in Places
    BY <1>7, <1>8, <1>10, <1>11, <1>12
  <2>3. \A g, h \in Files : slot'[g] # 0 /\ slot'[h] # 0 /\ base'[g] = base'[h] => g = h
    BY <1>10, <1>11 DEF SlotsOwn, load_file
  <2> QED BY <2>1, <2>2, <2>3 DEF SlotsOwn
<1>14. ASSUME NEW addr, addr.mid # place
       PROVE  find_allocsite_entry_at(addr)' = find_allocsite_entry_at(addr)
  <2>1. get_file(addr)' = get_file(addr)
    BY <1>5, <1>10, <1>11, <1>14 DEF get_file
  <2>2. \A g \in get_file(addr) : Count(g)' = Count(g)
    BY <1>5, <1>8, <1>10, <1>12 DEF get_file, Count
  <2> QED BY <2>1, <2>2 DEF find_allocsite_entry_at
<1>15. \A id, site : HasId(id, site) => HasId(id, site)'
  BY <1>8 DEF HasId
<1> QED BY <1>9, <1>13, <1>14, <1>15 DEF TablesKept

\* A file that is unloaded leaves its slot behind.
LEMMA UnloadTables ==
    ASSUME SpineOrdered, SlotsOwn, NEW f \in Files, unload_file(f)
    PROVE  TablesKept(base[f])
<1>1. /\ spine' = spine /\ slot' = [slot EXCEPT ![f] = 0]
      /\ base' = [base EXCEPT ![f] = 0] /\ slot[f] # 0
  BY DEF unload_file, unload
<1>2. \A g \in Files : g # f => slot'[g] = slot[g] /\ base'[g] = base[g]
  BY <1>1 DEF SlotsOwn
<1>3. slot'[f] = 0
  BY <1>1 DEF SlotsOwn
<1>4. SpineOrdered'
  BY <1>1 DEF SpineOrdered
<1>5. SlotsOwn'
  <2>1. slot' \in [Files -> Nat] /\ base' \in [Files -> Nat]
    BY <1>1 DEF SlotsOwn
  <2>2. \A g \in Files : slot'[g] # 0 =>
          slot'[g] \in DOMAIN spine' /\ spine'[slot'[g]].file = g /\ base'[g] \in Places
    BY <1>1, <1>2, <1>3 DEF SlotsOwn
  <2>3. \A g, h \in Files : slot'[g] # 0 /\ slot'[h] # 0 /\ base'[g] = base'[h] => g = h
    BY <1>2, <1>3 DEF SlotsOwn
  <2> QED BY <2>1, <2>2, <2>3 DEF SlotsOwn
<1>6. ASSUME NEW addr, addr.mid # base[f]
      PROVE  find_allocsite_entry_at(addr)' = find_allocsite_entry_at(addr)
  <2>1. get_file(addr)' = get_file(addr)
    BY <1>2, <1>3, <1>6 DEF get_file
  <2>2. \A g \in get_file(addr) : Count(g)' = Count(g)
    BY <1>1, <1>2, <1>6 DEF get_file, Count
  <2> QED BY <2>1, <2>2 DEF find_allocsite_entry_at
<1>7. \A id, site : HasId(id, site) => HasId(id, site)'
  BY <1>1 DEF HasId
<1> QED BY <1>4, <1>5, <1>6, <1>7 DEF TablesKept

\* A file that comes or goes leaves the insert's meaning alone, because no site
\* of its place is still to be looked up.
LEMMA FilesKeep ==
    ASSUME InsertInv, AllInsertContracts, NEW place, TablesKept(place), InTime(place),
           UNCHANGED chunkVars
    PROVE  InsertInv'
<1>1. UNCHANGED <<insert, read, current, home>>
  BY DEF chunkVars
<1>2. AllIdle /\ (insert.top # 0 \/ insert.mid # place)
  BY DEF InTime, AllInsertContracts, INSERT_IS_WITH_TYPE
<1>3. \A q \in Queries : read'[q] = NotReading
  BY <1>1, <1>2 DEF AllIdle
<1>4. ASSUME StillSite(insert), insert.top = 0 PROVE StillSite(insert)'
  <2>1. PICK addr : addr = initial_site(insert)
    OBVIOUS
  <2>2. addr.mid # place
    BY <1>2, <1>4, <2>1 DEF initial_site
  <2>3. find_allocsite_entry_at(addr)' = find_allocsite_entry_at(addr)
    BY <2>2 DEF TablesKept
  <2>4. TypeAt(addr)' = TypeAt(addr)
    BY <2>3 DEF TypeAt
  <2>5. initial_site(insert)' = addr
    BY <1>1, <2>1 DEF initial_site
  <2>6. TypeOf(home)' = TypeOf(home)
    BY <1>1
  <2> QED BY <1>1, <1>4, <2>1, <2>3, <2>4, <2>5, <2>6 DEF StillSite
<1>5. ASSUME GivenUp(insert) PROVE GivenUp(insert)'
  BY <1>1, <1>5 DEF GivenUp
<1>6. ASSUME Typed(insert) PROVE Typed(insert)'
  BY <1>1, <1>6 DEF Typed, TablesKept
<1>7. Initial(insert)' \/ Typed(insert)'
  BY <1>1, <1>4, <1>5, <1>6 DEF InsertInv, Initial
<1> QED BY <1>1, <1>3, <1>7 DEF InsertInv, TablesKept

\* What the address in an initial insert leads to.
LEMMA InitialMeans ==
    ASSUME InsertInv, NEW w, Initial(w)
    PROVE  /\ TypeIn(w) = current
           /\ TypeOf(home) # NoType => HasId(IdAt(initial_site(w)), home)
           /\ current = NoType => TypeOf(home) = NoType
<1>1. w.top = 0 /\ ~INSERT_IS_WITH_TYPE(w)
  BY DEF Initial, INSERT_IS_WITH_TYPE
<1>2. CASE StillSite(w)
  <2>1. initial_site(w).low \in Nat
    BY <1>2 DEF StillSite, initial_site
  <2>2. ASSUME TypeOf(home) # NoType PROVE HasId(IdAt(initial_site(w)), home)
    <3>1. find_allocsite_entry_at(initial_site(w)) = {home}
      BY <1>2, <2>2 DEF StillSite
    <3>2. PICK s \in Site :
            /\ find_allocsite_entry_at(initial_site(w)) = {s} /\ get_file(initial_site(w)) # {}
            /\ slot[s.file] # 0 /\ s.index < Count(s.file)
      BY <2>1, <3>1, FindsOne DEF InsertInv
    <3> QED BY <3>1, <3>2, FoundSite DEF InsertInv
  <2> QED BY <1>1, <1>2, <2>2 DEF StillSite, TypeIn
<1>3. CASE GivenUp(w)
  <2>1. w.mid = 0
    BY <1>3 DEF GivenUp, WithType, ShiftOf
  <2>2. get_file(initial_site(w)) = {}
    BY <2>1, MallocInsertAssumption DEF get_file, initial_site, InsertInv, SlotsOwn
  <2>3. TypeAt(initial_site(w)) = NoType
    BY <2>2 DEF TypeAt, find_allocsite_entry_at
  <2> QED BY <1>1, <1>3, <2>3 DEF GivenUp, TypeIn
<1> QED BY <1>2, <1>3 DEF Initial

\* A word made of a type and an id is read back as them.
LEMMA WithTypeMeans ==
    ASSUME NEW type \in [mid : Nat, top : Nat], NEW id
    PROVE  /\ WithType(id, type).low = id
           /\ WithType(id, type).mid = type.mid /\ WithType(id, type).top = type.top
<1>1. type # NoType
  BY TypesAssumption
<1> QED BY <1>1 DEF WithType, ShiftOf

LEMMA IndexInsertKeeps ==
    ASSUME InsertInv, AllInsertContracts, NEW addr \in Addresses, index_insert(addr)
    PROVE  InsertInv'
<1>1. addr.low \in Nat /\ addr.mid \in Places
  BY DEF Addresses
<1>2. /\ AllIdle /\ UNCHANGED <<spine, slot, ids_aborted, base, read>>
      /\ insert' = Fresh(addr) /\ home' = SiteAt(addr) /\ current' = TypeOf(SiteAt(addr))
  BY DEF index_insert, siteVars
<1>3. SiteAt(addr) # Nowhere \/ find_allocsite_entry_at(addr) = {}
  BY DEF index_insert, Listed, AllInsertContracts
<1>4. TypeAt(addr) # NoType => TypeAt(addr).top # 0
  BY DEF index_insert, High, AllInsertContracts
<1>5. SpineOrdered /\ SlotsOwn
  BY DEF InsertInv
<1>6. /\ TypeAt(addr) = TypeOf(SiteAt(addr))
      /\ SiteAt(addr) = Nowhere \/ SiteAt(addr) \in Site
      /\ TypeOf(SiteAt(addr)) \in [mid : Nat, top : Nat] \cup {NoType}
      /\ TypeOf(SiteAt(addr)) # NoType => find_allocsite_entry_at(addr) = {SiteAt(addr)}
  <2>1. CASE find_allocsite_entry_at(addr) = {}
    BY <2>1 DEF TypeAt, SiteAt, TypeOf
  <2>2. CASE find_allocsite_entry_at(addr) # {}
    <3>1. PICK s \in Site :
            /\ find_allocsite_entry_at(addr) = {s} /\ get_file(addr) # {}
            /\ slot[s.file] # 0 /\ s.index < Count(s.file)
      BY <1>1, <1>5, <2>2, FindsOne
    <3>2. SiteAt(addr) = s
      BY <1>3, <2>2, <3>1 DEF SiteAt
    <3> QED BY <1>5, <3>1, <3>2, FoundSite, ZenonT(30)
  <2> QED BY <2>1, <2>2
<1>7. find_allocsite_entry_at(addr)' = find_allocsite_entry_at(addr)
  BY <1>2 DEF find_allocsite_entry_at, get_file, Count
<1>8. TypeAt(addr)' = TypeAt(addr)
  BY <1>7 DEF TypeAt
<1>9. insert'.top = 0 /\ insert'.mid = addr.mid /\ insert'.low = addr.low
  BY <1>2 DEF Fresh
<1>10. initial_site(insert)' = addr
  BY <1>9 DEF initial_site, Addresses
<1>11. TypeOf(home)' = current'
  BY <1>2 DEF TypeOf
<1>12. StillSite(insert)'
  BY <1>1, <1>2, <1>6, <1>7, <1>8, <1>9, <1>10, <1>11 DEF StillSite
<1>13. current' = NoType \/ current' \in [mid : Nat, top : Nat \ {0}]
  BY <1>2, <1>4, <1>6
<1>14. SpineOrdered' /\ SlotsOwn' /\ \A q \in Queries : read'[q] = NotReading
  BY <1>2, <1>5 DEF SpineOrdered, SlotsOwn, AllIdle
<1> QED BY <1>2, <1>6, <1>9, <1>12, <1>13, <1>14 DEF InsertInv, Initial

\* The meaning of a word depends on the tables, the type and the site alone.
LEMMA MeaningKept ==
    ASSUME UNCHANGED <<spine, slot, base, current, home>>, NEW w
    PROVE  (Initial(w)' <=> Initial(w)) /\ (Typed(w)' <=> Typed(w))
<1>1. find_allocsite_entry_at(initial_site(w))' = find_allocsite_entry_at(initial_site(w))
  BY DEF find_allocsite_entry_at, get_file, Count
<1>2. TypeAt(initial_site(w))' = TypeAt(initial_site(w)) /\ TypeOf(home)' = TypeOf(home)
  BY <1>1 DEF TypeAt
<1>3. \A id : HasId(id, home)' <=> HasId(id, home)
  BY DEF HasId
<1> QED BY <1>1, <1>2, <1>3 DEF Initial, StillSite, GivenUp, Typed

\* A query holds what the insert was.
LEMMA ExtractReadKeeps ==
    ASSUME InsertInv, NEW q \in Queries, extract_read(q)
    PROVE  InsertInv'
<1>1. /\ UNCHANGED <<spine, slot, base, insert, current, home>>
      /\ read' = [read EXCEPT ![q] = insert] /\ insert.top = 0
  BY DEF extract_read, siteVars, INSERT_IS_WITH_TYPE
<1>2. Initial(insert)
  BY <1>1 DEF InsertInv, Typed
<1>3. \A w : (Initial(w)' <=> Initial(w)) /\ (Typed(w)' <=> Typed(w))
  BY <1>1, MeaningKept
<1>4. Initial(insert)' \/ Typed(insert)'
  <2>1. PICK w : w = insert
    OBVIOUS
  <2>2. Initial(w)'
    BY <1>2, <1>3, <2>1
  <2> QED BY <1>1, <2>1, <2>2 DEF Initial, StillSite, GivenUp
<1>5. \A p \in Queries : read'[p] = IF p = q THEN insert ELSE read[p]
  BY <1>1 DEF InsertInv
<1>6. read' = [p \in Queries |-> read'[p]]
  BY <1>1 DEF InsertInv
<1>7. \A p \in Queries : read'[p] # NotReading => Initial(read'[p])
  BY <1>2, <1>5 DEF InsertInv
<1>8. \A p \in Queries : (read[p] # NotReading => Initial(read[p]))'
  <2> SUFFICES ASSUME NEW p \in Queries, read'[p] # NotReading PROVE Initial(read[p])'
    OBVIOUS
  <2>1. PICK w : w = read'[p]
    OBVIOUS
  <2>2. Initial(w)'
    BY <1>3, <1>7, <2>1
  <2> QED BY <2>1, <2>2 DEF Initial, StillSite, GivenUp
<1>9. SpineOrdered' /\ SlotsOwn'
  BY <1>1 DEF InsertInv, SpineOrdered, SlotsOwn
<1> QED BY <1>1, <1>4, <1>6, <1>8, <1>9 DEF InsertInv

\* It leaves in the insert what the word it holds leads to.
LEMMA ExtractReplaceKeeps ==
    ASSUME InsertInv, NEW q \in Queries, extract_replace(q)
    PROVE  InsertInv'
<1>1. /\ UNCHANGED <<spine, slot, base, current, home>> /\ read[q] # NotReading
      /\ read' = [read EXCEPT ![q] = NotReading]
  BY DEF extract_replace, siteVars
<1>2. PICK w : w = Rewritten(read[q])
  OBVIOUS
<1>3. /\ TypeIn(read[q]) = current
      /\ TypeOf(home) # NoType => HasId(IdAt(initial_site(read[q])), home)
      /\ current = NoType => TypeOf(home) = NoType
  BY <1>1, InitialMeans DEF InsertInv
<1>4. Initial(w) \/ Typed(w)
  <2>1. CASE current = NoType
    <3>1. w = WithType(UnknownId, NoType) /\ w.top = 0
      BY <1>2, <1>3, <2>1 DEF Rewritten, WithType, ShiftOf
    <3> QED BY <1>3, <2>1, <3>1 DEF Initial, GivenUp
  <2>2. CASE current # NoType
    <3>1. current \in [mid : Nat, top : Nat \ {0}] /\ current \in [mid : Nat, top : Nat]
      BY <2>2 DEF InsertInv
    <3>2. w = WithType(IdAt(initial_site(read[q])), current)
      BY <1>2, <1>3, <2>2 DEF Rewritten
    <3> QED BY <1>3, <3>1, <3>2, WithTypeMeans DEF Typed
  <2> QED BY <2>1, <2>2
<1>5. \A v : (Initial(v)' <=> Initial(v)) /\ (Typed(v)' <=> Typed(v))
  BY <1>1, MeaningKept
<1>6. Initial(insert)' \/ Typed(insert)'
  <2>1. insert' = w
    BY <1>2 DEF extract_replace
  <2>2. Initial(w)' \/ Typed(w)'
    BY <1>4, <1>5
  <2> QED BY <2>1, <2>2 DEF Initial, StillSite, GivenUp, Typed
<1>7. \A p \in Queries : read'[p] = IF p = q THEN NotReading ELSE read[p]
  BY <1>1 DEF InsertInv
<1>8. read' = [p \in Queries |-> read'[p]]
  BY <1>1 DEF InsertInv
<1>9. \A p \in Queries : (read[p] # NotReading => Initial(read[p]))'
  <2> SUFFICES ASSUME NEW p \in Queries, read'[p] # NotReading PROVE Initial(read[p])'
    OBVIOUS
  <2>1. PICK v : v = read'[p]
    OBVIOUS
  <2>2. Initial(v)'
    BY <1>5, <1>7, <2>1 DEF InsertInv
  <2> QED BY <2>1, <2>2 DEF Initial, StillSite, GivenUp
<1>10. SpineOrdered' /\ SlotsOwn'
  BY <1>1 DEF InsertInv, SpineOrdered, SlotsOwn
<1> QED BY <1>1, <1>6, <1>8, <1>9, <1>10 DEF InsertInv

\* __generic_malloc_set_type keeps the id, or looks it up now.
LEMMA SetTypeKeeps ==
    ASSUME InsertInv, AllInsertContracts, NEW type \in Types, set_type(type)
    PROVE  InsertInv'
<1>1. /\ UNCHANGED <<spine, slot, base, home, read>> /\ AllIdle /\ current' = type
      /\ insert' = WithType(IdWhenSet(insert), type)
  BY DEF set_type, siteVars, AllInsertContracts
<1>2. type \in [mid : Nat, top : Nat] /\ type # NoType /\ type.top # 0
  BY TypesAssumption DEF set_type, High, AllInsertContracts
<1>3. TypeOf(home) # NoType => HasId(IdWhenSet(insert), home)
  <2>1. CASE Initial(insert)
    BY <2>1, InitialMeans DEF IdWhenSet, Initial, INSERT_IS_WITH_TYPE
  <2>2. CASE Typed(insert)
    BY <2>2 DEF IdWhenSet, Typed, INSERT_IS_WITH_TYPE
  <2> QED BY <2>1, <2>2 DEF InsertInv
<1>4. /\ insert'.low = IdWhenSet(insert)
      /\ insert'.mid = type.mid /\ insert'.top = type.top
  BY <1>1, <1>2, WithTypeMeans
<1>5. \A id : HasId(id, home) => HasId(id, home)'
  BY <1>1 DEF HasId
<1>6. PICK id : id = IdWhenSet(insert)
  OBVIOUS
<1>7. (TypeOf(home) # NoType => HasId(insert.low, home))'
  BY <1>1, <1>3, <1>4, <1>5, <1>6 DEF HasId
<1>8. Typed(insert)'
  BY <1>1, <1>2, <1>4, <1>7 DEF Typed
<1>9. SpineOrdered' /\ SlotsOwn' /\ \A q \in Queries : read'[q] = NotReading
  BY <1>1 DEF InsertInv, SpineOrdered, SlotsOwn, AllIdle
<1>10. current' \in [mid : Nat, top : Nat \ {0}]
  BY <1>1, <1>2
<1> QED BY <1>1, <1>8, <1>9, <1>10 DEF InsertInv

LEMMA InsertInitInv == InsertInit => InsertInv
<1> SUFFICES ASSUME InsertInit PROVE InsertInv
  OBVIOUS
<1>1. SpineOrdered /\ SlotsOwn
  BY DEF InsertInit, SitesInit, SpineOrdered, SlotsOwn
<1>2. insert = WithType(UnknownId, NoType) /\ insert.top = 0
  BY DEF InsertInit, WithType, ShiftOf
<1>3. Initial(insert)
  BY <1>2 DEF InsertInit, Initial, GivenUp, TypeOf
<1> QED BY <1>1, <1>3 DEF InsertInit, InsertInv

LEMMA InsertNextInv ==
    ASSUME AllSiteContracts, AllInsertContracts
    PROVE  InsertInv /\ [InsertNext]_insertVars => InsertInv'
<1> SUFFICES ASSUME InsertInv, [InsertNext]_insertVars PROVE InsertInv'
  OBVIOUS
<1>1. ASSUME NEW f \in Files, NEW n \in Counts, NEW place \in Places, load_file(f, n, place)
      PROVE  InsertInv'
  BY <1>1, LoadTables, FilesKeep DEF load_file, InsertInv
<1>2. ASSUME NEW f \in Files, unload_file(f) PROVE InsertInv'
  BY <1>2, UnloadTables, FilesKeep DEF unload_file, InsertInv
<1>3. CASE UNCHANGED insertVars
  <2>1. UNCHANGED <<spine, slot, base, insert, read, current, home>>
    BY <1>3 DEF insertVars, siteVars, chunkVars
  <2>2. \A w : (Initial(w)' <=> Initial(w)) /\ (Typed(w)' <=> Typed(w))
    BY <2>1, MeaningKept
  <2>3. Initial(insert)' \/ Typed(insert)'
    <3>1. PICK w : w = insert
      OBVIOUS
    <3>2. Initial(w)' \/ Typed(w)'
      BY <2>2, <3>1 DEF InsertInv
    <3> QED BY <2>1, <3>1, <3>2 DEF Initial, StillSite, GivenUp, Typed
  <2>4. \A p \in Queries : (read[p] # NotReading => Initial(read[p]))'
    <3> SUFFICES ASSUME NEW p \in Queries, read'[p] # NotReading PROVE Initial(read[p])'
      OBVIOUS
    <3>1. PICK v : v = read'[p]
      OBVIOUS
    <3>2. Initial(v)'
      BY <2>1, <2>2, <3>1 DEF InsertInv
    <3> QED BY <3>1, <3>2 DEF Initial, StillSite, GivenUp
  <2>5. SpineOrdered' /\ SlotsOwn'
    BY <2>1 DEF InsertInv, SpineOrdered, SlotsOwn
  <2> QED BY <2>1, <2>3, <2>4, <2>5 DEF InsertInv
<1> QED
  BY <1>1, <1>2, <1>3, IndexInsertKeeps, ExtractReadKeeps, ExtractReplaceKeeps, SetTypeKeeps
  DEF InsertNext, FilesNext, ChunkNext

LEMMA InsertInvImplies == InsertInv => TypeKept /\ SiteKept
<1> SUFFICES ASSUME InsertInv PROVE TypeKept /\ SiteKept
  OBVIOUS
<1>1. CASE Initial(insert)
  BY <1>1, InitialMeans DEF TypeKept, SiteKept, Initial, INSERT_IS_WITH_TYPE
<1>2. CASE Typed(insert)
  <2>1. with_type_type(insert) = current
    BY <1>2 DEF Typed, with_type_type
  <2>2. TypeOf(home) # NoType => allocsite_entry_by_id(insert.low) = {home}
    BY <1>2, IdFinds DEF Typed, InsertInv
  <2> QED BY <1>2, <2>1, <2>2 DEF Typed, TypeKept, SiteKept, TypeIn, INSERT_IS_WITH_TYPE
<1> QED BY <1>1, <1>2 DEF InsertInv

\* For any number of files, sites, types and queries, and whatever files come
\* and go in time: the next query to read a chunk's insert finds the type of its
\* site, or the one that was set last (include/malloc-meta.h).
THEOREM TypeSurvives ==
    ASSUME AllSiteContracts, AllInsertContracts
    PROVE  InsertSpec => []TypeKept
BY InsertInitInv, InsertNextInv, InsertInvImplies, PTL DEF InsertSpec

\* Under the same assumptions the id that replaces the site's address in the
\* insert leads back to that site for as long as the chunk lives, also when the
\* site's file has been unloaded or loaded again (src/allocsites.c).
THEOREM SiteSurvives ==
    ASSUME AllSiteContracts, AllInsertContracts
    PROVE  InsertSpec => []SiteKept
BY InsertInitInv, InsertNextInv, InsertInvImplies, PTL DEF InsertSpec
=============================================================================
