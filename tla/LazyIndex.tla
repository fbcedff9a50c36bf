------------------------------ MODULE LazyIndex ------------------------------
(***************************************************************************)
(* The page index as memory (src/pageindex.c): a table in an area that is  *)
(* only reserved, in which a unit is really mapped when an access to it    *)
(* raises SIGBUS.  Threads write entries under BIG_LOCK, with              *)
(* memset_bigalloc, and read them without it; each faults on its own, and  *)
(* the signal and its handler's mmap are two steps.  The program installs  *)
(* handlers through the wrappers of src/preload.c.                         *)
(*                                                                         *)
(* An address is a slot of the index, or one outside the area (Elsewhere). *)
(* recorded is what the finished writes have put in each slot; dead says   *)
(* what ended the process.                                                 *)
(***************************************************************************)
EXTENDS Integers, Sequences

CONSTANTS Unit,         \* slots in a DEFERRED_MAPPING_UNIT
          NUnits,       \* the size of the area: both it and its base are multiples
          Threads,
          Numbers,      \* big allocation numbers, 0 for none
          BiggestRun,   \* BIGGEST_SANE_USER_ALLOC, in pages
          LazyContracts

ASSUME UnitAssumption ==
    Unit \in Nat \ {0} /\ Unit % 2 = 0 /\ NUnits \in Nat \ {0} /\ BiggestRun \in Nat
ASSUME LazyContractsAssumption ==
    LazyContracts \subseteq {"faults_serialised", "still_faults", "handler_kept",
                             "sane_sizes"}

AreaBegin == Unit
AreaEnd == Unit * (NUnits + 1)
Slot == AreaBegin..(AreaEnd - 1)
Elsewhere == AreaEnd
Untrapped == 0
Nobody == "nobody"
ASSUME NobodyAssumption == Nobody \notin Threads

VARIABLES mapped,       \* the first slots of the units that are mapped
          pageindex, recorded,
          lock,         \* BIG_LOCK's owner
          todo,         \* for each thread, the accesses it is still to make
          call,         \* the memset_bigalloc it is in
          trapped,      \* the address its SIGBUS is about, or Untrapped
          handlers,     \* who handles the signals that liballocs uses
          dead

lvars == <<mapped, pageindex, recorded, lock, todo, call, trapped, handlers, dead>>

NoCall == [lo |-> 0, n |-> 0, num |-> 0, old |-> 0]
Within(c) == c.lo..(c.lo + c.n - 1)
-----------------------------------------------------------------------------
\* memset_bigalloc as the accesses it makes: the first entry alone when it is
\* odd, then pairs, then the last alone.  The ends are checked before they are
\* written; the rest is too, unless the number to be replaced is zero.
Check(s) == <<[does |-> "check", at |-> s, wide |-> 1]>>
Store(s, wide) == <<[does |-> "store", at |-> s, wide |-> wide]>>
Times(k, Op(_)) == [i \in 1..k |-> Op(i - 1)]

memset_bigalloc_NoTail(c) ==
    LET odd == IF c.lo % 2 = 1 THEN 1 ELSE 0
    IN  (IF odd = 1 THEN Check(c.lo) \o Store(c.lo, 1) ELSE <<>>)
          \o Times((c.n - odd) \div 2, LAMBDA i : Store(c.lo + odd + 2 * i, 2)[1])
memset_bigalloc(c) ==
    LET odd == IF c.lo % 2 = 1 THEN 1 ELSE 0
        lo == c.lo + odd
        n == c.n - odd
    IN  (IF odd = 1 THEN Check(c.lo) \o Store(c.lo, 1) ELSE <<>>)
          \o (IF c.old # 0 THEN Times(n, LAMBDA i : Check(lo + i)[1]) ELSE <<>>)
          \o Times(n \div 2, LAMBDA i : Store(lo + 2 * i, 2)[1])
          \o (IF n % 2 = 1 THEN Check(lo + n - 1) \o Store(lo + n - 1, 1) ELSE <<>>)

\* find_deferred_mapping: the one area there is.
find_deferred_mapping(addr) == AreaBegin <= addr /\ addr < AreaEnd

\* The first slot of what the handler maps: the area begins at a unit.
range_base(addr) == (addr \div Unit) * Unit

\* The handler takes no lock: the thread that faults may be the one that holds it.
HandlerMayRun_Locked(t) == lock = Nobody
HandlerMayRun(t) == TRUE
-----------------------------------------------------------------------------
\* __pageindex_init: the area is reserved, no unit is mapped, and the handler
\* for SIGBUS is installed; systrap has installed the one for SIGILL.
LazyInit ==
    /\ mapped = {}
    /\ pageindex = [s \in Slot |-> 0]
    /\ recorded = [s \in Slot |-> 0]
    /\ lock = Nobody
    /\ todo = [t \in Threads |-> <<>>]
    /\ call = [t \in Threads |-> NoCall]
    /\ trapped = [t \in Threads |-> Untrapped]
    /\ handlers = [sig \in {"SIGBUS", "SIGILL"} |-> "liballocs"]
    /\ dead = "no"

Alive(t) == dead = "no" /\ trapped[t] = Untrapped

\* An operation of the table takes the lock and replaces one number by another
\* in a run of pages (bigalloc_init, bigalloc_del, the extensions and cuts).
BeginWrite(t, c) ==
    /\ Alive(t) /\ todo[t] = <<>> /\ lock = Nobody
    /\ c.num # c.old
    /\ \A s \in Within(c) : s \in Slot /\ recorded[s] = c.old
    /\ "sane_sizes" \in LazyContracts => c.n <= BiggestRun
    /\ IF c.n > BiggestRun
       THEN dead' = "abort" /\ UNCHANGED <<lock, todo, call>>
       ELSE /\ lock' = t
            /\ todo' = [todo EXCEPT ![t] = memset_bigalloc(c)]
            /\ call' = [call EXCEPT ![t] = c]
            /\ UNCHANGED dead
    /\ UNCHANGED <<mapped, pageindex, recorded, trapped, handlers>>

\* __liballocs_get_bigalloc_containing, which takes no lock; or the program's
\* own access to a mapping whose file may have been cut short.
BeginRead(t, addr) ==
    /\ Alive(t) /\ todo[t] = <<>>
    /\ todo' = [todo EXCEPT ![t] = <<[does |-> "read", at |-> addr, wide |-> 1]>>]
    /\ UNCHANGED <<mapped, pageindex, recorded, lock, call, trapped, handlers, dead>>

MayFault(t, addr) ==
    "faults_serialised" \in LazyContracts =>
        \A u \in Threads \ {t} : trapped[u] # Untrapped => range_base(trapped[u]) # range_base(addr)

\* Memory elsewhere is there or not; with still_faults, it is gone for good.
Present(addr) ==
    IF addr \in Slot THEN {range_base(addr) \in mapped}
    ELSE IF handlers["SIGBUS"] = "default" /\ "still_faults" \in LazyContracts THEN {FALSE}
    ELSE BOOLEAN

Fault(t, addr) ==
    /\ MayFault(t, addr)
    /\ trapped' = [trapped EXCEPT ![t] = addr]
    /\ UNCHANGED <<pageindex, recorded, lock, todo, call, dead>>

\* CHECK_LOC: an entry that is neither empty nor the number to be replaced.
BadValue(t, a) == a.does = "check" /\ pageindex[a.at] \notin {0, call[t].old}

Perform(t, a) ==
    LET done == Tail(todo[t]) = <<>> /\ lock = t
    IN  /\ pageindex' = [s \in Slot |->
                           IF a.does = "store" /\ s \in a.at..(a.at + a.wide - 1)
                           THEN call[t].num ELSE pageindex[s]]
        /\ todo' = [todo EXCEPT ![t] = Tail(@)]
        /\ recorded' = [s \in Slot |-> IF done /\ s \in Within(call[t])
                                       THEN call[t].num ELSE recorded[s]]
        /\ lock' = IF done THEN Nobody ELSE lock
        /\ call' = IF done THEN [call EXCEPT ![t] = NoCall] ELSE call
        /\ dead' = IF BadValue(t, a) THEN "abort" ELSE dead
        /\ UNCHANGED trapped

Access(t) ==
    /\ Alive(t) /\ todo[t] # <<>>
    /\ \E present \in Present(Head(todo[t]).at) :
         IF present THEN Perform(t, Head(todo[t])) ELSE Fault(t, Head(todo[t]).at)
    /\ UNCHANGED <<mapped, handlers>>

\* deferred_mapping_handle_signal: map the unit afresh, with whatever it held;
\* or, for an address elsewhere, restore the old action and resume.
HandleSIGBUS(t) ==
    /\ dead = "no" /\ trapped[t] # Untrapped /\ HandlerMayRun(t)
    /\ IF handlers["SIGBUS"] = "liballocs"
       THEN /\ trapped' = [trapped EXCEPT ![t] = Untrapped]
            /\ IF find_deferred_mapping(trapped[t])
               THEN /\ mapped' = mapped \cup {range_base(trapped[t])}
                    /\ pageindex' = [s \in Slot |-> IF range_base(s) = range_base(trapped[t])
                                                    THEN 0 ELSE pageindex[s]]
                    /\ UNCHANGED handlers
               ELSE /\ handlers' = [handlers EXCEPT !["SIGBUS"] = "default"]
                    /\ UNCHANGED <<mapped, pageindex>>
            /\ UNCHANGED dead
       ELSE /\ dead' = IF trapped[t] \in Slot THEN "index" ELSE "program"
            /\ UNCHANGED <<mapped, pageindex, trapped, handlers>>
    /\ UNCHANGED <<recorded, lock, todo, call>>
-----------------------------------------------------------------------------
\* signal and sigaction of src/preload.c: a request for SIGILL is ignored.
Granted(sig) == sig # "SIGILL"
ProgramSignals == {"SIGILL", "SIGUSR1"}
                    \cup (IF "handler_kept" \in LazyContracts THEN {} ELSE {"SIGBUS"})

sigaction(sig) ==
    /\ dead = "no"
    /\ handlers' = [s \in DOMAIN handlers |->
                      IF s = sig /\ Granted(sig) THEN "program" ELSE handlers[s]]
    /\ UNCHANGED <<mapped, pageindex, recorded, lock, todo, call, trapped, dead>>

\* A system call whose instruction systrap has replaced.
TrapSyscall(t) ==
    /\ Alive(t) /\ todo[t] = <<>>
    /\ dead' = IF handlers["SIGILL"] = "liballocs" THEN "no" ELSE "syscall"
    /\ UNCHANGED <<mapped, pageindex, recorded, lock, todo, call, trapped, handlers>>

Calls == [lo : Slot, n : 1..(AreaEnd - AreaBegin), num : Numbers, old : Numbers]

\* What a thread goes on to do once it has begun.
LazyThread(t) == Access(t) \/ HandleSIGBUS(t)
LazyNext ==
    \/ \E t \in Threads :
         \/ \E c \in Calls : BeginWrite(t, c)
         \/ \E addr \in Slot \cup {Elsewhere} : BeginRead(t, addr)
         \/ Access(t)
         \/ HandleSIGBUS(t)
         \/ TrapSyscall(t)
    \/ \E sig \in ProgramSignals : sigaction(sig)

LazySpec == LazyInit /\ [][LazyNext]_lvars
-----------------------------------------------------------------------------
\* What a finished operation has written to the page index stays there until
\* another operation writes it, wherever and by whomever a unit is first
\* touched: mapping a unit lazily loses nothing, memset_bigalloc writes the
\* pages it was given and no others, and its checks never fail.
IndexKept ==
    /\ dead # "abort"
    /\ \A s \in Slot :
          \/ pageindex[s] = recorded[s]
          \/ \E t \in Threads : lock = t /\ s \in Within(call[t]) /\ pageindex[s] = call[t].num

\* The death of the process that is not liballocs's doing: a SIGBUS of the
\* program's own, be it seen at once or met while that thread waits.
ProgramsOwnEnd ==
    \/ dead = "program"
    \/ dead = "index" /\ \E t \in Threads : todo[t] # <<>> /\ Head(todo[t]).at = Elsewhere

\* A thread that has begun to read or write the index finishes, though every
\* unit it meets may fault: a fault is resumed from only once the unit it is
\* about has been mapped.  The process is never ended by a signal that liballocs
\* itself provokes (the SIGBUS of the index, the SIGILL of a system call that is
\* trapped), whatever handlers the program asks for.
AccessesFinish ==
    \A t \in Threads : todo[t] # <<>> ~> todo[t] = <<>> \/ ProgramsOwnEnd
=============================================================================
