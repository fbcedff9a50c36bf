------------------------------ MODULE MCStartup ------------------------------
(***************************************************************************)
(* TLC instance for how liballocs starts: the page index that is mapped as *)
(* it is touched, the scan of what is mapped already, and the order of the *)
(* initializers.  The parts share no state; a behaviour is about the part  *)
(* named by focus.                                                         *)
(***************************************************************************)
EXTENDS LazyIndex, StartupScan, StartupOrder

VARIABLE focus

startupVars == <<focus, lvars, svars, ovars>>

FirstImage == CHOOSE im \in Images : TRUE
Chosen(part, all, first) == IF focus = part THEN all ELSE {first}
Init ==
    /\ focus \in {"index", "scan", "order"}
    /\ image \in Chosen("scan", Images, FirstImage)
    /\ present \in Chosen("order", SUBSET Mappings, {})
    /\ LazyInit /\ ScanInit /\ OrderInit

IndexPart(A) == focus = "index" /\ A /\ UNCHANGED <<focus, svars, ovars>>
OrderPart(A) == focus = "order" /\ A /\ UNCHANGED <<focus, lvars, svars>>
Next ==
    \/ IndexPart(LazyNext)
    \/ focus = "scan" /\ ScanNext /\ UNCHANGED <<focus, lvars, ovars>>
    \/ OrderPart(OrderNext)

\* A thread that has begun to access the index is scheduled until it is done,
\* and the kernel delivers its signal: the code waits for nothing meanwhile.
\* The thread that loads liballocs goes on through its constructors.
Fairness ==
    /\ \A t \in Threads : WF_startupVars(IndexPart(LazyThread(t)))
    /\ WF_startupVars(OrderPart(StartStep))

StartupSpec == Init /\ [][Next]_startupVars /\ Fairness
=============================================================================
