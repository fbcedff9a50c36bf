------------------------------- MODULE MCMmap -------------------------------
(***************************************************************************)
(* Three instances of Mmap in one run, by kind: pages with two protections *)
(* and sequences of two entries; the same with two callers instead; and,   *)
(* where wide, one page and one length more and sequences of three         *)
(* entries, for holes in the middle of one.                                *)
(***************************************************************************)
EXTENDS Mmap
CONSTANTS o1, o2

VARIABLE kind
Called == INSTANCE Mmap WITH Prots <- {"rw"}, Callers <- {o1, o2}
Wide == INSTANCE Mmap WITH NPages <- 4, MaxLen <- 3, Lengths <- {2, 3, 6}, Prots <- {"rw"}

AllInit ==
    \/ kind = "prots" /\ Init
    \/ kind = "callers" /\ Called!Init
    \/ kind = "wide" /\ Wide!Init
AllNext ==
    /\ UNCHANGED kind
    /\ \/ kind = "prots" /\ Next
       \/ kind = "callers" /\ Called!Next
       \/ kind = "wide" /\ Wide!Next
AllSpec == AllInit /\ [][AllNext]_<<kind, vars>>

\* Every mapping sequence passes check_mapping_sequence_sanity and has the bounds
\* of its big allocation, after any notifications of mmap, munmap and mremap.
RecordSane == IF kind = "wide" THEN Wide!SequencesSane ELSE SequencesSane

=============================================================================
