SPECIFICATION Spec
CONSTANTS
  Threads <- ThreeThreads
  Pages <- ThreePages
  Contracts <- Serialised
  Nobody = Nobody
  t1 = t1
  t2 = t2
  t3 = t3
  p1 = p1
  p2 = p2
  p3 = p3
SYMMETRY Interchangeable
INVARIANTS AgreesWhenTold OnlyAskedOverlaps
