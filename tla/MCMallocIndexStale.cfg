SPECIFICATION Spec
CONSTANTS
  Begin = 2
  End = 10
  MallocAlign = 2
  WordBits = 2
  InsertSize = 1
  Threshold = 3
  Sizes = {0, 1, 3}
  Slack = {0, 1}
  Threads = {t1, t2}
  None = None
  Regimes <- MCRegimes
SYMMETRY Interchangeable
\* A realloc of a promoted chunk waits for room: the contract rules its failure out.
CHECK_DEADLOCK FALSE
INVARIANT FoundHasInsert
