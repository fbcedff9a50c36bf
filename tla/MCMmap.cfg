SPECIFICATION AllSpec
CONSTANTS
  PageSize = 2
  NPages = 3
  MaxLen = 2
  Lengths = {2, 3, 6}
  Files = {f1}
  Prots = {"none", "rw"}
  Callers = {o1}
  Contracts = {"fixed_within", "remap_free", "remap_same_size", "remap_aligned", "remap_named"}
  NoFile = NoFile
  NoCaller = NoCaller
  Unmapped = Unmapped
  o1 = o1
  o2 = o2
INVARIANTS RecordSane 
