SPECIFICATION ASSpec
CONSTANTS
  PageSize = 2
  AddrLimit = 16
  NBigallocs = 13
  Allocators = {"mmap", "brk", "file", "segment", "section", "auxv", "stack"}
  NoAllocator = "none"
  Threads = {1, 2}
  Main = 1
  MaxEntries = 2
  Contracts = {"brk_serialised", "early_break_aligned", "never_emptied", "sequence_room", "early_nearby", "asciiz_within", "one_load_per_name", "loads_serialised", "data_segment_last"}
  Layouts <- MCLayouts
  Images <- MCImages
  argcountp = 15
  asciiz_end = 15
  SaneDelta = 6
INVARIANTS
  CallsWithinContract
  BrkAgrees
  MissesResolved
  FilesRecorded
PROPERTY
  BreakCatchesUp
