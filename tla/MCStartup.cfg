SPECIFICATION StartupSpec
CONSTANTS
    Unit = 2
    NUnits = 2
    Threads = {t1, t2}
    Numbers = {0, 1, 2}
    BiggestRun = 3
    LazyContracts = {"faults_serialised", "still_faults", "handler_kept", "sane_sizes"}
    MaxLen = 3
    NoFile = "none"
    NoCaller = "none"
    NPages = 5
    BiggestSane = 3
    ScanContracts = {"holes_empty", "segments_apart", "sequence_room", "classifiable", "heap_unmerged", "nothing_follows_heap", "heap_outside_files", "sane_lines"}
    Mappings = {m1, m2}
    MaxDepth = 4
    OrderContracts = {"quiet_between", "known_code", "sane_lengths", "no_early_query"}
INVARIANTS
    IndexKept
    StartRecorded
    StagesInOrder
    ToldOnce
PROPERTIES
    AccessesFinish
    StartupFinishes
CHECK_DEADLOCK FALSE
