SPECIFICATION HeapsSpec
CONSTANTS
    Programs <- MCPrograms
    CodeLimit <- MCCodeLimit
    BufLimit <- MCBufLimit
    PageSize = 16
    PatchContracts = {"room_at_entry", "within_page", "no_incoming"}
    Word = 2
    InsertSize = 2
    Requests = {0, 1, 3}
    Regions <- MCRegions
    LdSoFile <- MCLdSoFile
    IntRange = 32
    MAX_LINEAR_MALLOCS = 3
    HeapContracts = {"nonzero", "arenas_near", "arena_not_extended", "records_fit", "realloc_succeeds"}
    Callers = {t1, t2}
    heap_base = 12
    heap_limit = 28
    AddressMod = 32
    PRIVATE_MALLOC_ALIGN = 2
    WordBits = 4
    InsertBytes = 2
    Sizes = {0, 2, 4, 10}
    PrivateContracts = {"serialised", "realloc_succeeds", "no_posix_memalign"}
    Sites = {1, 2}
    Amounts = {1, 3}
    Granule = 2
    MaxDepth = 3
    WrapperContracts = {"returns_normally", "passes_size", "sized_then_wrapped"}
    ChunkSize = 6
    MaxPitch = 8
    MinBuckets = 2
    SmallContracts = {"spare_layer"}
    a = a
    b = b
    Files = {a, b}
    Counts = {0, 1, 3}
    IndexSize = 4
    IdLimit = 8
    MaxLoads = 3
    NoFile = NoFile
    SiteContracts = {"slots_left", "ids_left", "nonempty"}
    Types <- MCTypes
    VectorType <- MCVectorType
    Places = {1, 2}
    NoType = NoType
    Queries = {q1, q2}
    NotReading <- MCNotReading
    InsertContracts = {"types_high", "sites_listed", "set_alone", "queried_in_time"}
INVARIANTS
    
    LinearIndexExact
    PrivateIndexExact
    OutermostWrapperCounts
    
    TypeKept
    SiteKept
PROPERTY
    ImplementsObjects
CHECK_DEADLOCK FALSE
