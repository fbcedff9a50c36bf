SPECIFICATION FramesSpec
CONSTANTS
    StackBase = 36
    ALLOCA_ALIGN = 2
    WordBits = 2
    HeaderSize = 1
    TrailerSize = 1
    AllocaSizes = {0, 1, 4}
    MaxFrames = 3
    MaxAllocas = 3
    FrameContracts = {"no_longjmp"}
    WordSize = 2
    Programs <- MCPrograms
    MaxAddress = 16
    Rooms = {2, 4}
    MaxDepth = 3
    MainBp = 13
    NoFile = 99
    StackContracts = {"frame_pointers", "no_gaps", "returns_to_same_layout", "highest_ends_last", "args_reserved", "unwindable"}
    Sequences_ <- MCSequences
    Families <- MCFamilies
    SeqWordBits = 2
    SizeMod = 4
    PackedContracts = {"has_vector", "in_objects", "whole_walks", "plain_walks", "sizes_fit"}
    Slots = 3
    Limit = 3
    Periods = {2}
    Places <- MCPlaces
    Mappings <- MCMappings
    Threads = {t1}
    CacheContracts = {"one_thread", "unmap_uncached", "arena_uncached"}
INVARIANTS
    AllocasFound
    LocalsFound
    
    HitsAreTrue
PROPERTY
    ImplementsRecentRanges
CHECK_DEADLOCK FALSE
