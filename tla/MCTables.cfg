SPECIFICATION TablesSpec
CONSTANTS
    ObjectFiles <- MCObjectFiles
    SymbolContracts = {"extrasyms_in_sync", "rela_sections", "distances_known", "sections_adjoin", "not_past_end", "reloc_sizes_unasked", "names_unasked"}
    ShortcutUnit = 4
    BitmapUnit = 4
    UnsignedUnit = 2
    Sentinel = 7
    Bases = {6, 8}
    RangeSize = 16
    RawInputs <- MCRawInputs
    VecContracts = {"base_aligned", "distinct", "entry_above", "first_unasked"}
    ObjectTypes <- MCObjectTypes
    AllocSize = 8
    SubobjectContracts = {"outside_padding", "no_partial_overlap", "first_elements", "offsets_unasked", "even_alternatives"}
    Programs <- MCPrograms
    PredefinedTypes <- MCPredefined
    TypeThreads = {t1, t2}
    MaxCreated = 2
    ArrayLengths = {0, 3}
    PointerSize = 2
    SizeRange = 8
    MaxWords = 6
    TypeContracts = {"types_serialised", "names_tell", "one_unbounded_kind", "products_fit", "union_parts_tell", "pointers_complete", "names_fit"}
    Heaps <- MCHeaps
    TypeNamed <- MCTypeNamed
    IntRange = 64
    WalkContracts = {"addresses_close", "arrays_outermost", "typed_roots", "no_minus_one", "static_types_agree"}
    Trees <- MCTrees
    Top = 1
    DescentContracts = {"imposed_unasked", "have_suballocator", "promoted_typed"}
INVARIANTS
    StaticsFound
    
    SubobjectsExact
    TypesUnique
    
    WalkIsPreorder
CHECK_DEADLOCK FALSE
