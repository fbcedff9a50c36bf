CONSTANTS
    PageSize = 2
    AddrLimit = 8
    NBigallocs = 4
    Allocators = {a1, a2}
    NoAllocator = NoAllocator
SPECIFICATION Spec
INVARIANTS ProperlyNested IndexDeepest LookupFindsDeepest
SYMMETRY AllocatorSymmetry
