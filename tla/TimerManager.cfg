SPECIFICATION Spec
CONSTANTS
    Ids = {s1, s2}
    Kinds = {world}
    Dispatches = {d1}
    Intervals = {1,2}
    MaxTick = 2
    MaxSequence = 3
    MaxGeneration = 3
    MaxActive = 2
    MaxSchedules = 2
    Depth = 2
    MaxScopes = 2
    MaxSlots = 2
    MaxTimers = 2
    MaxPending = 3
    MaxFirings = 3
    NoTimer = noTimer
    NoDispatch = noDispatch
SYMMETRY Symmetry
INVARIANTS
    BooksBalance
    HandlesNameTheirTimer
    ValidEntriesDeliver
PROPERTIES
    ImplementsContract
