SPECIFICATION OwnersSpec
CONSTANTS
    Threads = {t1, t2, t3}
    Limit = 3
    Sizes = {0, 1, 2, 3}
    MaxU64 = 4
    Owner = t1
    Capacity = 2
    MaxGeneration = 2
    Payloads = {1, 2}
    NoPayload = noPayload
    Home = home
    Elsewhere = elsewhere
SYMMETRY Symmetry
INVARIANTS
    OwnersCharged
PROPERTIES
    ImplementsLedger
