SPECIFICATION RegistrySpec
CONSTANTS
    Callers = {t1, t2}
    Capacity = 2
    MaxGeneration = 3
    Payloads = {p1, p2}
    NoPayload = noPayload
    Home = home
    Elsewhere = elsewhere
SYMMETRY Symmetry
CHECK_DEADLOCK FALSE
INVARIANTS
    DestroyEmptiesArena
