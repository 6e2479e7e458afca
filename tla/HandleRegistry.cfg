SPECIFICATION Spec
CONSTANTS
    Capacity = 2
    MaxGeneration = 3
    Payloads = {p1, p2}
    NoPayload = noPayload
    Home = home
    Elsewhere = elsewhere
    Threads = {t1, t2}
    NoHandle = noHandle
SYMMETRY Symmetry
INVARIANTS
    SlotsAccounted
PROPERTIES
    ImplementsSpace
