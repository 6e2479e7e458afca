SPECIFICATION ServicesSpec
CONSTANTS
    Callers = {t1, t2}
    Capacity = 1
    MaxGeneration = 3
    Payloads = {p1, p2}
    NoPayload = noPayload
    Home = home
    Elsewhere = elsewhere
    RecordCapacity = 2
    MaxRecords = 3
SYMMETRY Symmetry
\* Once everything is destroyed no call is admitted any more.
CHECK_DEADLOCK FALSE
INVARIANTS
    LeasesAreRightful
    LateEffectsBounded
    RecordsAccounted
