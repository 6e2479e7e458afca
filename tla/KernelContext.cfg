\* Three threads, one healthy and one faulty resource, room for two registrations.
\* No symmetry: the run also checks liveness.
SPECIFICATION FairSpec
CONSTANTS
    Threads = {t1, t2, t3}
    Resources = {good, bad}
    Faulty = {bad}
    MaxHandles = 2
    ConfigDeadline = "none"
    NoThread = none
INVARIANTS
    FrozenSetIsComplete
    CallbacksInOrder
    ClosedMeansReclaimed
PROPERTIES
    FailureIsFinal
    ImplementsContract
    CloseSettles
\* A dropped context accepts no further call.
CHECK_DEADLOCK FALSE
