SPECIFICATION Spec
CONSTANTS
    Hosts = {h1, h2}
    Workers = {w1, w2}
    Owner = owner
    Closer = closer
    NoThread = noThread
    MaxJobs = 2
    Configs <- MCConfigs
    ByteLimit = 2
    Sizes = {1, 2}
SYMMETRY Symmetry
INVARIANTS
    TypeInv
    LedgerExact
    SchedulerConsistent
    LeaseHeld
    AnnouncedOnce
    QuiescedIsFinal
    SubmissionFencesClose
PROPERTIES
    ImplementsLifecycle
\* After destroy, with all jobs submitted and reaped, nothing is left to do.
CHECK_DEADLOCK FALSE
