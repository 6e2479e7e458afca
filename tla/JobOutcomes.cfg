SPECIFICATION OutcomesSpec
CONSTANTS
    Callers = {t1, t2}
    MaxCells = 3
    Capacity = 2
INVARIANT
    OutcomesOnce
PROPERTIES
    CellsImplementLifecycle
    CancelReturns
\* When every job is published and released there is nothing left to do.
CHECK_DEADLOCK FALSE
