CONSTANTS
    States = {1, 2, 3}
    NoState = 0
    Guards = {g}
    NoGuard = NoGuard
    NoScope = NoScope
    MaxDepth = 3
    MaxTransitions = 2
    MaxActionsPerPlan = 9
    MaxCounter = 5
    MaxEpoch = 2
    ShortLength = 1
    LongLength = 2
    ExitCounts = {1, 2}
    Definitions <- MCDefinitions
    MaxBatch = 3
    NoSnapshot = NoSnapshot
SPECIFICATION Spec
INVARIANTS
    SnapshotsStayLegal
    PlansExplainTheStep
    PlansFitTheBound
    StaleIsRefused
    BatchIsItemwise
\* A machine whose counters are used up in its last epoch is refused everything.
CHECK_DEADLOCK FALSE
