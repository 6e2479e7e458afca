SPECIFICATION FairSpec
CONSTANTS
    Hosts = {h1}
    Workers = {w1, w2}
    Owner = owner
    Closer = closer
    NoThread = noThread
    MaxJobs = 2
    Configs <- LiveConfigs
    ByteLimit = 2
    Sizes = {1}
PROPERTIES
    SubmittedEnds
    CloseCompletes
    FailedCreateLeavesNoWorker
CHECK_DEADLOCK FALSE
