SPECIFICATION ServiceSpec
CONSTANTS
    Threads = {t1, t2, t3}
    Ids = {a, b, c}
    Boxes <- MCBoxes
    Batches <- MCBatches
    Rooms = {1, 3}
    MaxObjects = 2
    MaxQueries = 2
    MaxHits = 2
INVARIANTS
    QuiescedIsIdle
    RefusalsAreTrue
    AnswersMatchIndex
PROPERTIES
    CloseEnds
