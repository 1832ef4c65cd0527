CONSTANTS
    NKeys = 4
    NSlot = 2
    Refused = {3}
    MaxBatch = 2
    MaxCount = 4
    MaxCalls = 2
    MaxTopk = 3
    Batches <- MCBatches
    Steps <- MCSteps
SPECIFICATION EitherSpec
INVARIANTS
    IndexTruth
    ReadsDisjoint
    FetchOnce
    ExactOrCounted
PROPERTY PinnedStay
