SPECIFICATION EitherSpec
CONSTANTS
    NBlocks = 4
    NPin = 1
    NSlot = 2
    AsyncCfg = TRUE
    MaxGets = 16
    MaxAny = 3
    NBound = 4
    Backend = "qwen3"
    Retry = FALSE
INVARIANTS
    
    ComputesOnItsLayer
    SlotExclusive
    IndexTruth
    HitRateExact
PROPERTIES
    CallsReturn
CHECK_DEADLOCK FALSE
