SPECIFICATION WalkSpec
CONSTANTS
    NBlocks = 5
    NPin = 1
    NSlot = 2
    AsyncCfg = TRUE
    MaxGets = 12
    NBound = 4
    Backend = "k3"
    Retry = FALSE
INVARIANTS
    SlotExclusive
CHECK_DEADLOCK FALSE
