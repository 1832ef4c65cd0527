CONSTANTS
    Align = 4
    MinBucket = 4
    Group = 4
    WidenChunk = 9
    ALogTake = 1
    OutGate = TRUE
    Slack = 80
    Dirs <- MCDirs
    Hashes <- MCHashes
    Experts <- MCExperts
    Size <- MCSize
    Kinds <- MCKinds
    Runs <- MCRuns
SPECIFICATION BindSpec
INVARIANTS
    FindExact
    
    ExpertWhole
    BindTruth
CHECK_DEADLOCK FALSE
