CONSTANTS
    MaxBackends = 3
    HdrFixed = 4
    HdrFirst = 12
    HdrMax = 72
    DefaultAlign = 4
    FragMax = 5
    Cap = 14
    ImStart <- MCImStart
    ImEnd <- MCImEnd
    Role <- MCRole
    NewlineText <- MCNewline
    NoThink <- MCNoThink
    Files <- MCFiles
    Extras <- MCExtras
    Tokenizers <- MCTokenizers
    Options <- MCOptions
SPECIFICATION FrontSpec
INVARIANTS
    ProbeBest
    
    EncodeExact
CHECK_DEADLOCK FALSE
