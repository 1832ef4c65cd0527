CONSTANTS
    Tok = {1, 2}
    Garbage = 0
    Nets <- MCNets
    Greedy <- MCGreedy
    Archs = {1, 2}
    Prompts <- MCPrompts
    Gens = {0, 4}
    Options <- MCOptions
    MaxRuns = 2
    NetLen = 4
SPECIFICATION FairSpec
CHECK_DEADLOCK FALSE
INVARIANTS
    CarriesHistory
    DraftInStep
    FreshZeroIsExact
PROPERTIES
    RunEnds
    ImplementsChat
