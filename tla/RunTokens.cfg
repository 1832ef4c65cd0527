CONSTANTS
    NLayers = 2
    Context = 4
    Tok = {1, 2}
    Mixed = Mixed
    MaxCalls = 6
    MaxApi = 6
    Nets <- MCNets
    Greedy <- MCGreedy
    Eos = 2
    Prompts <- MCPrompts
    NTok = {0, 1, 2, 4}
SPECIFICATION EitherSpec
CHECK_DEADLOCK FALSE
INVARIANTS PrintsGreedy ProducesAll LogitsOfPath
