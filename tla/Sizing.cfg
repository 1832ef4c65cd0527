SPECIFICATION Spec
CONSTANTS
    Align = 4
    NBlocks = 4
    Sizes = {1, 6, 12, 13}
    Extras = {0, 4}
    RingWants = {1, 2, 3}
    Offsets = {0, 3}
    Budgets <- MCBudgets
INVARIANTS
    WithinBudget
    
    

    
CHECK_DEADLOCK FALSE
