SPECIFICATION Spec
CONSTANTS
    Machines <- MCMachines
    Shapes <- MCShapes
    Rows = 2
    Vocab = 3
    Halves <- MCHalves
    HeadTypes <- MCHeads
INVARIANTS ExactPortable RowsExact BytesExact
