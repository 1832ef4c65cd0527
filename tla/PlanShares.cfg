CONSTANTS
    Align = 2
    ReserveFloor = 12
    KeepFloor = 16
    DefaultContext = 6
    Wants = {0, 2, 9}
    Layers = {4}
    Machines <- MCMachines
    Models <- MCModels
    Requests <- MCRequests
SPECIFICATION PlanSpec
CHECK_DEADLOCK FALSE
INVARIANTS ContextMaximal MoreMemoryHelps RunWithinPlan 
