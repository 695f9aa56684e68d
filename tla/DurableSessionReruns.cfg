SPECIFICATION Spec
CONSTANTS
    p1 = p1
    p2 = p2
    w1 = w1
    w2 = w2
    s1 = s1
    s2 = s2
    None = None
    Ids <- MCIds
    Procs <- MCProcs
    Slots <- MCSlots
    Budgets <- MCBudgets
    MaxHarnessStops = 1
    MaxCancelStops = 1
    MaxCutoffs = 1
PROPERTIES EndedStaysEnded
CHECK_DEADLOCK FALSE
