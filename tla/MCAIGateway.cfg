SPECIFICATION Spec
CONSTANTS
    j1 = j1
    j2 = j2
    w1 = w1
    w2 = w2
    Jobs = {j1, j2}
    Workers = {w1, w2}
    Media <- MCMedia
    MaxConcurrent <- MCMax
    PlanLimit = 2
    DefaultLimit = 1
    MaxRetries = 1
    MaxFaults = 1
SYMMETRY MCSymmetry
INVARIANTS LimiterBacked LimiterHeals SlotsBacked
CHECK_DEADLOCK FALSE
