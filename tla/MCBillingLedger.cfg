SPECIFICATION LedgerSpec
CONSTANTS
    s1 = s1
    s2 = s2
    j1 = j1
    Sessions = {s1, s2}
    Jobs = {j1}
    Costs = {2}
    Quota = 5
    MaxPerJob = 3
    DailyLimit = 3
    MaxVersion = 2
    Reasons = {"auto_compensate"}
    MaxPeriods = 1
SYMMETRY Symmetry
INVARIANTS ChargedAtMostOnce
PROPERTIES ImplementsCharging ReservationSound

CHECK_DEADLOCK FALSE
