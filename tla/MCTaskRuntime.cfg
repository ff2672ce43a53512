SPECIFICATION Spec
CONSTANTS
    w1 = w1
    w2 = w2
    Workers = {w1, w2}
    m1 = m1
    m2 = m2
    m3 = m3
    Messages = {m1, m2, m3}
    a1 = a1
    a2 = a2
    Admins = {a1, a2}
    r1 = r1
    r2 = r2
    Rows = {r1, r2}
    NoWorker = NoWorker
    Kinds <- AllKinds
    MaxRetries = 1
    GuardLimit = 1
    PoisonLimit = 1
    MaxReplays = 2
    MaxFaults = 2
    MaxOutages = 1
SYMMETRY Symmetry
INVARIANTS BeatExclusive PurgedInTime StormsBounded CountedMeansSent
CHECK_DEADLOCK FALSE
