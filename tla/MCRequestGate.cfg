SPECIFICATION Spec
CONSTANTS
    q1 = q1
    q2 = q2
    r1 = r1
    r2 = r2
    Requests = {q1, q2}
    Replicas = {r1, r2}
    Keys = {"k1"}
    ErrorThreshold = 2
    MaxFaults = 2
INVARIANTS RepeatedAfterRollback DrainIsClean
PROPERTIES CircuitCloses ReadyRecovers
CHECK_DEADLOCK FALSE
