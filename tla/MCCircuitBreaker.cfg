SPECIFICATION FairBreakerSpec
CONSTANTS
    r1 = r1
    r2 = r2
    Replicas = {r1, r2}
    Calls <- MCCalls
    Threshold = 2
    StabilityGate = 1
    ResetGate = 2
    HalfOpenMax = 1
    BaseCooldown = 2
    MaxCooldown = 3
    MaxBreakdowns = 1
INVARIANTS TripsAtThreshold OpenKeyHasOwner
PROPERTY RecoversWithRedis

CHECK_DEADLOCK FALSE
