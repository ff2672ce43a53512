SPECIFICATION Spec
CONSTANTS
    d1 = d1
    d2 = d2
    d3 = d3
    subA = subA
    subB = subB
    NoSub = NoSub
    Deliveries = {d1, d2, d3}
    Events <- PlanEvents
    Kind <- PlanKinds
    SubOf <- PlanSubs
    MaxConcurrent = 2
SYMMETRY Symmetry
INVARIANTS AppliedAtMostOnce PlansAgree NoChangeFromCache

CHECK_DEADLOCK FALSE
