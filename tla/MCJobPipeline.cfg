SPECIFICATION FairSpec
CONSTANTS
    d1 = d1
    d2 = d2
    Deliveries = {d1, d2}
    MaxRetries = 1
    MaxFaults = 3
INVARIANT OutputBacksCharge
PROPERTY MessagesSettle

CHECK_DEADLOCK FALSE
