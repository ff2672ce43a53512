SPECIFICATION Spec
CONSTANTS
    Users = {u1, u2}
    Requests = {r1, r2}
    MaxVersion = 1
SYMMETRY Symmetry
INVARIANTS TenantComplete AccessFollowsCommit UnpaidIsDisabled

CHECK_DEADLOCK FALSE
