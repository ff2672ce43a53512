SPECIFICATION FairSpec
CONSTANTS
    u1 = u1
    e1 = e1
    s1 = s1
    s2 = s2
    r1 = r1
    r2 = r2
    Uploads = {u1}
    Events = {e1}
    Starts = {s1, s2}
    Runs = {r1, r2}
    MaxRetries = 2
    MaxConcurrent = 1
    MaxReplays = 3
    MaxKills = 1
CONSTRAINT SecondAfterFailure
INVARIANTS NoRowIsStranded ReplacedIdsStayGone
PROPERTY RowsSettle
