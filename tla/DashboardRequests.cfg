\* Two requests at a time, four in all, over two days.
SPECIFICATION Spec
CONSTANTS
    Requests = {r1, r2}
    Names = {a, b, c}
    Keys <- SomeKeys
    Values <- SomeValues
    FindingsStored <- SomeFindings
    Replies <- SomeReplies
    Issuer = TRUE
    FreeCap = 1
    ProCap = 2
    FloorCap = 2
    Keyed = TRUE
    LicenseFile = TRUE
    MaxKeys = 2
    MaxText = 2
    MaxList = 2
    MaxDepth = 2
    MaxRetries = 1
    MaxServed = 4
    MaxTime = 1
SYMMETRY Symmetric
INVARIANTS TierEarned LicenceSurvives CapOvershoot RestartRemembers ExplainedRightly
\* All the requests there are may have been answered.
CHECK_DEADLOCK FALSE
