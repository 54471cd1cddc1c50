\* A dead and a healthy target, one worker.
SPECIFICATION FairSpec
CONSTANTS
    Targets = {t1, t2}
    NoTarget = NoTarget
    SweepSlots = {s1}
    RequestSlots = {r1}
    Loop = Loop
    Workers = 1
    RetryBase = 1
    RetryMax = 1
    MaxFailures = 1
PROPERTIES
    ScannedForever
    RemovedGoesQuiet
    StopEnds
\* Nothing happens after Stop.
CHECK_DEADLOCK FALSE
