\* Overlapping sweeps, AddTarget, ScanNow and Stop compete for two workers; two targets that fail or not.
SPECIFICATION Spec
CONSTANTS
    Targets = {t1, t2}
    NoTarget = NoTarget
    SweepSlots = {s1, s2}
    RequestSlots = {r1}
    Loop = Loop
    Workers = 2
    RetryBase = 1
    RetryMax = 2
    MaxFailures = 2
SYMMETRY Symmetric
INVARIANTS
    WorkersBounded
PROPERTIES
    WaitedFor
    WaitBounded
\* Nothing happens after Stop.
CHECK_DEADLOCK FALSE
