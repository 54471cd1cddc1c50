\* Every writer at once on one finding: two overlapping scans, Path A, an operator, and a fault or a crash.
SPECIFICATION Spec
CONSTANTS
    src1 = src1
    Sources = {src1}
    Fps = {fp1}
    SourceOf <- OneSource
    CoverageFps = {}
    Ids = {i1, i2}
    NoId = NoId
    Scanners = {s1, s2}
    Writers = {w1}
    Users = {u1}
    ConsoleOps = {}
    Window = 0
    Skew = 0
    ResolveAfter = 1
    MaxFaults = 1
SYMMETRY Symmetric
INVARIANTS TypeOK ResolvedStamped NoSilentOpen
PROPERTIES BornOpen IdentityStable
