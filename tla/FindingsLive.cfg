\* Liveness of Path B for a detection and a parse-rate finding, against Path A, the console, faults and crashes.
SPECIFICATION FairSpec
CONSTANTS
    src1 = src1
    Sources = {src1}
    Fps = {fp1, fp2}
    SourceOf <- OneSource
    CoverageFps = {fp2}
    Ids = {i1}
    NoId = NoId
    Scanners = {s1}
    Writers = {w1}
    Users = {}
    ConsoleOps = {"save", "delete", "addTarget", "removeTarget"}
    Window = 1
    Skew = 1
    ResolveAfter = 1
    MaxFaults = 1
PROPERTIES Recovered QuietResolves
