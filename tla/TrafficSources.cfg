\* Two sources and the flusher, three edges, a failing transaction or a crash.
SPECIFICATION Spec
CONSTANTS
    k1 = k1
    k2 = k2
    k3 = k3
    Keys = {k1, k2, k3}
    Edge <- EdgeOf
    Observers = {o1, o2}
    Flushers = {f1}
    Limit = 0
    MaxTime = 2
    MaxFlows = 4
    MaxFaults = 1
    Private = {"h"}
    Net <- NetOf
    MaxExternals = 1
SYMMETRY Symmetric
INVARIANTS Conserved LastIsLatest BufferBounded MapFaithful
\* MaxFlows ends every behaviour.
CHECK_DEADLOCK FALSE
