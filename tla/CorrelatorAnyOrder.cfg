\* Two actors; timestamps in any order.
SPECIFICATION Spec
CONSTANTS
    Actors = {a1, a2}
    MaxTime = 6
    Window = 2
    Cool = 3
    Refire = 1
    Late = 6
    MaxObs = 4
SYMMETRY Symmetric
INVARIANTS IncidentsApart EvidenceOnce MembersReal NoMissedLogin
\* MaxObs ends every behaviour.
CHECK_DEADLOCK FALSE
