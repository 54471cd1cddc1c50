\* Four kinds of feed, every detector, events up to one second late.
SPECIFICATION Spec
CONSTANTS
    Feeds <- AllFeeds
    Internal = {"in1"}
    BruteFailures = 2
    BruteWindow = 2
    ScanPorts = 2
    ScanWindow = 1
    ExfilBytes = 6
    ExfilFactor = 3
    ExfilWindow = 2
    SpikeMin = 3
    SpikeWindow = 2
    BeaconMin = 2
    BeaconMinGap = 2
    BeaconMaxGap = 3
    BeaconMaxCV = 50
    NewServiceLearn = 2
    MaxPorts = 2
    Cooldown = 2
    Late = 1
    MaxTime = 4
    MaxEvents = 5
INVARIANTS
    AlarmsReal NoMissedBrute AlarmsApart NewServiceNoticed
\* MaxEvents ends every behaviour.
CHECK_DEADLOCK FALSE
