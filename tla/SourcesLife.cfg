\* A source of each kind, saved twice; files that grow, rotate and are truncated;
\* datagrams in any order.
SPECIFICATION FairSpec
CONSTANTS
    Kinds = {"file", "command", "netflow", "syslog"}
    Datagrams <- AllDatagrams
    Exported <- AllExported
    TemplateLimit = 1
    MaxRuns <- RunsOf
    MaxUnits = 4
    MaxFiles = 2
    MaxTruncates = 1
    MaxReceived <- ReceivedOf
INVARIANTS
    OneLiveRun TailFaithful FlowsReal
PROPERTIES
    CancelledEnds FollowsRotation
\* Everything may have ended, or the process may be gone.
CHECK_DEADLOCK FALSE
