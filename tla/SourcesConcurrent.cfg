\* A syslog source: a datagram arrives while a line of a connection is handled.
SPECIFICATION Spec
CONSTANTS
    Kinds = {"syslog"}
    Datagrams <- AllDatagrams
    Exported <- AllExported
    TemplateLimit = 1
    MaxRuns <- RunsOf
    MaxUnits = 0
    MaxFiles = 0
    MaxTruncates = 0
    MaxReceived <- TwoReceived
INVARIANT HandlerSerial
\* Everything may have ended.
CHECK_DEADLOCK FALSE
