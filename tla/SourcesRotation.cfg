\* One file source whose file is moved away and replaced, by one that it may or may
\* not open.
SPECIFICATION Spec
CONSTANTS
    Kinds = {"file"}
    Datagrams = {}
    Exported = {}
    TemplateLimit = 1
    MaxRuns <- RunsOf
    MaxUnits = 2
    MaxFiles = 2
    MaxTruncates = 1
    MaxReceived <- ReceivedOf
INVARIANTS
    NoPanic
\* Everything may have ended, or the process may be gone.
CHECK_DEADLOCK FALSE
