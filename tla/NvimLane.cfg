CONSTANTS
    MaxRequests = 3
    MaxSaves = 1
    None = None
SPECIFICATION FairSpec
INVARIANTS
    TypeOK
    HandleIsLive
    OneRunUntilInterrupted
PROPERTIES
    SnapshotsMoveForward
    RunsEnd
\* The requests and saves are bounded: the plugin ends up idle.
CHECK_DEADLOCK FALSE
