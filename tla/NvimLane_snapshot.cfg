CONSTANTS
    MaxRequests = 2
    MaxSaves = 1
    None = None
SPECIFICATION Spec
INVARIANT SnapshotCompleted
\* The requests and saves are bounded: the plugin ends up idle.
CHECK_DEADLOCK FALSE
