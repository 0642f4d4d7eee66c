CONSTANTS
    Folders = {f1}
    MaxJobs = 4
    MaxSaves = 2
    None = None
SPECIFICATION FairSpec
INVARIANTS
    TypeOK
    OneLane
    LaneMoves
PROPERTIES
    SnapshotsMoveForward
    RunsEnd
    SavesCollected
\* The jobs and saves are bounded: the extension ends up idle.
CHECK_DEADLOCK FALSE
