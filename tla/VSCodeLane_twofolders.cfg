CONSTANTS
    Folders = {f1, f2}
    MaxJobs = 2
    MaxSaves = 1
    None = None
SPECIFICATION FairSpec
PROPERTY SavesCollected
\* The jobs and saves are bounded: the extension ends up idle.
CHECK_DEADLOCK FALSE
