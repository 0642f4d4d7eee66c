CONSTANTS
    MaxRequests = 3
    MaxSaves = 1
    None = None
SPECIFICATION Spec
INVARIANT OneProcess
\* The requests and saves are bounded: the plugin ends up idle.
CHECK_DEADLOCK FALSE
