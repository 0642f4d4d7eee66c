CONSTANTS
    NEndpoints = 3
    Concurrency = 2
    Failed = Failed
    Chains <- MCChains
SPECIFICATION FairSpec
INVARIANTS
    TypeOK
    NothingLost
PROPERTY Returns
\* Collect returns: nothing is enabled after that.
CHECK_DEADLOCK FALSE
