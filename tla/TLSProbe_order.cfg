CONSTANTS
    NEndpoints = 2
    Concurrency = 2
    Failed = Failed
    Chains <- MCChains
SPECIFICATION Spec
INVARIANT ConfiguredOrder
\* Collect returns: nothing is enabled after that.
CHECK_DEADLOCK FALSE
