CONSTANTS
    NSources = 3
    Concurrency = 2
    NoAnswer = NoAnswer
    Item <- MCItem
    Readings <- MCReadings
SPECIFICATION FairSpec
INVARIANTS
    TypeOK
    InFlightBounded
    NoEarlyMerge
    MergedInOrder
    IInv
PROPERTIES
    Implements
    Returns
\* CollectAll returns: nothing is enabled after that.
CHECK_DEADLOCK FALSE
