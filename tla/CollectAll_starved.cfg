CONSTANTS
    NSources = 9
    Concurrency = 8
    NoAnswer = NoAnswer
    Item <- MCItem
    Readings <- PlainReadings
SPECIFICATION Spec
INVARIANT DeadlineIsNotABudget
\* CollectAll returns: nothing is enabled after that.
CHECK_DEADLOCK FALSE
