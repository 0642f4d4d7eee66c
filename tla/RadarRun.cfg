CONSTANTS
    Configs <- MCConfigs
    Options <- MCOptions
    Answers <- MCAnswers
    AWS = "aws"
    None = None
SPECIFICATION Spec
INVARIANTS
    TypeOK
    NothingLost
    ZeroIsClean
    FailuresWarned
    RankedStably
    WorstNamed
    ConsequenceFirst
CONSTRAINT PairsPlainly
\* The command exits, or is killed: nothing is enabled after that.
CHECK_DEADLOCK FALSE
