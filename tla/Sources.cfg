SPECIFICATION MCSpec
CONSTANTS
    Programs <- AllPrograms
    MaxPages = 2
    PageSize = 1
    NParents = 2
    MaxSurprises = 2
    AWSPage = 1
    Keys <- TwoKeys
    CAs = {c1, c2}
    Clusters <- SmallClusters
    MaxDenied = 2
    Configured <- ThreeDomains
    TLDs = {"com", "it", "none"}
INVARIANTS
    NeverSilent DenialIsLocal TokenLive VerdictIsEvidence
    MissingWasLookedFor CertificateOnce NeverFalselyCalm AnchorsMerged
    EveryDomainAnswered
CHECK_DEADLOCK FALSE
