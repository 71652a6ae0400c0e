CONSTANTS
    AutoApproveMax = 4
    ConfidenceThreshold = 75
    NoAmount = NoAmount
    MaxToolCalls = 8
    MaxReplans = 2
    RecursionLimit = 60
    Policies <- MCPolicies
    NoPolicy = NoPolicy
    RowCosts <- MCRowCosts
    DamageCosts <- MCDamageCosts
    Confidences <- MCConfidences
    NoCheck = NoCheck
SPECIFICATION FairSpec
INVARIANTS
    TypeOK
    MoneyOnlyOnCleanEvidence
    PricedFactsAreVettedFacts
    AdjudicateHasPolicy
    LimitsAreHeadroom
    HandOverIsExplained
PROPERTIES
    OnlySoftFlagsAreReinvestigated
    DecisionFairSpec
CHECK_DEADLOCK FALSE
