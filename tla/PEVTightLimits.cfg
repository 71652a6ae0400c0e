CONSTANTS
    AutoApproveMax = 4
    ConfidenceThreshold = 75
    NoAmount = NoAmount
    MaxToolCalls = 8
    MaxReplans = 1
    RecursionLimit = 22
    Policies <- MCPolicies
    NoPolicy = NoPolicy
    RowCosts <- MCRowCosts
    DamageCosts <- MCDamageCosts
    Confidences <- MCConfidences
    NoCheck = NoCheck
SPECIFICATION Spec
INVARIANTS
    BilledFactsAreClean
CHECK_DEADLOCK FALSE
