CONSTANTS
    AutoApproveMax = 4
    ConfidenceThreshold = 75
    NoAmount = NoAmount
    Policies <- MCPolicies
    NoPolicy = NoPolicy
    RowCosts <- MCRowCosts
    InstanceCosts <- MCInstanceCosts
    Confidences <- MCConfidences
    MaxInstances = 2
SPECIFICATION Spec
INVARIANT
    NoDamageGuardsOnlyApproval
CHECK_DEADLOCK FALSE
