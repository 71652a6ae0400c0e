CONSTANTS
    AutoApproveMax = 4
    ConfidenceThreshold = 75
    NoAmount = NoAmount
    Policies <- MCPolicies
    ClaimCosts <- MCClaimCosts
    Confidences <- MCConfidences
SPECIFICATION Spec
INVARIANTS
    TypeOK
    PaidWithinContract
    UncoveredDamageIsInert
    MoreDamageNeverPaysLess
    LiveDivergesOnlyAsAccepted
    EngineErrsOnlyByCaution
    RightAmountIsNoHallucination
PROPERTIES
    MoneyIsNotModelDependent
