CONSTANTS
    ada = ada
    ben = ben
    AutoApproveMax = 4
    ConfidenceThreshold = 75
    NoAmount = NoAmount
    None = None
    Torn = Torn
    PolicyOf <- MCPolicyOf
    ClaimTables <- MCClaimTables
    MismatchClaims <- MCMismatchClaims
    MismatchIds <- MCMismatchIds
    LiveIds = {5}
    LastId = 5
    LiveClaims <- MCLiveClaims
    SampleSizes = {2}
    MaxTruths = 1
    Confidences = {60, 90}
SPECIFICATION Spec
INVARIANTS
    TypeOK
    ReferencesHold
    SampleSpansOutcomes
    TruthStands
PROPERTIES
    AuditedClaimsSurvive
    ReseedingIsAtomic
