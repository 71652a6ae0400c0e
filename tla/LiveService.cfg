CONSTANTS
    AutoApproveMax = 4
    ConfidenceThreshold = 75
    NoAmount = NoAmount
    Requests = {r1, r2}
    NoRequest = NoRequest
    NoClaim = NoClaim
    Policies <- MCPolicies
    NoPolicy = NoPolicy
    DamageCosts <- MCDamageCosts
    Confidences <- MCConfidences
    MaxCrashes = 1
    Reviewers = {ann}
    Decisions = {approved}
    NoDecision = NoDecision
    QueueLimit = 100
SPECIFICATION FairSpec
INVARIANTS
    TypeOK
    LogCanBeRecomputed
    AnswersMatchTheLog
PROPERTIES
    AuditSpec
    RequestsEnd
