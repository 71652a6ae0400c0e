CONSTANTS
    Verdicts <- MCVerdicts
    NoClaim = NoClaim
    Reviewers = {ann, bob}
    Decisions = {approved, denied}
    NoDecision = NoDecision
    QueueLimit = 2
    MaxRows = 3
SPECIFICATION Spec
INVARIANTS
    TypeOK
    DecisionsStand
PROPERTIES
    AuditSpec
