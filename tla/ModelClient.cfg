CONSTANTS
    monolith = monolith
    judge = judge
    Clients = {monolith, judge}
    Salvaging = {monolith}
    MaxAttempts <- MCMaxAttempts
    RateBackoff = 1
    ReplyBackoff = 0
    Window = 3
SPECIFICATION FairClientSpec
INVARIANTS
    ClientTypeOK
    GivesUpOnlyOnBadCompletions
PROPERTIES
    CallSpec
