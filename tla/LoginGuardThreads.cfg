SPECIFICATION FairSpec
CONSTANTS
    IP = { a }
    Watched = a
    Thread = { t1, t2 }
    MaxRequests = 1
    Window = 2
    BackoffBase = 2
    MaxBlock = 3
    MaxExponent = 1
    MaxNow = 3
INVARIANTS
    TypeOK
    PenaltyCoherent
    ChecksArePaidFor
    AnsweredAfterAudit
PROPERTIES
    WindowIsSliding
    PenaltyFreezesClient
    EveryLoginAnswered
