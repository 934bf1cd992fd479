SPECIFICATION WorkersSpec
CONSTANTS
    Key = { k1, k2 }
    One = 3
    Capacity = 7
    Rate = 2
    MaxNow = 4
    Thread = { t1, t2 }
    MaxRequests = 2
    Window = 2
    Request = { c1, c2, c3 }
    Payload <- Payloads
    MaxFaults = 1
    Call = { c1, c2, c3 }
    Identifier = { alice, bob }
    Secret = { 3, 5 }
    Random = { 0, 7 }
    SafePrime = { 23, 47 }
    MaxCrashes = 1
SYMMETRY CallerSymmetry
INVARIANTS
    OffByThreadsOnly
    OutcomeTold
    KnowledgeIsVerified
PROPERTIES
    KeepsAllowance
CHECK_DEADLOCK FALSE
