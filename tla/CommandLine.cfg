SPECIFICATION CommandLineSpec
CONSTANTS
    Process = { p1, p2 }
    Owner = { alice }
    Site = { bank }
    Secret = { pw1, pw2 }
    Other = { note }
    Delay = 1
    MaxRows = 2
    MaxNow = 2
    User = { ann, bob }
    Terminal = { t1, t2 }
    MaxKeygens = 3
    MaxSends = 2
    MaxDamages = 1
SYMMETRY MessengerSymmetry
INVARIANTS
    SameAnswer
    GoneAfterDelay
    ShownWasSent
    IntactIsShown
PROPERTIES
    ClearsOnlyOwn
CHECK_DEADLOCK FALSE
