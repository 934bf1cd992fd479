SPECIFICATION Spec
CONSTANTS
    User = { alice }
    Role = { user, admin }
    Thread = { t1, t2 }
    AccessTTL = 1
    RefreshTTL = 3
    MaxPairs = 3
    MaxLogins = 1
    MaxNow = 3
    MaxRestarts = 1
INVARIANTS
    SingleUse
