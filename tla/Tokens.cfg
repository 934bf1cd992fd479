SPECIFICATION Spec
SYMMETRY RequestSymmetry
CONSTANTS
    User = { alice }
    Role = { user, admin }
    Thread = { t1, t2 }
    AccessTTL = 1
    RefreshTTL = 2
    MaxPairs = 4
    MaxLogins = 1
    MaxNow = 2
    MaxRestarts = 1
INVARIANTS
    DeadStaysDead
    RotationKillsParent
    UsesPerThread
    LoginRoleAges
    RotationReplaces
    
