SPECIFICATION FairSpec
CONSTANTS
    Table = { users, vault_entries }
    MaxPairs = 4
    MaxCrashes = 3
    MaxLoose = 1
INVARIANTS
    PairsNeverMix
    ServesReady
PROPERTIES
    KeysOutliveRestarts
    BothComeUp
