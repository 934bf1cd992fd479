SPECIFICATION Spec
CONSTANTS
    Table = { users }
    MaxPairs = 3
    MaxCrashes = 2
    MaxLoose = 0
INVARIANTS
    TokensSurviveRestart
