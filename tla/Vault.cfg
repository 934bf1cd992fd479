SPECIFICATION Spec
SYMMETRY RequestSymmetry
CONSTANTS
    User = { alice, bob }
    Password = { pw1, pw2 }
    Thread = { t1, t2 }
    KeyTTL = 1
    MaxFiles = 2
    MaxDamaged = 1
    MaxNow = 1
INVARIANTS
    KeyIsOwn
    EntryHasFile
PROPERTIES
    ReadsOwnUpload
