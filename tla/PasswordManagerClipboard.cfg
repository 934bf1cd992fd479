SPECIFICATION FairSpec
CONSTANTS
    Process = { p1 }
    User = { alice }
    Site = { bank }
    Secret = { pw1 }
    Other = { note }
    Delay = 1
    MaxRows = 1
    MaxNow = 2
PROPERTIES
    ClipboardForgets
