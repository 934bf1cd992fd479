SPECIFICATION Spec
CONSTANTS
    Request <- Requests
    MaxTime = 2
    MaxEntries = 4
    MaxFaults = 2
    BruteForceThreshold = 2
    BruteForceWindow = 1
    TrafficSpikeThreshold = 3
    TrafficSpikeWindow = 1
    PORT_SCAN_DISTINCT_PORT_THRESHOLD = 2
    Ports = { 1, 2 }
    AlphabetSize = 3
    LetterFrequency <- Frequencies
    MIN_STRING_LENGTH = 2
    IndicatorLength = 2
    K = 2
    MaxLength <- Lengths
INVARIANTS
    TornWriteCostsTwo
    BurstsReported
    ScanEvidenceKept
    CaesarCracked
    PiiMasked
    IndicatorsFound
    ScanComplete
    SmallGroupsCounted
CHECK_DEADLOCK FALSE
