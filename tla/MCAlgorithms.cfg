\* Up to three links with four rates on the full grid, all port lists of up to
\* four out of five numbers, three spans of days around leap days and centuries.
SPECIFICATION Questions
CONSTANTS
    RADIX = 5
    ID_WIDTH = 1
    SEQ_WIDTH = 1
    LEN_WIDTH = 1
    V4_LEN = 2
    V6_LEN = 3
    WEIGHT_GRID = 1024
    FLOOR = 20
    MAX_PORTS = 3
    Rates = {0, 1, 7, 300}
    MaxLinks = 3
    PortNumbers = {0, 1, 2, 3, 4}
    MaxList = 4
    Days <- MCDays
    Gaps = {0, 1, 2, 30}
    Keeps = {0, 2, 31}
    MaxEvents = 3
    Bytes = {0, 3}
    MaxAddress = 5
    PortValues = {0, 1, 4}
    Contents <- MCContents
INVARIANTS
    ProportionalShare
    NeverStarved
    PortsUsable
    LogsKept
    TargetIntact
CHECK_DEADLOCK FALSE
