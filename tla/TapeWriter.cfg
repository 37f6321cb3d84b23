SPECIFICATION Spec
CONSTANTS
    BufferSize = 4
    TotalFreeSpace = 12
    HeaderSizes = {2, 10}
    MaxPosition = 16
    MaxFaults = 2
INVARIANTS TapeOrder SentKept PositionTrue
