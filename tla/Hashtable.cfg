SPECIFICATION TableSpec
CONSTANTS
    Hashes = {0, 1, 2, 4, 6, 8}
    Values = {a, b}
    InitialSize = 2
    MaxChain = 1
    MaxSize = 8
    MaxElements = 6
INVARIANT ChainsSound
PROPERTY IsMap
