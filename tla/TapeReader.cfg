SPECIFICATION Spec
CONSTANTS
    BlockSize = 3
    Records = 4
    LastRecord = 3
    MaxAsk = 9
    MaxSpace = 2
    MaxFaults = 1
PROPERTY IsStream
