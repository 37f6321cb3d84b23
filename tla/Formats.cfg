SPECIFICATION MtfSpec
CONSTANTS
    Size = 55
    MaxAsk = 6
    PipeBuffer = 2
    MaxFaults = 1
    BlockSize = 8
    Archives <- MtfArchives
    Directories = {1, 2}
    Boundary = 6
    StreamAlign = 2
    BlockHead = 2
    DirbHead = 1
    FileHead = 1
    StreamHead = 3
    NameLength = 1
INVARIANT AllFound
PROPERTIES IsStream Answered
