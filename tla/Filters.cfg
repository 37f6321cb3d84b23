SPECIFICATION Spec
CONSTANTS
    Block = 1
    VolumeSize = 8
    IoBlock = 2
    MaxFaults = 0
    Ratio = 2
    Hold = 2
    GzipReserve = 3
    LevelReserve = 3
    Levels = {0, 1}
    Parameters <- FilterParameters
    Size = 6
    ReadSize = 3
    MaxHeader = 1
    MaxPad = 1
    Window = 2
    MaxAsk = 2
    MaxReadFaults = 1
    HeaderFlags <- FilterHeaderFlags
    MaxDamages = 1
INVARIANTS SpinsOnDamage
PROPERTIES IsPlain Returned
