SPECIFICATION Spec
CONSTANTS
    Block = 2
    VolumeSize = 8
    IoBlock = 4
    MaxFaults = 0
    Entries <- SmallEntries
    Inodes <- SmallInodes
    Key <- SmallKey
    Sizes <- SmallSizes
    Label = FALSE
    Answers = {"next"}
    MaxVolumes = 4
    MaxResizes = 0
    MaxSize = 6
INVARIANT HeaderKept
