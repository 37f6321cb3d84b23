SPECIFICATION Spec
CONSTANTS
    Block = 2
    VolumeSize = 8
    IoBlock = 4
    MaxFaults = 2
    Entries <- SmallEntries
    Inodes <- SmallInodes
    Key <- SmallKey
    Sizes <- SmallSizes
    Label = FALSE
    Answers = {"next", "name", "quit", "eof", "badopen"}
    MaxVolumes = 4
    MaxResizes = 1
    MaxSize = 6
INVARIANTS TypeOK VolumeOK DataInOrder ContinuationPosition
