SPECIFICATION RoundTripSpec
CONSTANTS
    Block = 2
    VolumeSize = 20
    IoBlock = 4
    MaxFaults = 0
    Entries <- RTEntries
    Inodes <- RTInodes
    Key <- RTKey
    Sizes <- RTSizes
    Label = TRUE
    Answers = {"next"}
    MaxVolumes = 10
    MaxResizes = 0
    MaxSize = 6
    Selections <- RTSelections
    BufferSize = 3
    Begins <- RTBegins
    Multi = TRUE
    Replies = {"same"}
    MaxPrompts = 4
    MaxReadFaults = 0
    Before <- RTBefore
    MaxTouches = 0
INVARIANTS AllRestored
