SPECIFICATION FairSpec
CONSTANTS
    Block = 2
    VolumeSize = 8
    IoBlock = 4
    MaxFaults = 0
    Entries <- MCEntries
    Inodes <- MCInodes
    Key <- MCKey
    Sizes <- MCSizes
    Label = TRUE
    Answers = {"next"}
    MaxVolumes = 20
    MaxResizes = 0
    MaxSize = 6
INVARIANTS ExitComplete Framed Addressed UndisturbedPrompt LinksResolve
PROPERTY Termination
