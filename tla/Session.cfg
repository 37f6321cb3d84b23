SPECIFICATION Spec
CONSTANTS
    Libraries <- Installed
    Search <- ByName
    Directory <- Plugins
    ApiLevel <- Levels
    Files <- Names5
    FileKind <- Kind
    Extension <- Ext
    Locked = {"locked"}
    FilterLevel <- LevelTexts
    Passwd <- Users
    Group <- Groups
    Ending <- Tails
    NumberOf <- Numbers
    Present = {"names"}
    Integer <- Texts
    FirstLines <- Lines1
    NextLines <- Lines2
    Owners <- OwnersOfFiles
    MaxSessions = 2
    MaxVolumes = 2
    MaxHeaders = 2
CHECK_DEADLOCK FALSE
INVARIANTS LibrariesHeld ReadsBack InForce OwnNumbers
PROPERTIES OthersKept
