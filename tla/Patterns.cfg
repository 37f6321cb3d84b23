SPECIFICATION Spec
CONSTANTS
    Universe <- Paths
    Longer <- Begins
    Links <- Linked
    Hidden = {3}
    Settings <- Excluding
    MaxChanges = 1
    Names <- CommandLine
INVARIANTS AllGiven GivenInOrder DirectoryFirst
PROPERTIES Ends
