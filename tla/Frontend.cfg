SPECIFICATION FrontSpec
CONSTANTS
    Drives = {1, 2}
    AtrFiles = {"a.atr", "prog.atr"}
    AtpFiles = {"b.atp"}
    Programs = {"prog"}
    Dirs = {"dir"}
    AtrOf <- MCAtrOf
    Divisors = {8}
    RemoteCommands <- MCRemoteCommands
    MaxEvents = 4
CHECK_DEADLOCK FALSE
INVARIANTS
    OptionsAgree
    CleanIsSaved
PROPERTIES
    OthersKeepChanges
