SPECIFICATION Spec
CONSTANTS
    Names = {"den"}
    Hosts = {"h1"}
    Modes = {"m1"}
    InitialFiles <- MCInitialFiles
    HandTexts <- MCHandTexts
    MaxStarts = 3
    MaxBackups = 2
CHECK_DEADLOCK FALSE
PROPERTY NoEditLostToDrops
