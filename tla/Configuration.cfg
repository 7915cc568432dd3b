SPECIFICATION Spec
CONSTANTS
    Names = {"den"}
    Hosts = {"h1"}
    Modes = {"m1"}
    InitialFiles <- MCInitialFiles
    HandTexts <- MCHandTexts
    MaxStarts = 3
    MaxBackups = 2
INVARIANT WindowMatchesFile
PROPERTIES KeptBeforeReplaced NoEditLost
CHECK_DEADLOCK FALSE
