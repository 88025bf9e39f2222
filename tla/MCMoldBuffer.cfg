SPECIFICATION FairSpec
CONSTANTS
    Base = 4
    SizeMod = 64
    Cap = 4
    MaxFrames = 3
    MaxLen = 3
    FileLists <- MCFileLists
INVARIANTS TypeOK WindowInv ReadyToRead
PROPERTIES StreamSpec Terminates
CHECK_DEADLOCK FALSE
