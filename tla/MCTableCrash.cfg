SPECIFICATION CrashSpec
CONSTANTS
    Key = {0, 1, 2}
    Value = {"v1", "v2"}
    Room = 3
    None = None
    Blank <- MCBlank
    Before <- MCBefore
INVARIANTS CrashTypeOK
PROPERTIES CallRepairsOrder NoDuplicateFromOrder
