SPECIFICATION Spec
CONSTANTS
    Key = {0, 1, 2, 3}
    Value = {"v1", "v2"}
    Room = 3
    None = None
    Blank <- MCBlank
    Before <- MCBefore
INVARIANTS TypeOK SortedInv UniqueKeys
PROPERTIES MapSpec
