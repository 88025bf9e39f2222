SPECIFICATION FairSpec
CONSTANTS
    Messages <- Good
INVARIANTS TypeOK Meant OffBySignOnly WholeMessageRead
PROPERTIES Ends
CHECK_DEADLOCK FALSE
