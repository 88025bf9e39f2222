SPECIFICATION Spec
CONSTANTS
    Trades <- MCTrades
    Nbbos <- MCNbbos
    Seconds = {0, 1}
    MAX_CHANNEL = 2
    MaxDays = 2
    MaxFiles = 2
    MaxHandled = 3
INVARIANT CloseIsSettled
CHECK_DEADLOCK FALSE
