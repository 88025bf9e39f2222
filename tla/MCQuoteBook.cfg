SPECIFICATION Spec
CONSTANTS
    Trades <- MCTrades
    Nbbos <- MCNbbos
    Seconds = {0, 1}
    MAX_CHANNEL = 2
    MaxDays = 2
    MaxFiles = 2
    MaxHandled = 3
INVARIANTS TypeOK HighIsHighest DepthIsLatest
PROPERTIES QuoteAgreesWithDepth TicksIncrease
CHECK_DEADLOCK FALSE
