SPECIFICATION FairSpec
CONSTANTS
    Messages <- Trades
INVARIANT TradeInPlace
CHECK_DEADLOCK FALSE
