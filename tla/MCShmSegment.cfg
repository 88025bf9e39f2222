SPECIFICATION Spec
CONSTANTS
    Locate = {0, 1}
    Index = {0, 1}
    TradeId = {0, 1}
    InstRoom = 1
    MaxChannel = 2
    MaxMarketCenter = 1
    MaxTradeId = 1
    Value = {"zero"}
    Zero = "zero"
    None = None
INVARIANTS TypeOK EveryKeyFound
