SPECIFICATION GateSpec
CONSTANTS
    MarketEvent <- MCMarketEvent
    InnerAction <- MCInnerAction
INVARIANTS
    CvarBreachIsFlagged
CHECK_DEADLOCK FALSE
