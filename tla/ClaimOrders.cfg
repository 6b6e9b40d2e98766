SPECIFICATION Spec
CONSTANTS
    Sources <- TwoSources
    SourceName <- Names
    Wildcards <- Stars
    File <- OrdersFile
    UseTomlParameters = TRUE
    Number <- SomeNumbers
    Keys <- TwoKeys
    DataSource <- DataFrom
    TradeSource <- ThroughX
    Traders <- TwoTraders
    Layers <- OneLayer
    Updates <- SomeUpdates
    Holdings <- OneHolding
    Positions <- Long
    MaxFills = 1
    MaxMoves = 0
    MaxDrops = 0
    MaxChanges = 0
    MaxTogether = 1
INVARIANTS
    OrdersMovePosition
