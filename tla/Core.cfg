SPECIFICATION FairSpec
CONSTANTS
    Sources <- TwoSources
    SourceName <- Names
    Wildcards <- Stars
    File <- PositionsFile
    UseTomlParameters = TRUE
    Number <- SomeNumbers
    Keys <- TwoKeys
    DataSource <- DataFrom
    TradeSource <- ThroughX
    Traders <- TwoTraders
    Layers <- SomeLayers
    Updates <- SomeUpdates
    Holdings <- ThreeHoldings
    Positions <- Long
    MaxFills = 1
    MaxMoves = 1
    MaxDrops = 2
    MaxChanges = 1
    MaxTogether = 2
INVARIANTS
    TypeOK
    BooksReachable
    ConfigDelivered
    NeverFails
    ExposureAgrees
PROPERTIES
    IdsStable
    QuotesOnlyOnceDownloaded
    QuotesArrive
    BooksResolve
