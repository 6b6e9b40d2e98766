SPECIFICATION FairSpec
CONSTANTS
    Legs <- TwoAccounts
    Markets <- TwoMarkets
    LegMarket <- OneFuture
    NoUnderlying = NoUnderlying
    NoDelta = NoDelta
    Infinity = 100
    Configuration <- Narrow
    Updates <- SomeUpdates
    Prices <- SomePrices
    Positions <- LongAndShort
    MaxPosition = 2
    MaxReports = 2
    MaxChanges = 2
    BanOutlastsReports = TRUE
INVARIANTS
    TypeOK
    QuotesNeverAbort
    TargetsReducePosition
    PassiveQuotesRest
PROPERTIES
    SendsWithinDelta
    Liquidates
