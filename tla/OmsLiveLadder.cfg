SPECIFICATION FairSpec
CONSTANTS
    Sides = {"BUY"}
    Prices = {1, 2}
    Targets <- Ladder
    ParamSets <- PlainParams
    RejectBan = 1
    MaxBan = 1
    EraseOnNotReady = FALSE
    MaxOrderId = 4
    MaxVersion = 4
    Masks <- AllOnly
    BookAtStart = TRUE
    PartialFills = TRUE
    Conflates = FALSE
    DownloadTells = "reports"
    MaxFills = 1
    MaxRejects = 1
    MaxCancels = 0
    MaxDrops = 0
    MaxChanges = 2
PROPERTIES
    Converges
