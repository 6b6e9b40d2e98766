SPECIFICATION FairSpec
CONSTANTS
    Sides = {"BUY"}
    Prices = {1, 2}
    Targets <- OneLot
    ParamSets <- EitherWay
    RejectBan = 1
    MaxBan = 1
    EraseOnNotReady = FALSE
    MaxOrderId = 4
    MaxVersion = 4
    Masks <- AllOnly
    BookAtStart = TRUE
    PartialFills = TRUE
    Conflates = FALSE
    DownloadTells = "nothing"
    MaxFills = 1
    MaxRejects = 1
    MaxCancels = 1
    MaxDrops = 1
    MaxChanges = 2
PROPERTIES
    Converges
