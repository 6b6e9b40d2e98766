SPECIFICATION XSpec
CONSTANTS
    Sides = {"BUY"}
    Prices = {1, 2}
    Targets <- Ladder
    ParamSets <- PlainParams
    RejectBan = 1
    MaxBan = 1
    EraseOnNotReady = FALSE
    MaxOrderId = 2
    MaxVersion = 3
    Masks <- AllOnly
    BookAtStart = TRUE
    PartialFills = TRUE
    Conflates = FALSE
    DownloadTells = "positions"
    MaxFills = 2
    MaxRejects = 1
    MaxCancels = 0
    MaxDrops = 1
    MaxChanges = 2
INVARIANTS
    QuietAgreement
    PositionAgrees
