SPECIFICATION XSpec
CONSTANTS
    Sides = {"BUY", "SELL"}
    Prices = {1, 2, 3}
    Targets <- TwoSided
    ParamSets <- PlainParams
    RejectBan = 1
    MaxBan = 1
    EraseOnNotReady = FALSE
    MaxOrderId = 4
    MaxVersion = 3
    Masks <- AllOnly
    BookAtStart = TRUE
    PartialFills = TRUE
    Conflates = FALSE
    DownloadTells = "positions"
    MaxFills = 1
    MaxRejects = 1
    MaxCancels = 1
    MaxDrops = 1
    MaxChanges = 2
INVARIANTS
    QuietAgreement
    PositionAgrees
PROPERTIES
    CreatesFit
