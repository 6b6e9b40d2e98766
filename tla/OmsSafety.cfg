SPECIFICATION XSpec
CONSTANTS
    Sides = {"BUY"}
    Prices = {1, 2}
    Targets <- Ladder
    ParamSets <- Bans
    RejectBan = 1
    MaxBan = 1
    EraseOnNotReady = FALSE
    MaxOrderId = 3
    MaxVersion = 3
    Masks <- AllOrNothing
    BookAtStart = TRUE
    PartialFills = FALSE
    Conflates = TRUE
    DownloadTells = "reports"
    MaxFills = 1
    MaxRejects = 1
    MaxCancels = 1
    MaxDrops = 1
    MaxChanges = 2
INVARIANTS
    XTypeOK
    NeverAborts
PROPERTIES
    CreatesFit
    RequestsInOrder
