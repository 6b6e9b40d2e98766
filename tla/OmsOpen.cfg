SPECIFICATION Spec
CONSTANTS
    Sides = {"BUY"}
    Prices = {1, 2}
    Targets <- SomeTargets
    ParamSets <- SomeParams
    RejectBan = 1
    MaxBan = 1
    EraseOnNotReady = TRUE
    MaxOrderId = 2
    MaxVersion = 2
    Updates <- SomeUpdates
    Positions = {0}
    Masks <- SomeMasks
    MaxPosition = 1
INVARIANTS
    TypeOK
    IndexAgrees
    ExpectedIsRequestOrReport
PROPERTIES
    CreatesOnSettledSide
    RequestsOnlyWhenAllowed
