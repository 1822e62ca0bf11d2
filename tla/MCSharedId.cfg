CONSTANTS
    CoeffScale = 100
    UsdScale = 10
    Users = {1, 2}
    Markets = {1, 2}
    OrderIds = {1, 2, 3, 4}
    TriggerIds = {}
    Params <- DefaultParams
    Orders <- SharedIdOrders
    Triggers = {}
    Amounts = {}
    IndexPrices = {}
    GapCoeffs = {}
    TierReadings = {}
    NonceSteps = {1}
    Seeds <- TwoSeeds
    OpenPrice <- TwoOpen
    MaxSeq = 4
SPECIFICATION Spec
INVARIANTS ReserveBacked
CHECK_DEADLOCK FALSE
