CONSTANTS
    CoeffScale = 100
    UsdScale = 10
    Users = {1, 2, 3}
    Markets = {1, 2}
    OrderIds = {1, 2, 3, 4, 5, 6}
    TriggerIds = {}
    Params <- DefaultParams
    Orders <- LiqOrders
    Triggers = {}
    Amounts = {600}
    IndexPrices = {1501, 1003, 2603}
    GapCoeffs = {}
    TierReadings = {}
    NonceSteps = {0, 1}
    Seeds <- LiqSeeds
    OpenPrice <- TwoOpen
    MaxSeq = 5
SPECIFICATION Spec
INVARIANTS TypeOK Conserved ReserveBacked BooksSound OiBalanced UsersSolvent
PROPERTIES ScanLeavesNoneUnder LiquidationCloses
CHECK_DEADLOCK FALSE
