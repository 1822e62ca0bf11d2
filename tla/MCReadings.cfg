CONSTANTS
    CoeffScale = 100
    UsdScale = 10
    Users = {1, 2}
    Markets = {1}
    OrderIds = {1, 2, 3, 4}
    TriggerIds = {11, 12}
    Params <- DefaultParams
    Orders <- ModeOrders
    Triggers <- Stops
    Amounts = {}
    IndexPrices = {1703, 2111}
    GapCoeffs = {150}
    TierReadings <- Tiers
    NonceSteps = {1}
    Seeds <- ModeSeeds
    OpenPrice <- OneOpen
    MaxSeq = 5
SPECIFICATION FairSpec
PROPERTIES CommandsComplete IocNeverFlips ReduceOnlyShrinks FundingNets
CHECK_DEADLOCK FALSE
