CONSTANTS
    Holders = {1, 2}
    Deposits = {200, 4000}
    Withdrawals = {50, 200, 1000}
    PnLs <- ExactLosses
    Gifts = {7}
    Activities = {0, 250}
    JuniorLockup = 1
    MaxOps = 5
SPECIFICATION PairSpec
PROPERTIES RecapStartsClean
CHECK_DEADLOCK FALSE
