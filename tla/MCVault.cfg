CONSTANTS
    Holders = {1, 2}
    Deposits = {200, 4000}
    Withdrawals = {50, 200, 1000}
    PnLs <- Losses
    Gifts = {7}
    Activities = {0, 250}
    JuniorLockup = 1
    MaxOps = 5
SPECIFICATION PairSpec
INVARIANTS TypeOK Covered SharesAddUp InsolventIsEmpty Mirrors
PROPERTIES SeniorIsLast NotDiluted
CHECK_DEADLOCK FALSE
