CONSTANTS
    OrderIds = {o1, o2, o3}
    Owners = {ann, bob}
    Prices = {1, 2}
    Qtys = {1, 2}
    MaxSeq = 4
SPECIFICATION Spec
SYMMETRY IdSymmetry
INVARIANTS TypeOK BookSound FifoBySeq QtyConserved NoSelfTrade
PROPERTIES PromiseKept
CHECK_DEADLOCK FALSE
