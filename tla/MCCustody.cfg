CONSTANTS
    Users = {u1}
    Operator = op
    Services = {c1, c2}
    Amounts = {1}
    Drip = 2
    DemoAmount = 2
    Prices = {7}
    Seed = 1
    MaxEpochs = 2
    MaxDeposits = 2
    MaxDays = 1
    MaxSupply = 6
    MaxCalls = 4
SPECIFICATION Spec
INVARIANTS VaultBacked PayoutsAddUp DoneIsOnChain CreditsGrow
PROPERTIES EpochsFinal
SYMMETRY Alike
CHECK_DEADLOCK FALSE
