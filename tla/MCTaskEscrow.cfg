SPECIFICATION EscrowSpec
CONSTANTS
    Tasks = {t1, t2}
    Wallets = {ann, bob}
    NoOne = NoOne
    THIS = THIS
    STAKING = STAKING
    Deployer = ann
    Treasury = bob
    Amounts = {1, 15}
    Purse = 16
    Splits <- MCSplits
    Windows = {0, 2}
    RefundWindow = 1
    AutoReleaseWindow = 2
    MinAutoWindow = 1
    MaxTime = 2
    MaxAdminCalls = 1
SYMMETRY Symmetry
CHECK_DEADLOCK FALSE
INVARIANTS
    EscrowTypeOK
    Solvency
    PaidInFull
    SplitFixedAtFunding
    NeverLocked
PROPERTIES
    OneTaskPaysOrReceives
    KeepsPromise
