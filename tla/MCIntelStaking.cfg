SPECIFICATION Spec
CONSTANTS
    Wallets = {ann, bob}
    Deployer = gov
    Governors = {gov}
    NoOne = NoOne
    Stakes = {1, 2}
    Yields = {3}
    Mints = {10}
    ParamSets <- MCParamSets
    Params <- MCParams
    PRECISION = 2
    AccCap = 6
    KScale = 1
    BonusDelay = 1
    BonusMinStake = 2
    MaxStake = 2
    Caps = {0}
    MaxStaked = 3
    MaxSyncs = 3
    MaxDeposits = 2
    MaxTime = 2
    MaxAdminCalls = 1
    Scale = 6
SYMMETRY Symmetry
CHECK_DEADLOCK FALSE
INVARIANTS
    TypeOK
    SolventUpToDust
    NoOneTakesAnothersYield
    EpochCapHolds
PROPERTIES
    CooldownKept
