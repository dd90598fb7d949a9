SPECIFICATION Spec
CONSTANTS
    ann = ann
    bob = bob
    gov = gov
    dan = dan
    NoTimelockCall = "other"
    Contracts = {"intel", "mint", "mining", "buyback", "pol", "market", "rewards", "vesting", "ideas", "categories", "receipts"}
    Deployer = gov
    Officers = {gov, dan}
    NoOne = NoOne
    Users = {ann, bob}
    MaxSupply = 40
    Addresses = {"a1", "a2"}
    TwapMaxAge = 0
    RoutingTimelock = 1
    BaseCap = 4
    Quotas = {4}
    Precision = 10
    AccCap = 20
    RateDelay = 1
    One = 10
    IntelIsToken0 = TRUE
    Treasury = gov
    Epochs = {1, 2}
    RewardTreasury = gov
    Beneficiary = bob
    VestingTreasury = gov
    Cliff = 3
    VestingDuration = 3
    Allocation = 10
    Blackout = 1
    Ideas = {"i1", "i2"}
    Milestones = {"m1", "m2"}
    Stakers = dan
    TreasuryReceiver = gov
    IdeasOwner = gov
    Operations <- MCOperations
    NoCall = "other"
    MinimumDelay = 2
    Grace = 2
    Agents = {"x", "y"}
    Tasks = {"t1", "t2"}
    Categories = {0, 1, 2}
    BPSTotal = 100
    Shares <- MCShares
    Values <- MCValues
    Twaps = {50, 90, 200}
    Prices = {100, 200}
    ScoreLists <- MCScores
    Weights <- MCWeights
    MaxCalls <- MCMaxCalls
    MaxAdminCalls <- MCMaxAdminCalls
    MaxTime <- MCMaxTime
CHECK_DEADLOCK FALSE
INVARIANTS
    EconomyTypeOK
    FundsBacked
    RecordsAgree
PROPERTIES
    LimitsKept
