SPECIFICATION ArcSpec
CONSTANTS
    Ideas = {i1, i2}
    Milestones = {m1, m2}
    Posters = {pat}
    IdeaWorkers = {wes}
    IdeaReviewers = {rob, pat}
    Owner = gov
    Resolver = dan
    Governors = {gov, dan}
    ZeroAddress = ZeroAddress
    Fundings = {30}
    Amounts = {15}
    Schedules <- MCSchedules
    Payouts = {2500}
    MinVesting = 2
    ReviewTimeout = 2
    DisputeWindow = 1
    ResolutionTimeout = 2
    Windows = {0}
    MaxTimestamp = 4
    MaxOwnerCalls = 1
SYMMETRY Symmetry
CHECK_DEADLOCK FALSE
INVARIANTS
    ArcTypeOK
    MoneyAccounted
    LockedOnlyByRefunds
PROPERTIES
    KeepsPromise
