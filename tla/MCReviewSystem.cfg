SPECIFICATION Spec
CONSTANTS
    Contracts = {"queue", "rsm", "credential", "wsm", "disputes"}
    Deployer = gov
    Officers = {gov, dan}
    NoOne = NoOne
    Reviewers = {ann, bob}
    Workers = {wil}
    Tasks = {t1, t2}
    Jurors = {j1, j2}
    SlashLockWindow = 1
    WorkerLockWindow = 1
    MinReviews <- MCMinReviews
    MaxSlashBps <- MCMaxSlashBps
    GracePeriod = 1
    ExpiryGrace = 1
    Values <- MCValues
    MinBond = 20
    Cooldown = 1
    Timeout = 1
    MaxActive = 2
    DisputeParams <- MCParams
    NewDisputeParams <- MCNewParams
    Funds = {0, 11}
    MaxCalls <- MCMaxCalls
    MaxDisputes = 2
    MaxAdminCalls = 1
    MaxTime = 2
SYMMETRY Symmetry
CHECK_DEADLOCK FALSE
INVARIANTS
    ReviewTypeOK
    ReviewsKept
    EveryoneCovered
PROPERTIES
    DowngradeAnnounced
