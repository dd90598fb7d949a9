SPECIFICATION Spec
CONSTANTS
    Jobs = {j1}
    Workers = {w1, w2}
    Reviewers = {w1, w2, pat}
    Poster = pat
    Requests = {q1, q2}
    Timers = {s1}
    MaxInFlight = 2
    MaxClaims = 2
    MaxCrashes = 1
    MaxFaults = 1
SYMMETRY Same
CHECK_DEADLOCK FALSE
INVARIANTS
    TypeOK
    SweepCanFindClaimedJobs
    SubmittedWorkPassed
    CreditIsEarned
