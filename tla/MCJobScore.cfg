SPECIFICATION Spec
CONSTANTS
    Jobs = {j1}
    Workers = {w1, w2}
    Reviewers = {w1, w2, pat}
    Poster = pat
    Requests = {q1}
    Timers = {s1}
    MaxInFlight = 2
    MaxClaims = 2
    MaxCrashes = 0
    MaxFaults = 0
CHECK_DEADLOCK FALSE
INVARIANT AttestedScorePassed
