SPECIFICATION Spec
CONSTANTS
    j1 = j1
    j2 = j2
    Jobs = {j1, j2}
    x1 = x1
    x2 = x2
    Txs = {x1, x2}
    p1 = p1
    p2 = p2
    Requests = {p1, p2}
    Budget <- MCBudget
    Amounts = {149}
    ProtocolFeeBps = 1000
    StakerYieldBps = 900
    Tolerance = 1
    Scenes <- MCScenes
    Calls <- MCCalls
SYMMETRY Same
CHECK_DEADLOCK FALSE
INVARIANTS BrokerTypeOK CreditsAddUp ChainCountsOnce
