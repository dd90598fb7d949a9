SPECIFICATION ClientSpec
CONSTANTS
    a1 = a1
    a2 = a2
    j1 = j1
    k1 = k1
    g1 = g1
    g2 = g2
    Jobs = {j1}
    DemoWorker = demo
    DemoPoster = demoPoster
    DemoHash = demoHash
    Payments = {t1, t2}
    Owner = a1
    DemoReviewer = demoReviewer
    Workers = {a2, demo}
    TxHashes = {t1, t2}
    Txs = {x1}
    Requests = {p1, p2}
    Scenes <- MCScenes
    Calls <- MCCalls
    Accounts = {a1, a2}
    Agents = {g1, g2}
    Humans = {h1, h2}
    AgentRoles = {"worker", "poster"}
    Permissions <- MCPermissions
    Tokens = {1, 2}
    Nonces = {n1, n2, n3}
    Endpoints = {e1}
    Settings <- MCSettings
    ChallengeTTL = 1
    SessionTTL = 1
    TrialUses = 1
    None = None
    MaxClock = 2
    Keys = {k1}
    KeyTTL = 0
    Epochs = {ep1}
    MaxScripts = 2
    MilestoneOrder = 4
    IdeaBudgets = {101}
    MaxIdeas = 2
    Guests = {demoPoster}
    Clients = {c1}
    MaxRequests <- MCMaxRequests
    Window <- MCWindow
    ResetTimeout = 2
SYMMETRY Same
CHECK_DEADLOCK FALSE
INVARIANTS ServicesTypeOK AccessKept WorkKept PlansKept ClientsKept
