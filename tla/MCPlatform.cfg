SPECIFICATION PlatformSpec
CONSTANTS
    x1 = x1
    x2 = x2
    p1 = p1
    p2 = p2
    c1 = c1
    c2 = c2
    k1 = k1
    k2 = k2
    m1 = m1
    Scenarios = {"REJECT_DATA_MISMATCH", "PENDING_DOCUMENTS", "MANUAL_REVIEW", "SANCTIONS_MATCH",
                 "PEP_MATCH", "EXPIRES", "APPROVE_BLOCKED", "APPROVE"}
    Creations <- MCCreations
    Loads <- MCLoads
    KeyRequests = {k1, k2, k3}
    KeyRemovals = {m1, m2}
    KeyAccounts = {"a", "b"}
    SharedKey = v
    ChargeRequests = {q1, q2}
    ChargeAsks <- MCChargeAsks
    Payers = {p1, p2}
    PayerAmounts = {1, 2}
    EmvAnswers = {"absent", "malformed", "another key", "usable"}
    MaxTick = 2
    Workers = {w1, w2}
    MaxClock = 2
    Outcomes = {"SETTLED", "FAILED", "CANCELLED"}
    Answers = {"PENDING", "PROCESSING", "SETTLED", "FAILED", "CANCELLED", "UNKNOWN"}
    Readers = {x1, x2}
    Queries <- MCQueries
    Situations <- MCSituations
    CacheTtl = 2
    PostMutation = 1
    MaxNow = 2
    Pods = {d1, d2}
    Binds = {n1, n2}
    ResolverTtl = 2
    MaxEdits = 2
    MaxInstant = 2
    ConsoleUsers = {u1}
    LoginIds = {s1, s2}
    Browsers = {b1}
    Tabs = {t1, t2}
    UserRecords <- MCUserRecords
    RefreshTtl = 2
    AccessTtl = 1
    MaxSecrets = 3
    MaxMoment = 2
    ApiKeys = {k1}
    MintRequests <- MCMintRequests
    Arrivals = {1, 2}
    Requests <- MCRequests
    SignatureTolerance = 1
    MaxWall = 5
    Unsupported = {"pix.keys.resolve"}
    Repos = {"holder", "account", "case", "audit", "inbound", "transaction", "key", "charge",
             "operation", "run", "break", "cursor", "event", "endpoint", "delivery", "apiKey",
             "connection", "session", "idempotency"}
    MaxCalls = 3
INVARIANTS
    BankAccountIsTraced
    AcceptedIsFulfilled
    RegisteredIsTraced
    CompletedIsPaid
    
    LedgerFollowsProvider
    AgeIsHonest
    BindingIsCurrent
    SignedOnce
    TwinsAgree
    StatementWalkIsExact
PROPERTIES
    FinalStatusIsFinal
    RevokedIsDead
CHECK_DEADLOCK FALSE
