SPECIFICATION AppsSpec
CONSTANTS
    Users = {u1, admin}
    Admins = {admin}
    RequestKeys = {k1}
    Fingerprints = {f1}
    OpKeys = {o1}
    Executions = {}
    NoTask = NoTask
    None = None
    ReservationIds = {r1, r2}
    MaxGrants = 1
    MaxBalance = 3
    TopupAmounts = {3}
    ReserveAmounts = {3}
    Costs = {3}
    Packs <- NoPacks
    TrialCredit = 2
    ReapBatch = 2
    Emails = {a, b}
    Phones = {ph}
    RegistrationKeys = {done1}
    NoPhone = NoPhone
    NoKey = NoKey
    MaxFailures = 2
    MaxSends = 2
    FeedTasks = {ta, tb}
    Writers = {w1, w2}
    NoWriter = NoWriter
    MaxCursor = 4
    PageLimit = 2
    MarketOrders = {m1, m2}
    MarketKeys = {mk1, mk2}
    Sums = {0, 2}
    NoSum = NoSum
    NoMarketKey = NoMarketKey
    Granted = 3
    MaxMoves = 2
    Requests = {1, 2}
    ComputeKeys = {c1, c2}
    Forms = {form}
    Quotes = {q}
    NoForm = NoForm
    NoRequestKey = NoRequestKey
    NoQuote = NoQuote
    Filters = {"all", "submitted"}
    MaxClicks = 2
    Launches = {l1, l2}
    Stops = {s1}
    Keys = {conf}
    Pids = {p1, p2}
    Nothing = Nothing
    MaxStarts = 2
    MobileTokens = {t1, t2}
    NoToken = NoToken
    MaxQueued = 2
    Mails = {"a", "b"}
    Subjects = {"ada", "bob"}
    LegacyMails = {"b"}
    Servers = {i1, i2}
    MailOf <- AddressOf
    Logins = {n1, n2}
    Returns = {b1, b2}
    SigningKeys = {1, 2}
    Nobody = Nobody
    NoLogin = NoLogin
    Accounts = {acc1, acc2}
    Sessions = {1, 2, 3}
    Views = {"devices", "ledger", "requests"}
    Mailboxes = {e1}
    Mobiles = {tel1, tel2}
    Secrets = {w1, w2}
    Blank = Blank
    MaxChallenges = 2
    MaxKeys = 4
    MaxAbandoned = 1
VIEW Moving
INVARIANTS
    WalletConserved
    RegistrationSafe
    UpdatesInOrder
    ChargedAsAgreed
    ListIsOfFilter
    SidecarSafe
    LogoutHolds
    AccountsSafe
    SessionSafe
    FormSafe
CHECK_DEADLOCK FALSE
