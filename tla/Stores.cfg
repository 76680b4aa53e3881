SPECIFICATION StoresSpec
CONSTANTS
    Executions = {e1, e2, e3}
    Tokens = {t1, t2}
    None = None
    Unverified = Unverified
    MaxVersion = 7
    Threads = {h1, h2}
    NoThread = NoThread
    MaxTaskVersion = 6
    Requests = {r1, r2}
    Orders = {x1, x2}
    OrderKeys = {y1, y2}
    Amounts = {1, 2}
    Channels = {wechat}
    Payments = {pay1, pay2}
    Events = {v1, v2}
    Callbacks = {c1, c2}
    NoValue = NoValue
    MaxLosses = 1
    ComputeKeys = {k1}
    Forms = {f1, f2}
    Quotes = {q1, q2}
    NoForm = NoForm
    NoRequestKey = NoRequestKey
    NoQuote = NoQuote
    Applications = {a1}
    Operators = {p1, p2}
    Drafts = {d1, d2}
    Complete = {d1}
    NoDraft = NoDraft
    Machines = {machine1}
    MaxRevision = 9
    Models = {"glm", "gpt"}
    Preferred <- PreferredModels
    NoModel = NoModel
    Offers <- OfferValues
    Answers <- AnswerValues
    Usages <- UsageValues
    InputEstimate = 2
    OutputLimit = 3
    Prompts = {1, 2}
    CodePrompts = {2}
    Tools = {x}
    MaxSessions = 2
    Roots = {p, q}
    MaxApproved = 1
    MaxUnderway = 2
    Clients = {1, 2}
    MaxQueuedFrames = 1
    MaxFrames = 2
    Servers = {s1, s2}
    OpenBalances = {0, 1}
    OldEntries <- EarlierEntries
    Packages = {"image-size", "metro", "expo", "left-pad"}
    ImageSize = "image-size"
    Advisories = {"g1", "g2", "g3"}
    Pinned = {"g1", "g2"}
    Inputs <- InputValues
    Untracked <- UntrackedValues
    DiffSizes = {1, 3}
    DiffOutputLimit = 9
    SummaryReserve = 2
    FileLimit = 2
    TotalLimit = 3
    PreviewLimit = 2
    PathLimit = 3
    Trees <- TreeValues
    Top = "top"
    NodeLimit = 6
    DirectoryLimit = 3
    DepthLimit = 2
VIEW Moving
INVARIANTS
    PaidIsCaptured
    ResultIsCurrent
    AdvancedAsRead
    PricedAsListed
    WorkSafe
    UpgradeSafe
    GateIsExact
    FilesSafe
CHECK_DEADLOCK FALSE
