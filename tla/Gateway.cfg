SPECIFICATION GatewaySpec
CONSTANTS
    Users = {u1}
    Admins = {}
    RequestKeys = {k1}
    Fingerprints = {f1, f2}
    OpKeys = {}
    Executions = {e1}
    NoTask = NoTask
    None = None
    ReservationIds = {r1, r2, r3}
    MaxGrants = 1
    MaxBalance = 3
    TopupAmounts = {}
    ReserveAmounts = {2}
    Costs = {1, 3}
    Packs <- NoPacks
    TrialCredit = 3
    ReapBatch = 2
    f1 = f1
    f2 = f2
    e1 = e1
    Handlers = {h1, h2}
    ExecutionOf <- OneTaskBody
    Faults = {"lost"}
INVARIANTS
    SingleFlight
    AnsweredIsBilled
    HeldHasOwner
    CancelStopsTask
PROPERTIES
    PaidAnswerKept
    ChargeCompletes
    FailureFreesRetry
SYMMETRY Interchangeable
CHECK_DEADLOCK FALSE
