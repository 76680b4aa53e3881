SPECIFICATION Spec
CONSTANTS
    Users = {u1}
    Admins = {}
    RequestKeys = {k1}
    Fingerprints = {f1, f2}
    OpKeys = {o1}
    Executions = {e1}
    NoTask = NoTask
    None = None
    ReservationIds = {r1, r2}
    MaxGrants = 2
    MaxBalance = 3
    TopupAmounts = {3}
    ReserveAmounts = {2}
    Costs = {1, 3}
    Packs <- OnePack
    TrialCredit = 2
    ReapBatch = 2
INVARIANTS
    CreditConserved
    GrantsStaySpendable
    ChatBillingConsistent
PROPERTIES
    LapsedCreditNotSpent
    MeterPromise
CHECK_DEADLOCK FALSE
