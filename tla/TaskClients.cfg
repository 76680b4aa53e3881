SPECIFICATION ScenesSpec
CONSTANTS
    Executions = {e1, e2}
    Tokens = {t1, t2}
    None = None
    Unverified = Unverified
    MaxVersion = 7
    Clients = {d, w}
    Runners = {d, w}
    CodeClients = {d, w}
    MaxFaults = 1
    MaxCancels = 1
SYMMETRY Alike
INVARIANTS
    ClaimBeginsOnce
    DistinctHolders
PROPERTIES
    CancelHitsWhatWasSeen
    ResultIsOwn
    ExecutionPromise
CHECK_DEADLOCK FALSE
