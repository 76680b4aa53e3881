SPECIFICATION LiveSpec
CONSTANTS
    Executions = {e1, e2}
    Tokens = {t1}
    None = None
    Unverified = Unverified
    MaxVersion = 7
    Clients = {d}
    Runners = {d}
    CodeClients = {d}
    MaxFaults = 1
    MaxCancels = 1
    Orders = {x1, x2}
    OrderKeys = {y1, y2}
    Amounts = {1}
    Channels = {wechat}
    Payments = {pay1, pay2}
    Events = {v1, v2}
    Callbacks = {c1}
    NoValue = NoValue
    MaxLosses = 1
PROPERTIES
    StaleRunStops
    OpenExecutionEnds
    CapturesSettle
CHECK_DEADLOCK FALSE
