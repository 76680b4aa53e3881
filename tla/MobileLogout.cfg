SPECIFICATION MobileSpec
CONSTANTS
    MobileTokens = {t1, t2}
    NoToken = NoToken
    MaxQueued = 2
INVARIANTS
    LogoutIsDurable
CHECK_DEADLOCK FALSE
