\* One request at a time, while Redis misses commands and requests die at any
\* await.  Every jti stays tracked (MaxJtis = MaxTokens).  The service may stop
\* when the bounds are used up.
CONSTANTS
    r1 = r1
    r2 = r2
    Reqs <- MCOneRequest
    Kinds = {"login", "refresh", "logout", "reset"}
    Faults = {"redis", "abort"}
    MaxRefresh = 2
    MaxJtis = 4
    MaxDailyLogins = 10
    LegacyHash = TRUE
    MaxTokens = 4
    MaxVersion = 2
    MaxResets = 2
SPECIFICATION Spec
INVARIANTS
    TypeOK
    RefreshTokenSingleUse
    ResetEndsOldSessions
    StaleAccessBlocked
PROPERTIES
    StaleAccessStaysStale
    LogoutRemovesOneSession
CHECK_DEADLOCK FALSE
