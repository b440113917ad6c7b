\* Two refreshes with the same token at the same time.
CONSTANTS
    r1 = r1
    r2 = r2
    Reqs <- MCTwoRequests
    Kinds = {"login", "refresh"}
    Faults = {}
    MaxRefresh = 2
    MaxJtis = 2
    MaxDailyLogins = 10
    LegacyHash = FALSE
    MaxTokens = 4
    MaxVersion = 2
    MaxResets = 1
SPECIFICATION Spec
SYMMETRY Symmetry
INVARIANTS
    RefreshTokenSingleUse
CHECK_DEADLOCK FALSE
