\* Two requests at a time on every endpoint, among them the two writers of stale
\* lists (logouts and the logins that write a legacy hash again); revocations
\* may be lost.
CONSTANTS
    r1 = r1
    r2 = r2
    Reqs <- MCTwoRequests
    Kinds = {"login", "refresh", "logout", "reset"}
    Faults = {"revoke"}
    MaxRefresh = 2
    MaxJtis = 2
    MaxDailyLogins = 10
    LegacyHash = TRUE
    MaxTokens = 4
    MaxVersion = 1
    MaxResets = 1
SPECIFICATION Spec
SYMMETRY Symmetry
INVARIANTS
    SessionsBounded
PROPERTIES
    NoResurrection
    RotationSparesOthers
CHECK_DEADLOCK FALSE
