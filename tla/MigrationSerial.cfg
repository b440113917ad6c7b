\* One request at a time: a whole migration and the beginning of a second one,
\* with resends, expiry, the sweeper, cleanup, and a restart at any await.
CONSTANTS
    Slots = {s1}
    Ops = {"register", "initiate", "resend", "current", "new", "finalise", "login", "cleanup"}
    Emails = {"a", "b"}
    Providers = {"google"}
    Seed <- MCOneAccount
    AutoVerifyEmail = FALSE
    TokenTtl = 1
    GraceTtl = 1
    Cooldown = 2
    ResendGap = 1
    MaxUsers = 3
    MaxTokens = 2
    MaxVersion = 0
    MaxNow = 3
    MaxCrashes = 1
    MaxFaults = 0
SPECIFICATION FairSpec
INVARIANTS
    TypeOK
    PendingReserved
    FormerAddressKept
PROPERTIES
    MigrationsSpaced
    BioSurvives
    OwnershipKept
    VerifiedCompletes
CHECK_DEADLOCK FALSE
