\* Two overlapping requests on a migration that waits to be finalised: endpoint,
\* login, profile and registrations, new token versions and the sweeper.
CONSTANTS
    Slots = {s1, s2}
    Ops = {"register", "finalise", "login", "bio"}
    Emails = {"a", "b"}
    Providers = {"google"}
    Seed <- MCVerifiedMigration
    AutoVerifyEmail = TRUE
    TokenTtl = 1
    GraceTtl = 1
    Cooldown = 2
    ResendGap = 1
    MaxUsers = 3
    MaxTokens = 1
    MaxVersion = 1
    MaxNow = 2
    MaxCrashes = 0
    MaxFaults = 0
SPECIFICATION Spec
SYMMETRY SlotSymmetry
INVARIANTS
    IndexResolves
    
PROPERTIES
    OwnershipKept
CHECK_DEADLOCK FALSE
