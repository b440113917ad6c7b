\* Two requests to finalise the same migration.
CONSTANTS
    Slots = {s1, s2}
    Ops = {"finalise"}
    Emails = {"a", "b"}
    Providers = {"google"}
    Seed <- MCVerifiedMigration
    AutoVerifyEmail = FALSE
    TokenTtl = 1
    GraceTtl = 1
    Cooldown = 2
    ResendGap = 1
    MaxUsers = 3
    MaxTokens = 2
    MaxVersion = 0
    MaxNow = 2
    MaxCrashes = 0
    MaxFaults = 0
SPECIFICATION Spec
SYMMETRY SlotSymmetry
INVARIANTS
    FormerAddressKept
CHECK_DEADLOCK FALSE
