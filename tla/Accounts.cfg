\* One request at a time on the endpoints that make, verify and change accounts,
\* from an account that moved and is in its grace period; one statement fails and
\* one restart interrupts anything.  The bounds used up, nothing is left to do.
CONSTANTS
    Slots = {s1}
    Ops = {"register", "reverify", "verify", "oauth", "bio"}
    Emails = {"a", "b"}
    Providers = {"google"}
    Seed <- MCMovedAccount
    AutoVerifyEmail = FALSE
    TokenTtl = 1
    GraceTtl = 1
    Cooldown = 2
    ResendGap = 1
    MaxUsers = 3
    MaxTokens = 2
    MaxVersion = 0
    MaxNow = 3
    MaxCrashes = 1
    MaxFaults = 1
SPECIFICATION Spec
INVARIANTS
    IndexResolves
    VerifiedIsProved
CHECK_DEADLOCK FALSE
