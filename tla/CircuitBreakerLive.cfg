\* Liveness with any traffic, a Redis that may hang and resets at any moment.
\* RecoverySuccessesEnv exceeds the probe budget: recovery depends on clampConfig.
CONSTANTS
    c1 = c1
    c2 = c2
    c3 = c3
    Calls <- MCTwoCalls
    WindowSecs = 1
    NBands = 2
    MinSamples = 5
    ConsecutiveFailOpen = 3
    ConsecutiveTimeoutOpen = 2
    ErrorRateOpen = 50
    TimeoutRateOpen = 40
    ErrorRateRecovery = 20
    P99Open = 2
    P99Recovery = 1
    TimeoutBand = 2
    OpenCooldown = 1
    CooldownJitter = 0
    HalfOpenMax = 2
    OperationTimeout = 2
    HalfOpenProbes = 2
    RecoverySuccessesEnv = 3
    MaxInflight = 2
    MaxLoad = 5
    ResetAllowed = TRUE
SPECIFICATION FairSpec
INVARIANTS
    InflightNeverOvercounts
PROPERTIES
    HalfOpenResolves
    SlotsAlwaysReleased
    RecoversWithRedis
