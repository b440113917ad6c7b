\* Three concurrent calls; a window of two seconds, longer than the shortest
\* cooldown, so that a circuit that recovers still sees what tripped it; five
\* samples for the statistical detector, the least clampConfig allows.
CONSTANTS
    c1 = c1
    c2 = c2
    c3 = c3
    Calls <- MCCalls
    WindowSecs = 2
    NBands = 2
    MinSamples = 5
    ConsecutiveFailOpen = 3
    ConsecutiveTimeoutOpen = 2
    ErrorRateOpen = 50
    TimeoutRateOpen = 40
    ErrorRateRecovery = 20
    P99Open = 2
    P99Recovery = 1
    TimeoutBand = 2
    OpenCooldown = 1
    CooldownJitter = 2
    HalfOpenMax = 2
    OperationTimeout = 2
    HalfOpenProbes = 2
    RecoverySuccessesEnv = 3
    MaxInflight = 2
    MaxLoad = 5
    ResetAllowed = FALSE
SPECIFICATION Spec
SYMMETRY Symmetry
INVARIANTS
    TypeOK
    InflightExact
    ClosedBelowThresholds
    ProbeBudget
PROPERTIES
    CooldownNotExtended
    ClosesOnlyWhenHealthy
