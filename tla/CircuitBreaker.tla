--------------------------- MODULE CircuitBreaker ----------------------------
(***************************************************************************)
(* The process-wide Redis circuit breaker and the calls that go through it *)
(* (class CircuitBreaker and withCircuitBreaker of                         *)
(* src/config/redisCircuitBreaker.ts).                                     *)
(*                                                                         *)
(* A caller acquires a slot, runs its Redis command, and releases the slot *)
(* once: with the command's result or when the breaker's own timer fires,  *)
(* whichever comes first.  JavaScript runs each of these callbacks to      *)
(* completion, so each is one action; callbacks of different calls and the *)
(* clock interleave freely.                                                *)
(*                                                                         *)
(* Time is counted in seconds since the event it is compared with and      *)
(* stops at the value where the comparison becomes true.  The counters     *)
(* consecutiveFail and consecutiveTimeout stop at their thresholds, the    *)
(* only values they are compared with.  Metrics counters are left out.     *)
(***************************************************************************)
EXTENDS LatencyWindow

CONSTANTS
    Calls,                  \* concurrent users of Redis
    MinSamples, ConsecutiveFailOpen, ConsecutiveTimeoutOpen,
    ErrorRateOpen, TimeoutRateOpen, ErrorRateRecovery,  \* percent
    P99Open,                \* least band that reaches config.p99UsOpen
    P99Recovery,            \* greatest band within config.p99UsRecovery
    TimeoutBand,            \* band of a call that used up the operation deadline
    OpenCooldown, CooldownJitter, HalfOpenMax, OperationTimeout,   \* seconds
    HalfOpenProbes,
    RecoverySuccessesEnv,   \* REDIS_CB_RECOVERY_SUCCESSES, before clampConfig
    MaxInflight,
    MaxLoad,                \* bound: calls counted in the window or running
    ResetAllowed            \* whether reset() is ever called

ASSUME BreakerAssumption ==
    /\ IsFiniteSet(Calls)
    /\ {MinSamples, ConsecutiveFailOpen, ConsecutiveTimeoutOpen} \subseteq Nat \ {0}
    /\ {ErrorRateOpen, TimeoutRateOpen, ErrorRateRecovery} \subseteq 0..100
    /\ {P99Open, P99Recovery} \subseteq Nat
    /\ TimeoutBand \in Bands
    /\ {OpenCooldown, HalfOpenMax, OperationTimeout} \subseteq Nat \ {0}
    /\ CooldownJitter \in Nat
    /\ {HalfOpenProbes, RecoverySuccessesEnv, MaxInflight} \subseteq Nat \ {0}
    /\ MaxLoad \in Nat
    /\ ResetAllowed \in BOOLEAN

VARIABLES
    state,              \* this.state
    openAge, cooldown,  \* now - openedAtMs while OPEN; cooldownMs
    halfOpenAge,        \* now - halfOpenStartedAtMs while HALF_OPEN
    consecutiveFail, consecutiveTimeout,
    probesDispatched, halfOpenSuccesses, inflight,
    win,                \* the rolling window, by age
    calls,              \* the calls of withCircuitBreaker
    redisUp             \* environment: Redis answers every command, fast

breaker == <<state, openAge, cooldown, halfOpenAge, consecutiveFail,
             consecutiveTimeout, probesDispatched, halfOpenSuccesses, inflight>>
vars == <<breaker, win, calls, redisUp>>

(***************************************************************************)
(* A call is idle, running (not settled) or abandoned: its timer has fired *)
(* and the command may still produce a result nobody waits for.  Of a      *)
(* running call, probe remembers that it was admitted as a probe of the    *)
(* HALF_OPEN episode that is still going on.                               *)
(***************************************************************************)
Call == [st : {"idle", "running", "abandoned"}, age : 0..OperationTimeout, probe : BOOLEAN]
Idle == [st |-> "idle", age |-> 0, probe |-> FALSE]
Abandoned == [st |-> "abandoned", age |-> 0, probe |-> FALSE]

Running == {c \in Calls : calls[c].st = "running"}
Probes  == {c \in Running : calls[c].probe}

\* mutant: the cross-field clamp is missing
RecoverySuccessesAsGiven == RecoverySuccessesEnv
(***************************************************************************)
(* clampConfig(): more successes than probes would make recovery           *)
(* impossible.                                                             *)
(***************************************************************************)
RecoverySuccesses ==
    IF RecoverySuccessesEnv > HalfOpenProbes THEN HalfOpenProbes ELSE RecoverySuccessesEnv

AtMost(n, max) == IF n > max THEN max ELSE n

Init ==
    /\ state = "CLOSED"
    /\ openAge = 0 /\ cooldown = 0 /\ halfOpenAge = 0
    /\ consecutiveFail = 0 /\ consecutiveTimeout = 0
    /\ probesDispatched = 0 /\ halfOpenSuccesses = 0 /\ inflight = 0
    /\ win = EmptyWindow
    /\ calls = [c \in Calls |-> Idle]
    /\ redisUp = TRUE

------------------------------------------------------------------------------
(* Transitions shared by acquire and release *)

Jitter == IF CooldownJitter > 0 THEN 0..(CooldownJitter - 1) ELSE {0}

\* mutant: the cooldown starts again although the circuit is already OPEN
TripOpenAgain ==
    /\ state' = "OPEN"
    /\ openAge' = 0
    /\ \E j \in Jitter : cooldown' = OpenCooldown + j
    /\ halfOpenAge' = 0

(***************************************************************************)
(* tripOpen(): a circuit that is already OPEN keeps its cooldown.          *)
(***************************************************************************)
TripOpen ==
    IF state # "OPEN"
    THEN /\ state' = "OPEN"
         /\ openAge' = 0
         /\ \E j \in Jitter : cooldown' = OpenCooldown + j
         /\ halfOpenAge' = 0
    ELSE UNCHANGED <<state, openAge, cooldown, halfOpenAge>>

StayInState == UNCHANGED <<state, openAge, cooldown, halfOpenAge>>

\* The calls once c has become nc.  A HALF_OPEN episode that ends takes its
\* probes with it: what they return later is not an answer to a probe.
CallsWith(c, nc) ==
    [d \in Calls |->
        LET e == IF d = c THEN nc ELSE calls[d]
        IN  [e EXCEPT !.probe = @ /\ state' = "HALF_OPEN"]]

------------------------------------------------------------------------------
(* acquire() *)

(***************************************************************************)
(* A rejected call never reaches Redis and changes nothing but a metrics   *)
(* counter; only the steps below change the breaker.                       *)
(***************************************************************************)
AcquireClosed(c) ==
    /\ state = "CLOSED"
    /\ inflight < MaxInflight
    /\ inflight' = inflight + 1
    /\ StayInState
    /\ calls' = CallsWith(c, [st |-> "running", age |-> 0, probe |-> FALSE])
    /\ UNCHANGED <<probesDispatched, halfOpenSuccesses>>

\* mutant: only the concurrency is checked, not the probes already sent
DispatchProbeNoBudget(c, dispatched) ==
    /\ inflight < HalfOpenProbes
    /\ probesDispatched' = dispatched + 1
    /\ inflight' = inflight + 1
    /\ calls' = CallsWith(c, [st |-> "running", age |-> 0, probe |-> TRUE])

\* a probe of the current episode, when it has probes left and slots are free
DispatchProbe(c, dispatched) ==
    /\ dispatched < HalfOpenProbes
    /\ inflight < HalfOpenProbes
    /\ probesDispatched' = dispatched + 1
    /\ inflight' = inflight + 1
    /\ calls' = CallsWith(c, [st |-> "running", age |-> 0, probe |-> TRUE])

\* OPEN -> HALF_OPEN when the cooldown has elapsed, then acquireHalfOpen()
AcquireOpen(c) ==
    /\ state = "OPEN"
    /\ openAge >= cooldown
    /\ state' = "HALF_OPEN"
    /\ openAge' = 0
    /\ halfOpenAge' = 0
    /\ halfOpenSuccesses' = 0
    /\ \/ DispatchProbe(c, 0)
       \/ /\ inflight >= HalfOpenProbes     \* CONCURRENCY_REJECTED
          /\ probesDispatched' = 0
          /\ UNCHANGED <<inflight, calls>>
    /\ UNCHANGED cooldown

\* mutant: no deadline, HALF_OPEN waits for its probes
AcquireHalfOpenNoDeadline(c) ==
    /\ state = "HALF_OPEN"
    /\ StayInState
    /\ DispatchProbe(c, probesDispatched)
    /\ UNCHANGED halfOpenSuccesses

\* mutant: the dispatched probe is not counted
AcquireHalfOpenUncounted(c) ==
    /\ state = "HALF_OPEN"
    /\ StayInState
    /\ inflight < HalfOpenProbes
    /\ inflight' = inflight + 1
    /\ calls' = CallsWith(c, [st |-> "running", age |-> 0, probe |-> TRUE])
    /\ UNCHANGED <<probesDispatched, halfOpenSuccesses>>

AcquireHalfOpen(c) ==
    /\ state = "HALF_OPEN"
    /\ \/ /\ halfOpenAge >= HalfOpenMax     \* recovery deadline reached
          /\ TripOpen
          /\ calls' = CallsWith(c, calls[c])
          /\ UNCHANGED <<probesDispatched, inflight>>
       \/ /\ halfOpenAge < HalfOpenMax
          /\ StayInState
          /\ DispatchProbe(c, probesDispatched)
    /\ UNCHANGED halfOpenSuccesses

Acquire(c) ==
    /\ calls[c].st = "idle"
    /\ SumStats(win).total + Cardinality(Running) < MaxLoad
    /\ AcquireClosed(c) \/ AcquireOpen(c) \/ AcquireHalfOpen(c)
    /\ UNCHANGED <<consecutiveFail, consecutiveTimeout, win, redisUp>>

------------------------------------------------------------------------------
(* release() *)

(***************************************************************************)
(* checkStatisticalOpen(): the sustained-degradation test over the window. *)
(***************************************************************************)
Degraded(w) ==
    LET s == SumStats(w)
    IN  /\ s.total >= MinSamples
        /\ \/ ErrorRateAtLeast(s, ErrorRateOpen)
           \/ TimeoutRateAtLeast(s, TimeoutRateOpen)
           \/ Percentile(s, 99) >= P99Open

CheckStatisticalOpen(w) == IF Degraded(w) THEN TripOpen ELSE StayInState

\* mutant: recovery looks at the error rate only
RecoveredNoLatency(w) == ErrorRateAtMost(SumStats(w), ErrorRateRecovery)

\* the recovery thresholds, over the window that ends with this success
Recovered(w) ==
    LET s == SumStats(w)
    IN  Percentile(s, 99) <= P99Recovery /\ ErrorRateAtMost(s, ErrorRateRecovery)

\* mutant: a success in HALF_OPEN leaves the failure counters alone
OnSuccessKeepCounters(w) ==
    IF state = "HALF_OPEN"
    THEN /\ halfOpenSuccesses' = halfOpenSuccesses + 1
         /\ IF halfOpenSuccesses' >= RecoverySuccesses /\ Recovered(w)
            THEN /\ state' = "CLOSED"
                 /\ halfOpenAge' = 0
                 /\ UNCHANGED <<openAge, cooldown>>
            ELSE StayInState
         /\ UNCHANGED <<consecutiveFail, consecutiveTimeout>>
    ELSE /\ consecutiveFail' = 0
         /\ consecutiveTimeout' = 0
         /\ CheckStatisticalOpen(w)
         /\ UNCHANGED halfOpenSuccesses

OnSuccess(w) ==
    /\ consecutiveFail' = 0
    /\ consecutiveTimeout' = 0
    /\ IF state = "HALF_OPEN"
       THEN /\ halfOpenSuccesses' = halfOpenSuccesses + 1
            /\ IF halfOpenSuccesses' >= RecoverySuccesses /\ Recovered(w)
               THEN /\ state' = "CLOSED"
                    /\ halfOpenAge' = 0
                    /\ UNCHANGED <<openAge, cooldown>>
               ELSE StayInState
       ELSE /\ CheckStatisticalOpen(w)
            /\ UNCHANGED halfOpenSuccesses

OnTimeout(w) ==
    /\ consecutiveFail' = AtMost(consecutiveFail + 1, ConsecutiveFailOpen)
    /\ consecutiveTimeout' = AtMost(consecutiveTimeout + 1, ConsecutiveTimeoutOpen)
    /\ IF \/ state = "HALF_OPEN"
          \/ consecutiveTimeout' >= ConsecutiveTimeoutOpen
          \/ consecutiveFail' >= ConsecutiveFailOpen
       THEN TripOpen
       ELSE CheckStatisticalOpen(w)
    /\ UNCHANGED halfOpenSuccesses

OnError(w) ==
    /\ consecutiveFail' = AtMost(consecutiveFail + 1, ConsecutiveFailOpen)
    /\ IF state = "HALF_OPEN" \/ consecutiveFail' >= ConsecutiveFailOpen
       THEN TripOpen
       ELSE CheckStatisticalOpen(w)
    /\ UNCHANGED <<consecutiveTimeout, halfOpenSuccesses>>

(***************************************************************************)
(* release(outcome, latency): inflight never goes below zero, and the      *)
(* outcome is in the window before any threshold is looked at.             *)
(***************************************************************************)
Release(outcome, band) ==
    /\ inflight' = IF inflight > 0 THEN inflight - 1 ELSE 0
    /\ win' = RecordAged(win, outcome, band)
    /\ CASE outcome = "SUCCESS"     -> OnSuccess(win')
         [] outcome = "TIMEOUT"     -> OnTimeout(win')
         [] outcome = "REDIS_ERROR" -> OnError(win')
    /\ UNCHANGED probesDispatched

------------------------------------------------------------------------------
(* withCircuitBreaker(): fn and the timer race; finish() settles once *)

\* fn settles first: its result, or its error classified by classifyRedisError.
\* Redis that is up answers fast, except a call that it left waiting before.
Reply(c) ==
    /\ calls[c].st = "running"
    /\ \E o \in Outcomes, b \in Bands :
        /\ redisUp => o = "SUCCESS" /\ (b = 1 \/ calls[c].age >= OperationTimeout)
        /\ o = "TIMEOUT" \/ calls[c].age >= OperationTimeout => b >= TimeoutBand
        /\ Release(o, b)
    /\ calls' = CallsWith(c, Idle)
    /\ UNCHANGED redisUp

\* mutant: no breaker-level timer
TimerNever(c) == FALSE

\* mutant: the timer settles the promise but does not release the slot
TimerKeepsSlot(c) ==
    /\ calls[c].st = "running"
    /\ calls[c].age >= OperationTimeout
    /\ calls' = CallsWith(c, Abandoned)
    /\ UNCHANGED <<breaker, win, redisUp>>

\* the timer fires first; the command is left behind
TimerFires(c) ==
    /\ calls[c].st = "running"
    /\ calls[c].age >= OperationTimeout
    /\ \E b \in Bands : b >= TimeoutBand /\ Release("TIMEOUT", b)
    /\ calls' = CallsWith(c, Abandoned)
    /\ UNCHANGED redisUp

\* mutant: finish() without the settled flag, a late result releases a second time
LateReplyReleases(c) ==
    /\ calls[c].st = "abandoned"
    /\ Release("SUCCESS", TimeoutBand)
    /\ calls' = CallsWith(c, Idle)
    /\ UNCHANGED redisUp

\* the command ends after its timer: finish() returns at once
LateReply(c) ==
    /\ calls[c].st = "abandoned"
    /\ calls' = [calls EXCEPT ![c] = Idle]
    /\ UNCHANGED <<breaker, win, redisUp>>

(***************************************************************************)
(* reset(): the counters and the window are cleared, calls are not waited  *)
(* for.  No code of the service calls it ("test helper / admin reset").    *)
(***************************************************************************)
Reset ==
    /\ ResetAllowed
    /\ state' = "CLOSED"
    /\ openAge' = 0 /\ halfOpenAge' = 0
    /\ consecutiveFail' = 0 /\ consecutiveTimeout' = 0
    /\ probesDispatched' = 0 /\ halfOpenSuccesses' = 0 /\ inflight' = 0
    /\ win' = EmptyWindow
    /\ calls' = [d \in Calls |-> [calls[d] EXCEPT !.probe = FALSE]]
    /\ UNCHANGED <<cooldown, redisUp>>

------------------------------------------------------------------------------
(* The environment: the clock and Redis *)

\* A second passes.  Redis goes up or down at most once a second, and while it
\* is up it answers before the operation deadline.
Tick ==
    /\ redisUp => \A c \in Running : calls[c].age # OperationTimeout - 1
    /\ openAge' = IF state = "OPEN" THEN AtMost(openAge + 1, cooldown) ELSE 0
    /\ halfOpenAge' = IF state = "HALF_OPEN" THEN AtMost(halfOpenAge + 1, HalfOpenMax) ELSE 0
    /\ win' = SecondPasses(win)
    /\ redisUp' \in BOOLEAN
    /\ calls' = [c \in Calls |->
                    IF c \in Running
                    THEN [calls[c] EXCEPT !.age = AtMost(@ + 1, OperationTimeout)]
                    ELSE calls[c]]
    /\ UNCHANGED <<state, cooldown, consecutiveFail, consecutiveTimeout,
                   probesDispatched, halfOpenSuccesses, inflight>>

Next ==
    \/ \E c \in Calls : Acquire(c) \/ Reply(c) \/ TimerFires(c) \/ LateReply(c)
    \/ Reset
    \/ Tick

Spec == Init /\ [][Next]_vars

(***************************************************************************)
(* Fairness.  Time passes; the service keeps using Redis; a timer that is  *)
(* due fires (the event loop is not blocked for ever).  Nothing is assumed *)
(* of Redis while it is down: a command may hang for ever.  While it is up *)
(* every command is answered.                                              *)
(***************************************************************************)
Fairness ==
    /\ WF_vars(Tick)
    /\ \A c \in Calls :
        /\ WF_vars(Acquire(c))
        /\ WF_vars(TimerFires(c))
        /\ WF_vars(redisUp /\ (Reply(c) \/ LateReply(c)))

FairSpec == Spec /\ Fairness

------------------------------------------------------------------------------
(* Properties *)

TypeOK ==
    /\ state \in {"CLOSED", "OPEN", "HALF_OPEN"}
    /\ openAge \in Nat /\ cooldown \in Nat /\ halfOpenAge \in 0..HalfOpenMax
    /\ consecutiveFail \in 0..ConsecutiveFailOpen
    /\ consecutiveTimeout \in 0..ConsecutiveTimeoutOpen
    /\ probesDispatched \in 0..HalfOpenProbes
    /\ halfOpenSuccesses \in Nat
    /\ inflight \in Nat
    /\ win \in [Ages -> Stats]
    /\ calls \in [Calls -> Call]
    /\ redisUp \in BOOLEAN

\* inflight is exactly the number of calls that have not settled: acquire and
\* release stay paired although the timer and the command race to settle a
\* call, so slots neither leak nor are given back twice ("inflight slots can
\* never leak").
InflightExact == inflight = Cardinality(Running)

\* Even when reset() zeroes inflight under running calls, whose releases then
\* come on top, inflight never counts a call that does not exist, so a reset
\* cannot make the breaker reject for ever.
InflightNeverOvercounts == inflight <= Cardinality(Running)

\* The calls that wait for Redis are bounded in every state ("Max Redis
\* operations in flight"): HALF_OPEN admits on top of calls left over from
\* CLOSED only while all of them are fewer than halfOpenProbes.
ConcurrencyBounded ==
    Cardinality(Running) <= (IF MaxInflight > HalfOpenProbes THEN MaxInflight ELSE HalfOpenProbes)

\* A CLOSED circuit is always below the fast detector's thresholds: however
\* late failures and probes of earlier episodes interleave, a circuit never
\* closes (or stays closed) with a failure streak that should have opened it.
ClosedBelowThresholds ==
    state = "CLOSED" =>
        /\ consecutiveFail < ConsecutiveFailOpen
        /\ consecutiveTimeout < ConsecutiveTimeoutOpen

\* A HALF_OPEN episode has at most halfOpenProbes probes, those that already
\* answered included ("only N probe requests allowed; others skip Redis").
ProbeBudget ==
    /\ probesDispatched <= HalfOpenProbes
    /\ Cardinality(Probes) <= probesDispatched

\* A failure that arrives while the circuit is OPEN does not start its
\* cooldown again: calls admitted before the trip cannot delay recovery.
CooldownNotExtended ==
    [][state = "OPEN" /\ state' = "OPEN" => openAge' >= openAge /\ cooldown' = cooldown]_vars

\* Hysteresis: the circuit closes only with a window that would not open it
\* again at once, although recovery never looks at the timeout rate (timed-out
\* calls are slow enough to show in the p99).
ClosesOnlyWhenHealthy ==
    [][state = "HALF_OPEN" /\ state' = "CLOSED" => ~Degraded(win')]_vars

\* A HALF_OPEN circuit does not wedge: it closes or opens again, even if all
\* its probes hang or succeed without meeting the recovery thresholds.
HalfOpenResolves == state = "HALF_OPEN" ~> state # "HALF_OPEN"

\* Every admitted call gives its slot back, even if Redis never answers.
SlotsAlwaysReleased == \A c \in Calls : calls[c].st = "running" ~> calls[c].st # "running"

\* The premise of recovery: a second of HALF_OPEN sees enough callers to use up
\* the probes, and their answers.
BusyTraffic == halfOpenAge' > halfOpenAge => probesDispatched = HalfOpenProbes /\ Running = {}

\* When Redis stays up from some point on, the circuit ends up CLOSED for
\* good: no combination of old errors in the window, probe budgets, clamps and
\* deadlines keeps it out of use.  Under busy traffic only: with fewer than
\* recoverySuccesses calls in each halfOpenMaxMs the circuit never closes.
RecoversWithRedis ==
    <>[]redisUp /\ <>[][BusyTraffic]_vars => <>[](state = "CLOSED")

==============================================================================
