------------------------- MODULE CircuitBreakerProofs ------------------------
(***************************************************************************)
(* Theorems about the circuit breaker, for every configuration, any number *)
(* of callers and any load.                                                *)
(***************************************************************************)
EXTENDS CircuitBreaker, Sums

(***************************************************************************)
(* The breaker's variables without the window and the calls.               *)
(***************************************************************************)
BreakerOK ==
    /\ state \in {"CLOSED", "OPEN", "HALF_OPEN"}
    /\ openAge \in Nat /\ cooldown \in Nat /\ halfOpenAge \in 0..HalfOpenMax
    /\ consecutiveFail \in 0..ConsecutiveFailOpen
    /\ consecutiveTimeout \in 0..ConsecutiveTimeoutOpen
    /\ probesDispatched \in 0..HalfOpenProbes
    /\ halfOpenSuccesses \in Nat
    /\ inflight \in Nat

LEMMA TypeParts == TypeOK <=> /\ BreakerOK
                              /\ win \in [Ages -> Stats]
                              /\ calls \in [Calls -> Call]
                              /\ redisUp \in BOOLEAN
  BY DEF TypeOK, BreakerOK

\* The configuration constants have the types the proofs need.
LEMMA Constants ==
    /\ WindowSecs \in Nat /\ WindowSecs > 0 /\ NBands \in Nat /\ NBands > 0
    /\ ConsecutiveFailOpen \in Nat /\ ConsecutiveFailOpen > 0
    /\ ConsecutiveTimeoutOpen \in Nat /\ ConsecutiveTimeoutOpen > 0
    /\ OpenCooldown \in Nat /\ OpenCooldown > 0
    /\ HalfOpenMax \in Nat /\ HalfOpenMax > 0
    /\ OperationTimeout \in Nat /\ OperationTimeout > 0
    /\ HalfOpenProbes \in Nat /\ HalfOpenProbes > 0
    /\ MaxInflight \in Nat /\ MaxInflight > 0
    /\ CooldownJitter \in Nat
    /\ TimeoutBand \in Bands
    /\ IsFiniteSet(Calls)
  BY WindowAssumption, BreakerAssumption

\* Counting a call keeps a bucket a bucket.
LEMMA CountType ==
    ASSUME NEW s \in Stats, NEW o, NEW b \in Bands
    PROVE  Count(s, o, b) \in Stats
  <1>1. s.total + 1 \in Nat
    BY DEF Stats
  <1>2. s.errors + (IF o = "REDIS_ERROR" THEN 1 ELSE 0) \in Nat
    BY DEF Stats
  <1>3. s.timeouts + (IF o = "TIMEOUT" THEN 1 ELSE 0) \in Nat
    BY DEF Stats
  <1>4. [s.hist EXCEPT ![b] = @ + 1] \in [Bands -> Nat]
    BY DEF Stats
  <1> QED BY <1>1, <1>2, <1>3, <1>4 DEF Count, Stats

LEMMA NoStatsType == NoStats \in Stats
  BY DEF NoStats, Stats

\* Recording and the passing of a second keep a window a window.
LEMMA WindowType ==
    /\ EmptyWindow \in [Ages -> Stats]
    /\ \A w \in [Ages -> Stats] : SecondPasses(w) \in [Ages -> Stats]
    /\ \A w \in [Ages -> Stats], o \in Outcomes, b \in Bands : RecordAged(w, o, b) \in [Ages -> Stats]
  <1>1. EmptyWindow \in [Ages -> Stats]
    BY NoStatsType DEF EmptyWindow
  <1>2. ASSUME NEW w \in [Ages -> Stats] PROVE SecondPasses(w) \in [Ages -> Stats]
    BY NoStatsType, Constants DEF SecondPasses, Ages
  <1>3. ASSUME NEW w \in [Ages -> Stats], NEW o, NEW b \in Bands
        PROVE  RecordAged(w, o, b) \in [Ages -> Stats]
    <2>1. 0 \in Ages /\ WindowSecs \in Ages
      BY Constants DEF Ages
    <2>2. Count(w[0], o, b) \in Stats
      BY <2>1, CountType
    <2> QED BY <2>1, <2>2, NoStatsType DEF RecordAged
  <1> QED BY <1>1, <1>2, <1>3

\* tripOpen() leaves the circuit OPEN, with a cooldown.
LEMMA TripOpenType ==
    ASSUME BreakerOK, TripOpen
    PROVE  /\ state' = "OPEN"
           /\ openAge' \in Nat /\ cooldown' \in Nat /\ halfOpenAge' \in 0..HalfOpenMax
  BY Constants DEF BreakerOK, TripOpen, Jitter

\* What release() does to the breaker, whatever the outcome.
LEMMA ReleaseType ==
    ASSUME BreakerOK, NEW o \in Outcomes, NEW b \in Bands, Release(o, b),
           win \in [Ages -> Stats]
    PROVE  BreakerOK' /\ win' \in [Ages -> Stats]
  <1>1. win' \in [Ages -> Stats]
    BY WindowType DEF Release
  <1>2. inflight' \in Nat /\ probesDispatched' \in 0..HalfOpenProbes
    BY DEF Release, BreakerOK
  <1> DEFINE StateOK == /\ state' \in {"CLOSED", "OPEN", "HALF_OPEN"}
                        /\ openAge' \in Nat /\ cooldown' \in Nat
                        /\ halfOpenAge' \in 0..HalfOpenMax
  <1>3. ASSUME StayInState PROVE StateOK
    BY <1>3 DEF StayInState, BreakerOK
  <1>4. ASSUME TripOpen PROVE StateOK
    BY <1>4, TripOpenType
  <1>5. ASSUME NEW w, CheckStatisticalOpen(w) PROVE StateOK
    BY <1>3, <1>4, <1>5 DEF CheckStatisticalOpen
  <1> HIDE DEF StateOK
  <1>6. CASE o = "SUCCESS"
    <2>1. OnSuccess(win')
      BY <1>6 DEF Release
    <2>2. consecutiveFail' = 0 /\ consecutiveTimeout' = 0
      BY <2>1 DEF OnSuccess
    <2>3. halfOpenSuccesses' \in Nat
      BY <2>1 DEF OnSuccess, BreakerOK
    <2>4. StateOK
      <3>1. CASE state = "HALF_OPEN"
        <4>1. CASE halfOpenSuccesses' >= RecoverySuccesses /\ Recovered(win')
          BY <2>1, <3>1, <4>1, Constants DEF OnSuccess, BreakerOK, StateOK
        <4>2. CASE ~(halfOpenSuccesses' >= RecoverySuccesses /\ Recovered(win'))
          BY <2>1, <3>1, <4>2, <1>3 DEF OnSuccess
        <4> QED BY <4>1, <4>2
      <3>2. CASE state # "HALF_OPEN"
        BY <2>1, <3>2, <1>5 DEF OnSuccess
      <3> QED BY <3>1, <3>2
    <2> QED BY <1>1, <1>2, <2>2, <2>3, <2>4, Constants DEF StateOK, BreakerOK
  <1>7. CASE o = "TIMEOUT"
    <2>1. OnTimeout(win')
      BY <1>7 DEF Release
    <2>2. consecutiveFail' \in 0..ConsecutiveFailOpen
      BY <2>1, Constants DEF OnTimeout, BreakerOK, AtMost
    <2>3. consecutiveTimeout' \in 0..ConsecutiveTimeoutOpen
      BY <2>1, Constants DEF OnTimeout, BreakerOK, AtMost
    <2>4. StateOK
      BY <2>1, <1>4, <1>5 DEF OnTimeout
    <2>5. halfOpenSuccesses' \in Nat
      BY <2>1 DEF OnTimeout, BreakerOK
    <2> QED BY <1>1, <1>2, <2>2, <2>3, <2>4, <2>5 DEF StateOK, BreakerOK
  <1>8. CASE o = "REDIS_ERROR"
    <2>1. OnError(win')
      BY <1>8 DEF Release
    <2>2. consecutiveFail' \in 0..ConsecutiveFailOpen
      BY <2>1, Constants DEF OnError, BreakerOK, AtMost
    <2>3. StateOK
      BY <2>1, <1>4, <1>5 DEF OnError
    <2>4. halfOpenSuccesses' \in Nat /\ consecutiveTimeout' \in 0..ConsecutiveTimeoutOpen
      BY <2>1 DEF OnError, BreakerOK
    <2> QED BY <1>1, <1>2, <2>2, <2>3, <2>4 DEF StateOK, BreakerOK
  <1> QED BY <1>6, <1>7, <1>8 DEF Outcomes

------------------------------------------------------------------------------
(* Type correctness *)

\* Moving a call on keeps the calls well formed.
LEMMA CallsWithType ==
    ASSUME calls \in [Calls -> Call], NEW c \in Calls, NEW nc \in Call
    PROVE  CallsWith(c, nc) \in [Calls -> Call]
  <1>1. ASSUME NEW d \in Calls
        PROVE  [(IF d = c THEN nc ELSE calls[d]) EXCEPT !.probe = @ /\ state' = "HALF_OPEN"] \in Call
    BY DEF Call
  <1> QED BY <1>1 DEF CallsWith

LEMMA NewCalls ==
    /\ Idle \in Call /\ Abandoned \in Call
    /\ \A p \in BOOLEAN : [st |-> "running", age |-> 0, probe |-> p] \in Call
  BY Constants DEF Idle, Abandoned, Call

\* Admitting a call, as a probe or not, or tripping on the deadline.
LEMMA AcquireType ==
    ASSUME TypeOK, NEW c \in Calls, Acquire(c)
    PROVE  TypeOK'
  <1>1. win' \in [Ages -> Stats] /\ redisUp' \in BOOLEAN
    BY DEF Acquire, TypeOK
  <1>2. consecutiveFail' \in 0..ConsecutiveFailOpen /\ consecutiveTimeout' \in 0..ConsecutiveTimeoutOpen
    BY DEF Acquire, TypeOK
  <1>3. CASE AcquireClosed(c)
    <2>1. calls' \in [Calls -> Call]
      BY <1>3, NewCalls, CallsWithType DEF AcquireClosed, TypeOK
    <2> QED BY <1>1, <1>2, <1>3, <2>1 DEF AcquireClosed, StayInState, TypeOK
  <1>4. ASSUME NEW n \in Nat, n <= HalfOpenProbes, DispatchProbe(c, n)
        PROVE  /\ calls' \in [Calls -> Call]
               /\ probesDispatched' \in 0..HalfOpenProbes /\ inflight' \in Nat
    <2>1. calls' \in [Calls -> Call]
      BY <1>4, NewCalls, CallsWithType DEF DispatchProbe, TypeOK
    <2> QED BY <1>4, <2>1, Constants DEF DispatchProbe, TypeOK
  <1>5. CASE AcquireOpen(c)
    <2>1. CASE DispatchProbe(c, 0)
      BY <1>1, <1>2, <1>4, <1>5, <2>1, Constants DEF AcquireOpen, TypeOK
    <2>2. CASE probesDispatched' = 0 /\ UNCHANGED <<inflight, calls>>
      BY <1>1, <1>2, <1>5, <2>2, Constants DEF AcquireOpen, TypeOK
    <2> QED BY <1>5, <2>1, <2>2 DEF AcquireOpen
  <1>6. CASE AcquireHalfOpen(c)
    <2>1. CASE TripOpen /\ calls' = CallsWith(c, calls[c]) /\ UNCHANGED <<probesDispatched, inflight>>
      <3>1. calls' \in [Calls -> Call]
        BY <2>1, CallsWithType DEF TypeOK
      <3>2. /\ state' = "OPEN"
            /\ openAge' \in Nat /\ cooldown' \in Nat /\ halfOpenAge' \in 0..HalfOpenMax
        BY <2>1, TripOpenType, TypeParts
      <3> QED BY <1>1, <1>2, <1>6, <2>1, <3>1, <3>2 DEF AcquireHalfOpen, TypeOK
    <2>2. CASE StayInState /\ DispatchProbe(c, probesDispatched)
      <3>1. /\ calls' \in [Calls -> Call]
            /\ probesDispatched' \in 0..HalfOpenProbes /\ inflight' \in Nat
        BY <1>4, <2>2, Constants DEF TypeOK
      <3> QED BY <1>1, <1>2, <1>6, <2>2, <3>1 DEF AcquireHalfOpen, StayInState, TypeOK
    <2> QED BY <1>6, <2>1, <2>2 DEF AcquireHalfOpen
  <1> QED BY <1>3, <1>5, <1>6 DEF Acquire

\* A call that settles releases once, with an outcome and a band.
LEMMA SettleReleases ==
    ASSUME NEW c \in Calls, Reply(c) \/ TimerFires(c)
    PROVE  /\ \E o \in Outcomes, b \in Bands : Release(o, b)
           /\ calls[c].st = "running"
           /\ \E nc \in {Idle, Abandoned} : calls' = CallsWith(c, nc)
           /\ UNCHANGED redisUp
  BY DEF Reply, TimerFires, Outcomes

LEMMA SettleType ==
    ASSUME TypeOK, NEW c \in Calls, Reply(c) \/ TimerFires(c)
    PROVE  TypeOK'
  <1>1. calls' \in [Calls -> Call]
    <2>1. PICK nc \in {Idle, Abandoned} : calls' = CallsWith(c, nc)
      BY SettleReleases
    <2>2. nc \in Call
      BY NewCalls
    <2> QED BY <2>1, <2>2, CallsWithType DEF TypeOK
  <1>2. BreakerOK' /\ win' \in [Ages -> Stats]
    BY SettleReleases, ReleaseType, TypeParts
  <1>3. redisUp' \in BOOLEAN
    BY SettleReleases DEF TypeOK
  <1> QED BY <1>1, <1>2, <1>3 DEF TypeOK, BreakerOK

LEMMA TickType ==
    ASSUME TypeOK, Tick
    PROVE  TypeOK'
  <1>1. win' \in [Ages -> Stats]
    BY WindowType DEF Tick, TypeOK
  <1>2. calls' \in [Calls -> Call]
    <2>1. ASSUME NEW d \in Calls
          PROVE  [calls[d] EXCEPT !.age = AtMost(@ + 1, OperationTimeout)] \in Call
      BY Constants DEF TypeOK, Call, AtMost
    <2> QED BY <2>1 DEF Tick, TypeOK
  <1>3. openAge' \in Nat /\ halfOpenAge' \in 0..HalfOpenMax
    BY Constants DEF Tick, TypeOK, AtMost
  <1> QED BY <1>1, <1>2, <1>3 DEF Tick, TypeOK

LEMMA ResetType ==
    ASSUME TypeOK, Reset
    PROVE  TypeOK'
  <1>1. calls' \in [Calls -> Call]
    BY DEF Reset, TypeOK, Call
  <1> QED BY <1>1, WindowType, Constants DEF Reset, TypeOK

\* Every variable of the breaker keeps its range: in particular no more probes
\* are dispatched than halfOpenProbes, and a window stays a window.
THEOREM TypeCorrect == Spec => []TypeOK
  <1>1. Init => TypeOK
    BY Constants, WindowType, NewCalls DEF Init, TypeOK
  <1>2. TypeOK /\ [Next]_vars => TypeOK'
    <2> SUFFICES ASSUME TypeOK, [Next]_vars PROVE TypeOK'
      OBVIOUS
    <2>1. ASSUME NEW c \in Calls, Acquire(c) PROVE TypeOK'
      BY <2>1, AcquireType
    <2>2. ASSUME NEW c \in Calls, Reply(c) \/ TimerFires(c) PROVE TypeOK'
      BY <2>2, SettleType
    <2>3. ASSUME NEW c \in Calls, LateReply(c) PROVE TypeOK'
      BY <2>3, NewCalls DEF LateReply, breaker, TypeOK
    <2>4. CASE Reset
      BY <2>4, ResetType
    <2>5. CASE Tick
      BY <2>5, TickType
    <2>6. CASE UNCHANGED vars
      BY <2>6 DEF vars, breaker, TypeOK
    <2> QED BY <2>1, <2>2, <2>3, <2>4, <2>5, <2>6 DEF Next
  <1> QED BY <1>1, <1>2, PTL DEF Spec

------------------------------------------------------------------------------
(* The fast detector *)

\* release() keeps the counters of a CLOSED circuit below the thresholds: a
\* failure that reaches one opens the circuit, a success clears them.
LEMMA ReleaseBelowThresholds ==
    ASSUME BreakerOK, ClosedBelowThresholds,
           NEW o \in Outcomes, NEW b \in Bands, Release(o, b)
    PROVE  ClosedBelowThresholds'
  <1>1. ASSUME TripOpen PROVE state' = "OPEN"
    BY <1>1 DEF TripOpen
  <1>2. CASE o = "SUCCESS"
    BY <1>2, Constants DEF Release, OnSuccess, ClosedBelowThresholds
  <1>3. CASE o = "TIMEOUT"
    <2>1. OnTimeout(win')
      BY <1>3 DEF Release
    <2>2. /\ consecutiveFail' \in 0..ConsecutiveFailOpen
          /\ consecutiveTimeout' \in 0..ConsecutiveTimeoutOpen
      BY <2>1, Constants DEF OnTimeout, BreakerOK, AtMost
    <2>3. CASE \/ consecutiveTimeout' >= ConsecutiveTimeoutOpen
               \/ consecutiveFail' >= ConsecutiveFailOpen
      BY <2>1, <2>3, <1>1 DEF OnTimeout, ClosedBelowThresholds
    <2> QED BY <2>2, <2>3, Constants DEF ClosedBelowThresholds
  <1>4. CASE o = "REDIS_ERROR"
    <2>1. OnError(win')
      BY <1>4 DEF Release
    <2>2. consecutiveFail' \in 0..ConsecutiveFailOpen /\ consecutiveTimeout' = consecutiveTimeout
      BY <2>1, Constants DEF OnError, BreakerOK, AtMost
    <2>3. CASE state = "HALF_OPEN" \/ consecutiveFail' >= ConsecutiveFailOpen
      BY <2>1, <2>3, <1>1 DEF OnError, ClosedBelowThresholds
    <2>4. CASE ~(state = "HALF_OPEN" \/ consecutiveFail' >= ConsecutiveFailOpen)
      <3>1. CheckStatisticalOpen(win')
        BY <2>1, <2>4 DEF OnError
      <3>2. state' = "OPEN" \/ state' = state
        BY <3>1, <1>1 DEF CheckStatisticalOpen, StayInState
      <3> QED BY <2>2, <2>4, <3>2, Constants DEF ClosedBelowThresholds, BreakerOK
    <2> QED BY <2>3, <2>4
  <1> QED BY <1>2, <1>3, <1>4 DEF Outcomes

\* A CLOSED circuit is below both thresholds of the fast detector, with or
\* without reset(), whatever late outcomes arrive.
THEOREM FastDetector == Spec => []ClosedBelowThresholds
  <1>1. Init => ClosedBelowThresholds
    BY Constants DEF Init, ClosedBelowThresholds
  <1>2. TypeOK /\ ClosedBelowThresholds /\ [Next]_vars => ClosedBelowThresholds'
    <2> SUFFICES ASSUME TypeOK, ClosedBelowThresholds, [Next]_vars
                 PROVE  ClosedBelowThresholds'
      OBVIOUS
    <2>1. ASSUME NEW c \in Calls, Acquire(c) PROVE ClosedBelowThresholds'
      <3>1. UNCHANGED <<consecutiveFail, consecutiveTimeout>>
        BY <2>1 DEF Acquire
      <3>2. state' = "CLOSED" => state = "CLOSED"
        BY <2>1 DEF Acquire, AcquireClosed, AcquireOpen, AcquireHalfOpen, StayInState, TripOpen
      <3> QED BY <3>1, <3>2 DEF ClosedBelowThresholds
    <2>2. ASSUME NEW c \in Calls, Reply(c) \/ TimerFires(c) PROVE ClosedBelowThresholds'
      BY <2>2, SettleReleases, ReleaseBelowThresholds, TypeParts
    <2>3. ASSUME NEW c \in Calls, LateReply(c) PROVE ClosedBelowThresholds'
      BY <2>3 DEF LateReply, breaker, ClosedBelowThresholds
    <2>4. CASE Reset
      BY <2>4, Constants DEF Reset, ClosedBelowThresholds
    <2>5. CASE Tick
      BY <2>5 DEF Tick, ClosedBelowThresholds
    <2>6. CASE UNCHANGED vars
      BY <2>6 DEF vars, breaker, ClosedBelowThresholds
    <2> QED BY <2>1, <2>2, <2>3, <2>4, <2>5, <2>6 DEF Next
  <1> QED BY <1>1, <1>2, TypeCorrect, PTL DEF Spec

------------------------------------------------------------------------------
(* Slots and the concurrency limit, while reset() is not used *)

\* The running calls after one call has moved.
LEMMA RunningAfter ==
    ASSUME calls \in [Calls -> Call], NEW c \in Calls, NEW nc \in Call,
           calls' = CallsWith(c, nc)
    PROVE  Running' = IF nc.st = "running" THEN Running \cup {c} ELSE Running \ {c}
  <1>1. ASSUME NEW d \in Calls
        PROVE  calls'[d].st = IF d = c THEN nc.st ELSE calls[d].st
    BY DEF CallsWith, Call
  <1> QED BY <1>1 DEF Running

LEMMA RunningFinite == IsFiniteSet(Running) /\ Running \subseteq Calls
  BY Constants, FS_Subset DEF Running

Limit == IF MaxInflight > HalfOpenProbes THEN MaxInflight ELSE HalfOpenProbes

\* The inductive invariant: inflight counts the running calls, and no way of
\* admitting a call takes it over the limit.
SlotsInv == TypeOK /\ InflightExact /\ inflight <= Limit

LEMMA AcquireSlots ==
    ASSUME SlotsInv, NEW c \in Calls, Acquire(c)
    PROVE  InflightExact' /\ inflight' <= Limit
  <1>1. c \notin Running
    BY DEF Acquire, Running
  <1>2. ASSUME NEW p \in BOOLEAN, inflight' = inflight + 1,
               calls' = CallsWith(c, [st |-> "running", age |-> 0, probe |-> p])
        PROVE  InflightExact'
    <2>1. Running' = Running \cup {c}
      BY <1>2, RunningAfter, NewCalls DEF SlotsInv, TypeOK
    <2>2. Cardinality(Running \cup {c}) = Cardinality(Running) + 1
      BY <1>1, RunningFinite, FS_AddElement
    <2> QED BY <1>2, <2>1, <2>2 DEF InflightExact, SlotsInv
  <1>3. CASE AcquireClosed(c)
    <2>1. InflightExact'
      BY <1>2, <1>3 DEF AcquireClosed
    <2>2. inflight' <= Limit
      BY <1>3, Constants DEF AcquireClosed, SlotsInv, TypeOK, Limit
    <2> QED BY <2>1, <2>2
  <1>4. ASSUME NEW n, DispatchProbe(c, n)
        PROVE  InflightExact' /\ inflight' <= Limit
    <2>1. InflightExact'
      BY <1>2, <1>4 DEF DispatchProbe
    <2>2. inflight' <= Limit
      BY <1>4, Constants DEF DispatchProbe, SlotsInv, TypeOK, Limit
    <2> QED BY <2>1, <2>2
  <1>5. ASSUME UNCHANGED <<inflight, calls>>
        PROVE  InflightExact' /\ inflight' <= Limit
    BY <1>5 DEF SlotsInv, InflightExact, Running
  <1>6. CASE AcquireOpen(c)
    BY <1>4, <1>5, <1>6 DEF AcquireOpen
  <1>7. CASE AcquireHalfOpen(c)
    <2>1. CASE calls' = CallsWith(c, calls[c]) /\ UNCHANGED inflight
      <3>1. calls[c] \in Call /\ calls[c].st # "running"
        BY DEF Acquire, SlotsInv, TypeOK
      <3>2. Running' = Running \ {c}
        BY <2>1, <3>1, RunningAfter DEF SlotsInv, TypeOK
      <3> QED BY <1>1, <2>1, <3>2 DEF SlotsInv, InflightExact
    <2> QED BY <1>4, <1>7, <2>1 DEF AcquireHalfOpen
  <1> QED BY <1>3, <1>6, <1>7 DEF Acquire

LEMMA SettleSlots ==
    ASSUME SlotsInv, NEW c \in Calls, Reply(c) \/ TimerFires(c)
    PROVE  InflightExact' /\ inflight' <= Limit
  <1>1. PICK nc \in {Idle, Abandoned} : calls' = CallsWith(c, nc)
    BY SettleReleases
  <1>2. Running' = Running \ {c}
    BY <1>1, RunningAfter, NewCalls DEF SlotsInv, TypeOK, Idle, Abandoned
  <1>3. c \in Running
    BY SettleReleases DEF Running
  <1>4. Cardinality(Running \ {c}) = Cardinality(Running) - 1
    BY <1>3, RunningFinite, FS_RemoveElement
  <1>5. inflight' = IF inflight > 0 THEN inflight - 1 ELSE 0
    BY SettleReleases DEF Release
  <1>6. inflight > 0
    <2>1. Cardinality(Running) # 0
      BY <1>3, RunningFinite, FS_EmptySet
    <2> QED BY <2>1 DEF SlotsInv, InflightExact, TypeOK
  <1> QED BY <1>2, <1>4, <1>5, <1>6, Constants DEF SlotsInv, InflightExact, TypeOK, Limit

\* The slots of the breaker are exact and bounded in every execution without
\* reset(), for any number of callers: a slot is given back exactly once, by
\* the command's answer or by the timer.
THEOREM SlotsSafe == ~ResetAllowed /\ Spec => [](InflightExact /\ ConcurrencyBounded)
  <1> SUFFICES ASSUME ~ResetAllowed PROVE Spec => [](InflightExact /\ ConcurrencyBounded)
    OBVIOUS
  <1>1. Init => SlotsInv
    <2> SUFFICES ASSUME Init PROVE SlotsInv
      OBVIOUS
    <2>1. TypeOK
      BY Constants, WindowType, NewCalls DEF Init, TypeOK
    <2>2. Running = {}
      BY DEF Init, Running, Idle
    <2> QED BY <2>1, <2>2, FS_EmptySet, Constants DEF Init, SlotsInv, InflightExact, Limit
  <1>2. SlotsInv /\ TypeOK' /\ [Next]_vars => SlotsInv'
    <2> SUFFICES ASSUME SlotsInv, TypeOK', [Next]_vars
                 PROVE  InflightExact' /\ inflight' <= Limit
      BY DEF SlotsInv, Limit
    <2>1. ASSUME NEW c \in Calls, Acquire(c) PROVE InflightExact' /\ inflight' <= Limit
      BY <2>1, AcquireSlots
    <2>2. ASSUME NEW c \in Calls, Reply(c) \/ TimerFires(c)
          PROVE  InflightExact' /\ inflight' <= Limit
      BY <2>2, SettleSlots
    <2>3. ASSUME UNCHANGED inflight, Running' = Running
          PROVE  InflightExact' /\ inflight' <= Limit
      BY <2>3 DEF SlotsInv, InflightExact
    <2>4. ASSUME NEW c \in Calls, LateReply(c) PROVE UNCHANGED inflight /\ Running' = Running
      BY <2>4 DEF LateReply, breaker, Running, Idle, SlotsInv, TypeOK
    <2>5. ASSUME Tick PROVE UNCHANGED inflight /\ Running' = Running
      <3>1. ASSUME NEW d \in Calls PROVE calls'[d].st = calls[d].st
        BY <2>5 DEF Tick, SlotsInv, TypeOK, Call
      <3> QED BY <2>5, <3>1 DEF Tick, Running
    <2>6. ASSUME UNCHANGED vars PROVE UNCHANGED inflight /\ Running' = Running
      BY <2>6 DEF vars, breaker, Running
    <2> QED BY <2>1, <2>2, <2>3, <2>4, <2>5, <2>6 DEF Next, Reset
  <1>3. SlotsInv => InflightExact /\ ConcurrencyBounded
    BY DEF SlotsInv, InflightExact, ConcurrencyBounded, Limit
  <1> QED BY <1>1, <1>2, <1>3, TypeCorrect, PTL DEF Spec

------------------------------------------------------------------------------
(* Slots when reset() is used as well *)

\* Every step moves inflight and at most one call together, or clears inflight.
LEMMA SlotMoves ==
    ASSUME TypeOK, [Next]_vars
    PROVE  \/ inflight' \in {inflight, 0} /\ Running' = Running
           \/ inflight' = inflight + 1 /\ \E c \in Calls \ Running : Running' = Running \cup {c}
           \/ /\ inflight' = IF inflight > 0 THEN inflight - 1 ELSE 0
              /\ \E c \in Running : Running' = Running \ {c}
  <1> DEFINE Moves == \/ inflight' \in {inflight, 0} /\ Running' = Running
                      \/ /\ inflight' = inflight + 1
                         /\ \E c \in Calls \ Running : Running' = Running \cup {c}
                      \/ /\ inflight' = IF inflight > 0 THEN inflight - 1 ELSE 0
                         /\ \E c \in Running : Running' = Running \ {c}
  <1> SUFFICES Moves
    OBVIOUS
  <1>1. ASSUME NEW c \in Calls, Acquire(c) PROVE Moves
    <2>1. c \notin Running
      BY <1>1 DEF Acquire, Running
    <2>2. ASSUME NEW p \in BOOLEAN, inflight' = inflight + 1,
                 calls' = CallsWith(c, [st |-> "running", age |-> 0, probe |-> p])
          PROVE  Moves
      <3>1. Running' = Running \cup {c}
        BY <2>2, RunningAfter, NewCalls DEF TypeOK
      <3> QED BY <2>1, <2>2, <3>1
    <2>3. ASSUME NEW n, DispatchProbe(c, n) PROVE Moves
      BY <2>2, <2>3 DEF DispatchProbe
    <2>4. ASSUME UNCHANGED <<inflight, calls>> PROVE Moves
      BY <2>4 DEF Running
    <2>5. ASSUME calls' = CallsWith(c, calls[c]), UNCHANGED inflight PROVE Moves
      <3>1. calls[c] \in Call /\ calls[c].st # "running"
        BY <1>1 DEF Acquire, TypeOK
      <3>2. Running' = Running
        BY <2>1, <2>5, <3>1, RunningAfter DEF TypeOK
      <3> QED BY <2>5, <3>2
    <2>6. CASE AcquireClosed(c)
      BY <2>2, <2>6 DEF AcquireClosed
    <2>7. CASE AcquireOpen(c)
      BY <2>3, <2>4, <2>7 DEF AcquireOpen
    <2>8. CASE AcquireHalfOpen(c)
      BY <2>3, <2>5, <2>8 DEF AcquireHalfOpen
    <2> QED BY <1>1, <2>6, <2>7, <2>8 DEF Acquire
  <1>2. ASSUME NEW c \in Calls, Reply(c) \/ TimerFires(c) PROVE Moves
    <2>1. PICK nc \in {Idle, Abandoned} : calls' = CallsWith(c, nc)
      BY <1>2, SettleReleases
    <2>2. Running' = Running \ {c}
      BY <2>1, RunningAfter, NewCalls DEF TypeOK, Idle, Abandoned
    <2>3. c \in Running
      BY <1>2, SettleReleases DEF Running
    <2>4. inflight' = IF inflight > 0 THEN inflight - 1 ELSE 0
      BY <1>2, SettleReleases DEF Release
    <2> QED BY <2>2, <2>3, <2>4
  <1>3. ASSUME \A d \in Calls : calls'[d].st = "running" <=> calls[d].st = "running"
        PROVE  Running' = Running
    BY <1>3 DEF Running
  <1>4. ASSUME NEW c \in Calls, LateReply(c) PROVE Moves
    <2>1. \A d \in Calls : calls'[d].st = "running" <=> calls[d].st = "running"
      BY <1>4 DEF LateReply, Idle, TypeOK
    <2> QED BY <1>3, <1>4, <2>1 DEF LateReply, breaker
  <1>5. CASE Tick
    <2>1. \A d \in Calls : calls'[d].st = "running" <=> calls[d].st = "running"
      BY <1>5 DEF Tick, TypeOK, Call
    <2> QED BY <1>3, <1>5, <2>1 DEF Tick
  <1>6. CASE Reset
    <2>1. \A d \in Calls : calls'[d].st = "running" <=> calls[d].st = "running"
      BY <1>6 DEF Reset, TypeOK, Call
    <2> QED BY <1>3, <1>6, <2>1 DEF Reset
  <1>7. CASE UNCHANGED vars
    BY <1>7 DEF vars, breaker, Running
  <1> QED BY <1>1, <1>2, <1>4, <1>5, <1>6, <1>7 DEF Next

\* Even when reset() clears inflight under running calls, inflight never counts a
\* call that does not exist: release() stops at zero, and acquire() counts up only
\* for a call it admits.
THEOREM NeverOvercounts == Spec => []InflightNeverOvercounts
  <1>1. Init => InflightNeverOvercounts
    <2> SUFFICES ASSUME Init PROVE InflightNeverOvercounts
      OBVIOUS
    <2>1. Running = {}
      BY DEF Init, Running, Idle
    <2> QED BY <2>1, FS_EmptySet DEF Init, InflightNeverOvercounts
  <1>2. TypeOK /\ InflightNeverOvercounts /\ [Next]_vars => InflightNeverOvercounts'
    <2> SUFFICES ASSUME TypeOK, InflightNeverOvercounts, [Next]_vars
                 PROVE  inflight' <= Cardinality(Running')
      BY DEF InflightNeverOvercounts
    <2>1. inflight \in Nat /\ Cardinality(Running) \in Nat /\ inflight <= Cardinality(Running)
      BY RunningFinite, FS_CardinalityType DEF TypeOK, InflightNeverOvercounts
    <2>2. CASE inflight' \in {inflight, 0} /\ Running' = Running
      BY <2>1, <2>2
    <2>3. ASSUME inflight' = inflight + 1, NEW c \in Calls \ Running, Running' = Running \cup {c}
          PROVE  inflight' <= Cardinality(Running')
      <3>1. Cardinality(Running \cup {c}) = Cardinality(Running) + 1
        BY <2>3, RunningFinite, FS_AddElement
      <3> QED BY <2>1, <2>3, <3>1
    <2>4. ASSUME inflight' = IF inflight > 0 THEN inflight - 1 ELSE 0,
                 NEW c \in Running, Running' = Running \ {c}
          PROVE  inflight' <= Cardinality(Running')
      <3>1. /\ Cardinality(Running \ {c}) = Cardinality(Running) - 1
            /\ Cardinality(Running \ {c}) \in Nat
        BY RunningFinite, FS_RemoveElement, FS_CardinalityType
      <3> QED BY <2>1, <2>4, <3>1
    <2> QED BY <2>2, <2>3, <2>4, SlotMoves
  <1> QED BY <1>1, <1>2, TypeCorrect, PTL DEF Spec

------------------------------------------------------------------------------
(* The probes of a HALF_OPEN episode *)

\* The probes after one call has moved: none once HALF_OPEN is over.
LEMMA ProbesAfter ==
    ASSUME calls \in [Calls -> Call], NEW c \in Calls, NEW nc \in Call,
           calls' = CallsWith(c, nc)
    PROVE  /\ state' # "HALF_OPEN" => Probes' = {}
           /\ state' = "HALF_OPEN" /\ nc.st = "running" /\ nc.probe => Probes' = Probes \cup {c}
           /\ state' = "HALF_OPEN" /\ nc.st # "running" => Probes' = Probes \ {c}
  <1>1. ASSUME NEW d \in Calls
        PROVE  /\ calls'[d].st = IF d = c THEN nc.st ELSE calls[d].st
               /\ calls'[d].probe <=> /\ IF d = c THEN nc.probe ELSE calls[d].probe
                                      /\ state' = "HALF_OPEN"
    BY DEF CallsWith, Call
  <1> QED BY <1>1 DEF Running, Probes

\* The inductive invariant: probes exist only in HALF_OPEN, and they are some
\* of those counted since the episode began.
ProbesInv == TypeOK /\ ProbeBudget /\ (state # "HALF_OPEN" => Probes = {})

LEMMA ProbesFinite == IsFiniteSet(Probes)
  BY RunningFinite, FS_Subset DEF Probes

LEMMA EmptyBudget == Cardinality({}) = 0
  BY FS_EmptySet

\* Sending a probe costs one from the budget.
LEMMA DispatchBudget ==
    ASSUME ProbesInv, NEW c \in Calls, calls[c].st = "idle", state' = "HALF_OPEN",
           NEW n \in Nat, n <= HalfOpenProbes, Cardinality(Probes) <= n, DispatchProbe(c, n)
    PROVE  ProbeBudget'
  <1>1. Probes' = Probes \cup {c}
    BY ProbesAfter, NewCalls DEF DispatchProbe, ProbesInv, TypeOK
  <1>2. c \notin Probes
    BY DEF Probes, Running
  <1>3. Cardinality(Probes \cup {c}) = Cardinality(Probes) + 1
    BY <1>2, ProbesFinite, FS_AddElement
  <1>4. Cardinality(Probes) \in Nat
    BY ProbesFinite, FS_CardinalityType
  <1> QED BY <1>1, <1>3, <1>4, Constants DEF DispatchProbe, ProbeBudget

LEMMA AcquireProbes ==
    ASSUME ProbesInv, NEW c \in Calls, Acquire(c)
    PROVE  ProbeBudget' /\ (state' # "HALF_OPEN" => Probes' = {})
  <1>1. calls[c].st = "idle"
    BY DEF Acquire
  <1>2. CASE AcquireClosed(c)
    <2>1. state' = "CLOSED" /\ probesDispatched' = probesDispatched
      BY <1>2 DEF AcquireClosed, StayInState
    <2>2. Probes' = {}
      BY <1>2, <2>1, ProbesAfter, NewCalls DEF AcquireClosed, ProbesInv, TypeOK
    <2> QED BY <2>1, <2>2, EmptyBudget, Constants DEF ProbesInv, TypeOK, ProbeBudget
  <1>3. CASE AcquireOpen(c)
    <2>1. state' = "HALF_OPEN" /\ Probes = {}
      BY <1>3 DEF AcquireOpen, ProbesInv
    <2>2. CASE DispatchProbe(c, 0)
      BY <1>1, <2>1, <2>2, DispatchBudget, EmptyBudget, Constants
    <2>3. CASE probesDispatched' = 0 /\ UNCHANGED <<inflight, calls>>
      <3>1. Probes' = Probes
        BY <2>3 DEF Probes, Running
      <3> QED BY <2>1, <2>3, <3>1, EmptyBudget, Constants DEF ProbeBudget
    <2> QED BY <1>3, <2>1, <2>2, <2>3 DEF AcquireOpen
  <1>4. CASE AcquireHalfOpen(c)
    <2>1. CASE TripOpen /\ calls' = CallsWith(c, calls[c]) /\ UNCHANGED probesDispatched
      <3>1. state' = "OPEN"
        BY <1>4, <2>1 DEF TripOpen, AcquireHalfOpen
      <3>2. Probes' = {}
        BY <2>1, <3>1, ProbesAfter DEF ProbesInv, TypeOK
      <3> QED BY <2>1, <3>1, <3>2, EmptyBudget, Constants DEF ProbesInv, TypeOK, ProbeBudget
    <2>2. CASE StayInState /\ DispatchProbe(c, probesDispatched)
      <3>1. state' = "HALF_OPEN"
        BY <1>4, <2>2 DEF AcquireHalfOpen, StayInState
      <3> QED BY <1>1, <2>2, <3>1, DispatchBudget, Constants DEF ProbesInv, TypeOK, ProbeBudget
    <2> QED BY <1>4, <2>1, <2>2 DEF AcquireHalfOpen
  <1> QED BY <1>2, <1>3, <1>4 DEF Acquire

LEMMA SettleProbes ==
    ASSUME ProbesInv, NEW c \in Calls, Reply(c) \/ TimerFires(c)
    PROVE  ProbeBudget' /\ (state' # "HALF_OPEN" => Probes' = {})
  <1>1. PICK nc \in {Idle, Abandoned} : calls' = CallsWith(c, nc)
    BY SettleReleases
  <1>2. nc \in Call /\ nc.st # "running"
    <2>1. Idle.st # "running" /\ Abandoned.st # "running"
      BY DEF Idle, Abandoned
    <2> QED BY <1>1, <2>1, NewCalls
  <1>3. probesDispatched' = probesDispatched
    BY SettleReleases DEF Release
  <1>4. CASE state' # "HALF_OPEN"
    <2>1. Probes' = {}
      BY <1>1, <1>2, <1>4, ProbesAfter DEF ProbesInv, TypeOK
    <2> QED BY <1>3, <2>1, EmptyBudget, Constants DEF ProbesInv, TypeOK, ProbeBudget
  <1>5. CASE state' = "HALF_OPEN"
    <2>1. Probes' = Probes \ {c}
      BY <1>1, <1>2, <1>5, ProbesAfter DEF ProbesInv, TypeOK
    <2>2. Cardinality(Probes \ {c}) <= Cardinality(Probes)
      BY ProbesFinite, FS_Subset
    <2>3. Cardinality(Probes) \in Nat /\ Cardinality(Probes \ {c}) \in Nat
      BY ProbesFinite, FS_Subset, FS_CardinalityType
    <2> QED BY <1>3, <1>5, <2>1, <2>2, <2>3, Constants DEF ProbesInv, TypeOK, ProbeBudget
  <1> QED BY <1>4, <1>5

\* A HALF_OPEN episode never has more than halfOpenProbes probes, and none of
\* an earlier episode is among them.
THEOREM ProbesBounded == Spec => []ProbeBudget
  <1>1. Init => ProbesInv
    <2> SUFFICES ASSUME Init PROVE ProbesInv
      OBVIOUS
    <2>1. TypeOK
      BY Constants, WindowType, NewCalls DEF Init, TypeOK
    <2>2. Probes = {}
      BY DEF Init, Running, Probes, Idle
    <2> QED BY <2>1, <2>2, EmptyBudget, Constants DEF Init, ProbesInv, ProbeBudget
  <1>2. ProbesInv /\ TypeOK' /\ [Next]_vars => ProbesInv'
    <2> SUFFICES ASSUME ProbesInv, TypeOK', [Next]_vars
                 PROVE  ProbeBudget' /\ (state' # "HALF_OPEN" => Probes' = {})
      BY DEF ProbesInv
    <2>1. ASSUME NEW c \in Calls, Acquire(c)
          PROVE  ProbeBudget' /\ (state' # "HALF_OPEN" => Probes' = {})
      BY <2>1, AcquireProbes
    <2>2. ASSUME NEW c \in Calls, Reply(c) \/ TimerFires(c)
          PROVE  ProbeBudget' /\ (state' # "HALF_OPEN" => Probes' = {})
      BY <2>2, SettleProbes
    <2>3. ASSUME UNCHANGED <<state, probesDispatched>>, Probes' = Probes
          PROVE  ProbeBudget' /\ (state' # "HALF_OPEN" => Probes' = {})
      BY <2>3 DEF ProbesInv, ProbeBudget
    <2>4. ASSUME NEW c \in Calls, LateReply(c)
          PROVE  UNCHANGED <<state, probesDispatched>> /\ Probes' = Probes
      BY <2>4 DEF LateReply, breaker, Running, Probes, Idle, ProbesInv, TypeOK
    <2>5. ASSUME Tick PROVE UNCHANGED <<state, probesDispatched>> /\ Probes' = Probes
      <3>1. ASSUME NEW d \in Calls
            PROVE  calls'[d].st = calls[d].st /\ calls'[d].probe = calls[d].probe
        BY <2>5 DEF Tick, ProbesInv, TypeOK, Call
      <3> QED BY <2>5, <3>1 DEF Tick, Running, Probes
    <2>6. CASE Reset
      <3>1. ASSUME NEW d \in Calls PROVE ~calls'[d].probe
        BY <2>6 DEF Reset, ProbesInv, TypeOK, Call
      <3>2. Probes' = {}
        BY <3>1 DEF Probes, Running
      <3> QED BY <2>6, <3>2, EmptyBudget, Constants DEF Reset, ProbeBudget
    <2>7. ASSUME UNCHANGED vars PROVE UNCHANGED <<state, probesDispatched>> /\ Probes' = Probes
      BY <2>7 DEF vars, breaker, Running, Probes
    <2> QED BY <2>1, <2>2, <2>3, <2>4, <2>5, <2>6, <2>7 DEF Next
  <1>3. ProbesInv => ProbeBudget
    BY DEF ProbesInv
  <1> QED BY <1>1, <1>2, <1>3, TypeCorrect, PTL DEF Spec

------------------------------------------------------------------------------
(* The cooldown of an OPEN circuit *)

\* The only ways a callback can touch the OPEN state: not at all, by leaving
\* it, or by entering it with a cooldown that starts now.
OpenUntouchedOrFresh ==
    \/ UNCHANGED <<state, openAge, cooldown>>
    \/ state' # "OPEN"
    \/ state # "OPEN" /\ state' = "OPEN" /\ openAge' = 0 /\ cooldown' \in Nat

LEMMA TripFresh == TripOpen => OpenUntouchedOrFresh
  <1>1. \A j \in Jitter : OpenCooldown + j \in Nat
    BY Constants DEF Jitter
  <1> QED BY <1>1 DEF TripOpen, OpenUntouchedOrFresh

LEMMA StayFresh == StayInState => OpenUntouchedOrFresh
  BY DEF StayInState, OpenUntouchedOrFresh

LEMMA AcquireFresh ==
    ASSUME NEW c \in Calls, Acquire(c)
    PROVE  OpenUntouchedOrFresh
  <1>1. CASE AcquireClosed(c)
    BY <1>1, StayFresh DEF AcquireClosed
  <1>2. CASE AcquireOpen(c)
    BY <1>2 DEF AcquireOpen, OpenUntouchedOrFresh
  <1>3. CASE AcquireHalfOpen(c)
    BY <1>3, TripFresh, StayFresh DEF AcquireHalfOpen
  <1> QED BY <1>1, <1>2, <1>3 DEF Acquire

LEMMA ReleaseFresh ==
    ASSUME NEW o \in Outcomes, NEW b \in Bands, Release(o, b)
    PROVE  OpenUntouchedOrFresh
  <1>0. CheckStatisticalOpen(win') => OpenUntouchedOrFresh
    BY TripFresh, StayFresh DEF CheckStatisticalOpen
  <1>1. CASE o = "SUCCESS"
    <2>1. OnSuccess(win')
      BY <1>1 DEF Release
    <2>2. CASE state = "HALF_OPEN"
      BY <2>1, <2>2, StayFresh DEF OnSuccess, OpenUntouchedOrFresh
    <2>3. CASE state # "HALF_OPEN"
      BY <2>1, <2>3, <1>0 DEF OnSuccess
    <2> QED BY <2>2, <2>3
  <1>2. CASE o = "TIMEOUT"
    <2>1. OnTimeout(win')
      BY <1>2 DEF Release
    <2> QED BY <2>1, <1>0, TripFresh DEF OnTimeout
  <1>3. CASE o = "REDIS_ERROR"
    <2>1. OnError(win')
      BY <1>3 DEF Release
    <2> QED BY <2>1, <1>0, TripFresh DEF OnError
  <1> QED BY <1>1, <1>2, <1>3 DEF Outcomes

\* The inductive invariant: the age of an OPEN circuit stops at its cooldown.
CooldownInv == TypeOK /\ (state = "OPEN" => openAge <= cooldown)

\* While the circuit is OPEN its age only grows and its cooldown is fixed: a
\* failure that arrives late does not start the cooldown again.
THEOREM CooldownKept == Spec => CooldownNotExtended
  <1>1. Init => (state = "OPEN" => openAge <= cooldown)
    BY DEF Init
  <1>2. ASSUME CooldownInv, [Next]_vars
        PROVE  /\ state' = "OPEN" => openAge' <= cooldown'
               /\ state = "OPEN" /\ state' = "OPEN" => openAge' >= openAge /\ cooldown' = cooldown
    <2>1. openAge \in Nat /\ cooldown \in Nat
      BY <1>2 DEF CooldownInv, TypeOK
    <2>2. CASE OpenUntouchedOrFresh
      BY <1>2, <2>1, <2>2 DEF OpenUntouchedOrFresh, CooldownInv
    <2>3. CASE Tick
      BY <1>2, <2>1, <2>3 DEF Tick, AtMost, CooldownInv
    <2>4. ASSUME NEW c \in Calls, Reply(c) \/ TimerFires(c) PROVE OpenUntouchedOrFresh
      BY <2>4, SettleReleases, ReleaseFresh
    <2>5. ASSUME NEW c \in Calls, LateReply(c) PROVE OpenUntouchedOrFresh
      BY <2>5 DEF LateReply, breaker, OpenUntouchedOrFresh
    <2>6. CASE Reset
      BY <2>6, <2>2 DEF Reset, OpenUntouchedOrFresh
    <2>7. CASE UNCHANGED vars
      BY <2>7, <2>2 DEF vars, breaker, OpenUntouchedOrFresh
    <2> QED BY <1>2, <2>2, <2>3, <2>4, <2>5, <2>6, <2>7, AcquireFresh DEF Next
  <1>3. TypeOK /\ (state = "OPEN" => openAge <= cooldown) /\ [Next]_vars
            => (state = "OPEN" => openAge <= cooldown)'
    BY <1>2 DEF CooldownInv
  <1>4. TypeOK /\ (state = "OPEN" => openAge <= cooldown) /\ [Next]_vars
            => [state = "OPEN" /\ state' = "OPEN" => openAge' >= openAge /\ cooldown' = cooldown]_vars
    BY <1>2 DEF CooldownInv
  <1> QED BY <1>1, <1>3, <1>4, TypeCorrect, PTL DEF Spec, CooldownNotExtended

------------------------------------------------------------------------------
(* Hysteresis *)

(***************************************************************************)
(* The thresholds of a configuration with hysteresis.  Of the first two    *)
(* clampConfig() warns when they fail ("hysteresis disabled").  The other  *)
(* two it does not look at: the operation deadline is above the p99        *)
(* threshold of recovery, and more than one percent of the calls must time *)
(* out to open the circuit.                                                *)
(***************************************************************************)
Hysteresis ==
    /\ P99Recovery < P99Open
    /\ ErrorRateRecovery < ErrorRateOpen
    /\ P99Recovery < TimeoutBand
    /\ TimeoutRateOpen > 1

SlowBands == TimeoutBand..NBands

\* Of a bucket: each call has one latency, and a timeout a slow one.
BucketOK(s) ==
    /\ s.total = SumFunctionOnSet(s.hist, Bands)
    /\ s.timeouts <= SumFunctionOnSet(s.hist, SlowBands)

LEMMA BandFacts ==
    /\ IsFiniteSet(Bands) /\ IsFiniteSet(SlowBands) /\ IsFiniteSet(Ages)
    /\ SlowBands \subseteq Bands /\ Bands \subseteq Nat /\ Bands # {} /\ NBands \in Bands
    /\ TimeoutBand \in SlowBands
    /\ 0 \in Ages /\ WindowSecs \in Ages
    /\ \A b \in Bands : b \in SlowBands <=> b >= TimeoutBand
  <1>1. /\ WindowSecs \in Nat /\ WindowSecs > 0 /\ NBands \in Nat /\ NBands > 0
        /\ TimeoutBand \in Nat /\ TimeoutBand >= 1 /\ TimeoutBand <= NBands
    BY Constants DEF Bands
  <1>2. IsFiniteSet(Bands) /\ IsFiniteSet(SlowBands) /\ IsFiniteSet(Ages)
    BY <1>1, FS_Interval DEF Bands, SlowBands, Ages
  <1> QED BY <1>1, <1>2 DEF Bands, SlowBands, Ages

LEMMA HistSums ==
    ASSUME NEW g \in [Bands -> Nat], NEW S \in SUBSET Bands
    PROVE  NatOn(g, S) /\ SumFunctionOnSet(g, S) \in Nat
  <1>1. NatOn(g, S)
    BY BandFacts, FS_Subset DEF NatOn
  <1> QED BY <1>1, SumType

LEMMA CountBucketOK ==
    ASSUME NEW s \in Stats, BucketOK(s), NEW o, NEW b \in Bands,
           o = "TIMEOUT" => b >= TimeoutBand
    PROVE  BucketOK(Count(s, o, b))
  <1> DEFINE h == [s.hist EXCEPT ![b] = @ + 1]
  <1>0. /\ s.hist \in [Bands -> Nat] /\ s.total \in Nat /\ s.timeouts \in Nat
        /\ SlowBands \in SUBSET Bands
    BY BandFacts DEF Stats
  <1>1. h[b] = s.hist[b] + 1 /\ \A i \in Bands \ {b} : h[i] = s.hist[i]
    BY <1>0
  <1>2. /\ Count(s, o, b).total = s.total + 1
        /\ Count(s, o, b).timeouts = s.timeouts + (IF o = "TIMEOUT" THEN 1 ELSE 0)
        /\ Count(s, o, b).hist = h
    BY DEF Count
  <1> HIDE DEF h
  <1>3. SumFunctionOnSet(h, Bands) = SumFunctionOnSet(s.hist, Bands) + 1
    BY <1>0, <1>1, HistSums, SumBump
  <1>4. SumFunctionOnSet(h, SlowBands)
            = SumFunctionOnSet(s.hist, SlowBands) + (IF b \in SlowBands THEN 1 ELSE 0)
    <2>1. NatOn(s.hist, SlowBands) /\ \A i \in SlowBands \ {b} : h[i] = s.hist[i]
      BY <1>0, <1>1, HistSums
    <2> QED BY <1>1, <2>1, SumBump
  <1>5. SumFunctionOnSet(s.hist, SlowBands) \in Nat
    BY <1>0, HistSums
  <1>6. o = "TIMEOUT" => b \in SlowBands
    BY BandFacts
  <1>7. SumFunctionOnSet(h, Bands) = s.total + 1
    BY <1>3 DEF BucketOK
  <1>8. s.timeouts + (IF o = "TIMEOUT" THEN 1 ELSE 0) <= SumFunctionOnSet(h, SlowBands)
    BY <1>0, <1>4, <1>5, <1>6 DEF BucketOK
  <1> QED BY <1>2, <1>7, <1>8 DEF BucketOK

LEMMA NoStatsOK == BucketOK(NoStats)
  <1>1. /\ NoStats.total = 0 /\ NoStats.timeouts = 0
        /\ \A b \in Bands : NoStats.hist[b] = 0
    BY DEF NoStats
  <1>2. SumFunctionOnSet(NoStats.hist, Bands) = 0 /\ SumFunctionOnSet(NoStats.hist, SlowBands) = 0
    BY <1>1, BandFacts, SumZero
  <1> QED BY <1>1, <1>2 DEF BucketOK

WindowOK(w) == \A a \in Ages : BucketOK(w[a])

LEMMA WindowStaysOK ==
    /\ WindowOK(EmptyWindow)
    /\ \A w \in [Ages -> Stats] : WindowOK(w) => WindowOK(SecondPasses(w))
    /\ \A w \in [Ages -> Stats], o \in Outcomes, b \in Bands :
           WindowOK(w) /\ (o = "TIMEOUT" => b >= TimeoutBand) => WindowOK(RecordAged(w, o, b))
  <1>1. WindowOK(EmptyWindow)
    BY NoStatsOK DEF WindowOK, EmptyWindow
  <1>2. ASSUME NEW w \in [Ages -> Stats], WindowOK(w) PROVE WindowOK(SecondPasses(w))
    <2>1. \A a \in Ages : a # 0 => a - 1 \in Ages
      BY Constants DEF Ages
    <2> QED BY <1>2, <2>1, NoStatsOK DEF WindowOK, SecondPasses
  <1>3. ASSUME NEW w \in [Ages -> Stats], NEW o, NEW b \in Bands,
               WindowOK(w), o = "TIMEOUT" => b >= TimeoutBand
        PROVE  WindowOK(RecordAged(w, o, b))
    <2>1. BucketOK(Count(w[0], o, b))
      BY <1>3, BandFacts, CountBucketOK DEF WindowOK
    <2>2. \A a \in Ages : RecordAged(w, o, b)[a] \in {Count(w[0], o, b), NoStats, w[a]}
      BY BandFacts DEF RecordAged
    <2> QED BY <1>3, <2>1, <2>2, NoStatsOK DEF WindowOK
  <1> QED BY <1>1, <1>2, <1>3

\* The sum of such buckets is one too.
LEMMA AggregateOK ==
    ASSUME NEW w \in [Ages -> Stats], WindowOK(w)
    PROVE  SumStats(w) \in Stats /\ BucketOK(SumStats(w))
  <1> DEFINE s == SumStats(w)
             m == [a \in Ages |-> w[a].hist]
             n == [a \in Ages |-> [b \in SlowBands |-> w[a].hist[b]]]
             total    == [a \in Ages |-> w[a].total]
             errors   == [a \in Ages |-> w[a].errors]
             timeouts == [a \in Ages |-> w[a].timeouts]
             slow     == [a \in Ages |-> SumFunctionOnSet(w[a].hist, SlowBands)]
             column(b) == [a \in Ages |-> w[a].hist[b]]
             columns   == [b \in Bands |-> column(b)]
             slowColumns == [b \in SlowBands |-> column(b)]
  <1>0. /\ s = [total |-> SumFunctionOnSet(total, Ages), errors |-> SumFunctionOnSet(errors, Ages),
                timeouts |-> SumFunctionOnSet(timeouts, Ages),
                hist |-> [b \in Bands |-> SumFunctionOnSet(column(b), Ages)]]
        /\ IsFiniteSet(Ages) /\ IsFiniteSet(Bands) /\ IsFiniteSet(SlowBands)
        /\ SlowBands \in SUBSET Bands
    BY BandFacts DEF SumStats, SumFunction
  <1>1. \A a \in Ages : /\ w[a].total \in Nat /\ w[a].errors \in Nat /\ w[a].timeouts \in Nat
                        /\ w[a].hist \in [Bands -> Nat]
                        /\ w[a].total = SumFunctionOnSet(w[a].hist, Bands)
                        /\ w[a].timeouts <= SumFunctionOnSet(w[a].hist, SlowBands)
                        /\ SumFunctionOnSet(w[a].hist, SlowBands) \in Nat
    BY <1>0, HistSums DEF Stats, WindowOK, BucketOK
  <1>2. NatOn(total, Ages) /\ NatOn(errors, Ages) /\ NatOn(timeouts, Ages) /\ NatOn(slow, Ages)
    BY <1>0, <1>1 DEF NatOn
  <1>3. \A b \in Bands : NatOn(column(b), Ages)
    BY <1>0, <1>1 DEF NatOn
  <1>4. s.hist = [b \in Bands |-> SumFunctionOnSet(column(b), Ages)]
    BY <1>0
  <1>5. s \in Stats
    <2> HIDE DEF total, errors, timeouts, column, s
    <2>1. \A b \in Bands : SumFunctionOnSet(column(b), Ages) \in Nat
      BY <1>3, SumType
    <2>2. /\ SumFunctionOnSet(total, Ages) \in Nat /\ SumFunctionOnSet(errors, Ages) \in Nat
          /\ SumFunctionOnSet(timeouts, Ages) \in Nat
      BY <1>2, SumType
    <2> QED BY <1>0, <2>1, <2>2 DEF Stats
  <1>6. SumFunctionOnSet(total, Ages) = SumFunctionOnSet(s.hist, Bands)
    <2>1. m \in [Ages -> [Bands -> Nat]]
      BY <1>1
    <2>2. \A a \in Ages : total[a] = SumFunctionOnSet(m[a], Bands)
      BY <1>1
    <2>3. /\ columns \in [Bands -> [Ages -> Nat]]
          /\ \A a \in Ages, b \in Bands : m[a][b] = columns[b][a]
          /\ \A b \in Bands : s.hist[b] = SumFunctionOnSet(columns[b], Ages)
      <3>1. \A b \in Bands : column(b) \in [Ages -> Nat]
        BY <1>0, <1>1
      <3>2. \A b \in Bands : columns[b] = column(b)
        OBVIOUS
      <3>3. \A a \in Ages, b \in Bands : m[a][b] = column(b)[a]
        OBVIOUS
      <3>4. \A b \in Bands : s.hist[b] = SumFunctionOnSet(column(b), Ages)
        <4> HIDE DEF column, s
        <4> QED BY <1>0, <1>4
      <3>5. columns = [b \in Bands |-> column(b)]
        OBVIOUS
      <3> HIDE DEF m, column, columns, s
      <3> QED BY <3>1, <3>2, <3>3, <3>4, <3>5
    <2> HIDE DEF m, total, s
    <2>4. IsFiniteSet(Ages) /\ IsFiniteSet(Bands)
      BY BandFacts
    <2> DEFINE g == s.hist
    <2> HIDE DEF g
    <2> HIDE DEF columns
    <2>5. \A b \in Bands : g[b] = SumFunctionOnSet(columns[b], Ages)
      BY <2>3 DEF g
    <2>6. Table(Ages, Bands, m, columns, total, g)
      BY <2>1, <2>2, <2>3, <2>4, <2>5 DEF Table
    <2>7. SumFunctionOnSet(total, Ages) = SumFunctionOnSet(g, Bands)
      BY <2>6, SumTable
    <2> QED BY <2>7 DEF g
  <1>7. SumFunctionOnSet(slow, Ages) = SumFunctionOnSet(s.hist, SlowBands)
    <2>1. n \in [Ages -> [SlowBands -> Nat]]
      BY <1>0, <1>1
    <2>2. \A a \in Ages : slow[a] = SumFunctionOnSet(n[a], SlowBands)
      <3> SUFFICES ASSUME NEW a \in Ages PROVE slow[a] = SumFunctionOnSet(n[a], SlowBands)
        OBVIOUS
      <3>1. NatOn(w[a].hist, SlowBands)
        BY <1>0, <1>1, HistSums
      <3>2. \A b \in SlowBands : w[a].hist[b] = n[a][b]
        OBVIOUS
      <3> HIDE DEF n
      <3> QED BY <3>1, <3>2, SumSame
    <2>3. /\ slowColumns \in [SlowBands -> [Ages -> Nat]]
          /\ \A a \in Ages, b \in SlowBands : n[a][b] = slowColumns[b][a]
          /\ \A b \in SlowBands : s.hist[b] = SumFunctionOnSet(slowColumns[b], Ages)
      <3>1. \A b \in SlowBands : column(b) \in [Ages -> Nat]
        BY <1>0, <1>1
      <3>2. \A b \in SlowBands : slowColumns[b] = column(b)
        OBVIOUS
      <3>3. \A a \in Ages, b \in SlowBands : n[a][b] = column(b)[a]
        OBVIOUS
      <3>4. \A b \in SlowBands : s.hist[b] = SumFunctionOnSet(column(b), Ages)
        <4> HIDE DEF column, s
        <4> QED BY <1>0, <1>4
      <3>5. slowColumns = [b \in SlowBands |-> column(b)]
        OBVIOUS
      <3> HIDE DEF n, column, slowColumns, s
      <3> QED BY <3>1, <3>2, <3>3, <3>4, <3>5
    <2> HIDE DEF n, slow, s
    <2>4. IsFiniteSet(Ages) /\ IsFiniteSet(SlowBands)
      BY BandFacts
    <2> DEFINE g == s.hist
    <2> HIDE DEF g
    <2> HIDE DEF slowColumns
    <2>5. \A b \in SlowBands : g[b] = SumFunctionOnSet(slowColumns[b], Ages)
      BY <2>3 DEF g
    <2>6. Table(Ages, SlowBands, n, slowColumns, slow, g)
      BY <2>1, <2>2, <2>3, <2>4, <2>5 DEF Table
    <2>7. SumFunctionOnSet(slow, Ages) = SumFunctionOnSet(g, SlowBands)
      BY <2>6, SumTable
    <2> QED BY <2>7 DEF g
  <1>8. SumFunctionOnSet(timeouts, Ages) <= SumFunctionOnSet(slow, Ages)
    <2>1. \A a \in Ages : timeouts[a] <= slow[a]
      BY <1>1
    <2> HIDE DEF timeouts, slow
    <2> QED BY <1>2, <2>1, SumAtMost
  <1>9. BucketOK(s)
    <2>1. s.total = SumFunctionOnSet(total, Ages) /\ s.timeouts = SumFunctionOnSet(timeouts, Ages)
      BY <1>0
    <2> HIDE DEF s, total, timeouts, slow
    <2> QED BY <1>6, <1>7, <1>8, <2>1 DEF BucketOK
  <1> QED BY <1>5, <1>9

\* percentileUs() of a window with calls is a band that has so many of them at or
\* below it.
LEMMA PercentileIs ==
    ASSUME NEW s \in Stats, BucketOK(s), s.total > 0
    PROVE  LET p == Percentile(s, 99)
           IN  p \in Bands /\ 100 * SumFunctionOnSet(s.hist, 1..p) >= s.total * 99
  <1> DEFINE Reached == {b \in Bands : 100 * SumFunctionOnSet(s.hist, 1..b) >= s.total * 99}
  <1>1. NBands \in Reached
    <2>1. s.total \in Nat /\ 1..NBands = Bands /\ NBands \in Bands
      BY BandFacts DEF Stats, Bands
    <2>2. 100 * s.total >= s.total * 99
      BY <2>1
    <2> QED BY <2>1, <2>2 DEF BucketOK
  <1>2. IsFiniteSet(Reached) /\ Reached \subseteq Nat
    BY BandFacts, FS_Subset
  <1>3. Percentile(s, 99) = Min(Reached)
    BY DEF Percentile, Stats
  <1>4. Reached \subseteq Bands
    OBVIOUS
  <1>5. \A b \in Reached : 100 * SumFunctionOnSet(s.hist, 1..b) >= s.total * 99
    OBVIOUS
  <1> HIDE DEF Reached
  <1>6. \E x \in Reached : \A y \in Reached : x <= y
    BY <1>1, <1>2, LeastIn
  <1>7. Min(Reached) \in Reached
    BY <1>6 DEF Min
  <1> QED BY <1>3, <1>4, <1>5, <1>7

\* A smaller percentage is a smaller share.
LEMMA Shares ==
    ASSUME NEW n \in Nat, n > 0, NEW p \in Nat, NEW q \in Nat, p < q
    PROVE  p * n < q * n
  OBVIOUS

\* A window that passes the recovery thresholds would not open the circuit: of the
\* calls in it at most one percent were slow, and all that timed out were.
LEMMA RecoveredIsHealthy ==
    ASSUME Hysteresis, NEW w \in [Ages -> Stats], WindowOK(w), Recovered(w)
    PROVE  ~Degraded(w)
  <1> DEFINE s == SumStats(w)
             p == Percentile(s, 99)
  <1>1. s \in Stats /\ BucketOK(s)
    BY AggregateOK
  <1>2. p <= P99Recovery /\ s.errors * 100 <= ErrorRateRecovery * s.total
    BY DEF Recovered, ErrorRateAtMost
  <1>3. Degraded(w) <=> /\ s.total >= MinSamples
                        /\ \/ s.errors * 100 >= ErrorRateOpen * s.total
                           \/ s.timeouts * 100 >= TimeoutRateOpen * s.total
                           \/ p >= P99Open
    BY DEF Degraded, ErrorRateAtLeast, TimeoutRateAtLeast
  <1> HIDE DEF s, p
  <1> SUFFICES ASSUME s.total >= MinSamples
               PROVE  /\ s.errors * 100 < ErrorRateOpen * s.total
                      /\ s.timeouts * 100 < TimeoutRateOpen * s.total
                      /\ p < P99Open
    <2>1. /\ s.errors \in Nat /\ s.total \in Nat /\ s.timeouts \in Nat
          /\ ErrorRateOpen \in Nat /\ TimeoutRateOpen \in Nat /\ P99Open \in Nat
      BY <1>1, BreakerAssumption DEF Stats
    <2>2. ErrorRateOpen * s.total \in Nat /\ TimeoutRateOpen * s.total \in Nat
      BY <2>1
    <2>3. p \in Int
      <3>1. CASE s.total > 0
        <4>1. p \in Bands
          BY <1>1, <3>1, PercentileIs DEF p
        <4> QED BY <4>1, BandFacts
      <3>2. CASE s.total = 0
        BY <3>2 DEF p, Percentile
      <3> QED BY <2>1, <3>1, <3>2
    <2> QED BY <1>3, <2>1, <2>2, <2>3
  <1>4. /\ s.errors \in Nat /\ s.total \in Nat /\ s.timeouts \in Nat
        /\ s.hist \in [Bands -> Nat]
        /\ ErrorRateOpen \in Nat /\ ErrorRateRecovery \in Nat /\ TimeoutRateOpen \in Nat
        /\ P99Open \in Nat /\ P99Recovery \in Nat /\ MinSamples \in Nat /\ MinSamples > 0
    BY <1>1, BreakerAssumption DEF Stats
  <1>5. s.total > 0
    BY <1>4
  <1>6. s.errors * 100 < ErrorRateOpen * s.total
    <2>1. ErrorRateRecovery * s.total < ErrorRateOpen * s.total
      BY <1>4, <1>5, Shares DEF Hysteresis
    <2>2. ErrorRateRecovery * s.total \in Nat /\ ErrorRateOpen * s.total \in Nat
      BY <1>4
    <2> QED BY <1>2, <1>4, <2>1, <2>2
  <1>7. p \in Bands /\ 100 * SumFunctionOnSet(s.hist, 1..p) >= s.total * 99
    BY <1>1, <1>5, PercentileIs DEF p
  <1>8. s.timeouts * 100 < TimeoutRateOpen * s.total
    <2> DEFINE slow == SumFunctionOnSet(s.hist, SlowBands)
               fast == SumFunctionOnSet(s.hist, 1..p)
               rest == SumFunctionOnSet(s.hist, Bands \ (1..p))
    <2>1. 1..p \in SUBSET Bands /\ SlowBands \in SUBSET (Bands \ (1..p))
      <3>1. p \in Nat /\ p <= NBands /\ p < TimeoutBand /\ TimeoutBand \in Nat /\ NBands \in Nat
        BY <1>2, <1>4, <1>7, Constants, BandFacts DEF Hysteresis, Bands
      <3> QED BY <3>1 DEF Bands, SlowBands
    <2>2. Bands \ (1..p) \in SUBSET Bands /\ SlowBands \in SUBSET Bands
      BY BandFacts
    <2>3. s.total = fast + rest
      <3> DEFINE Low == 1..p
      <3>1. NatOn(s.hist, Bands) /\ s.total = SumFunctionOnSet(s.hist, Bands)
        BY <1>1, <1>4, HistSums DEF BucketOK
      <3>2. Low \in SUBSET Bands
        BY <2>1
      <3> HIDE DEF Low
      <3>3. SumFunctionOnSet(s.hist, Bands)
                = SumFunctionOnSet(s.hist, Low) + SumFunctionOnSet(s.hist, Bands \ Low)
        BY <3>1, <3>2, SumParts
      <3> QED BY <3>1, <3>3 DEF Low
    <2>4. rest = slow + SumFunctionOnSet(s.hist, (Bands \ (1..p)) \ SlowBands)
      <3>1. NatOn(s.hist, Bands \ (1..p))
        BY <1>4, <2>2, HistSums
      <3> QED BY <2>1, <3>1, SumParts
    <2>5. /\ slow \in Nat /\ fast \in Nat /\ rest \in Nat
          /\ SumFunctionOnSet(s.hist, (Bands \ (1..p)) \ SlowBands) \in Nat
      <3>1. (Bands \ (1..p)) \ SlowBands \in SUBSET Bands
        OBVIOUS
      <3> QED BY <1>4, <2>1, <2>2, <3>1, HistSums
    <2>6. s.timeouts <= slow
      BY <1>1 DEF BucketOK
    <2> HIDE DEF slow, fast, rest
    <2>7. slow <= rest
      BY <2>4, <2>5
    <2>8. 100 * fast >= s.total * 99
      BY <1>7 DEF fast
    <2>9. s.timeouts * 100 <= s.total
      BY <1>4, <2>3, <2>5, <2>6, <2>7, <2>8
    <2>10. 1 * s.total < TimeoutRateOpen * s.total
      BY <1>4, <1>5, Shares DEF Hysteresis
    <2>11. TimeoutRateOpen * s.total \in Nat
      BY <1>4
    <2> QED BY <1>4, <2>9, <2>10, <2>11
  <1>9. p < P99Open
    BY <1>2, <1>4, <1>7, BandFacts DEF Hysteresis
  <1> QED BY <1>6, <1>8, <1>9

\* An empty window would not open the circuit either.
LEMMA EmptyIsHealthy == ~Degraded(EmptyWindow)
  <1>1. SumStats(EmptyWindow).total = 0
    <2>1. SumStats(EmptyWindow).total = SumFunctionOnSet([a \in Ages |-> EmptyWindow[a].total], Ages)
      BY DEF SumStats, SumFunction, EmptyWindow
    <2>2. \A a \in Ages : [c \in Ages |-> EmptyWindow[c].total][a] = 0
      BY DEF EmptyWindow, NoStats
    <2> QED BY <2>1, <2>2, BandFacts, SumZero
  <1>2. MinSamples \in Nat /\ MinSamples > 0
    BY BreakerAssumption
  <1> QED BY <1>1, <1>2 DEF Degraded

\* A timeout is recorded with a latency of at least the operation deadline.
LEMMA SettleLatency ==
    ASSUME NEW c \in Calls, Reply(c) \/ TimerFires(c)
    PROVE  \E o \in Outcomes, b \in Bands :
               Release(o, b) /\ (o = "TIMEOUT" => b >= TimeoutBand)
  <1>1. "TIMEOUT" \in Outcomes
    BY DEF Outcomes
  <1> QED BY <1>1 DEF Reply, TimerFires

LEMMA WindowInvNext ==
    ASSUME TypeOK, WindowOK(win), [Next]_vars
    PROVE  WindowOK(win)'
  <1>0. win \in [Ages -> Stats]
    BY DEF TypeOK
  <1>1. SUFFICES WindowOK(win')
    BY DEF WindowOK, BucketOK, Ages, Bands, SlowBands
  <1>2. ASSUME NEW c \in Calls, Reply(c) \/ TimerFires(c) PROVE WindowOK(win')
    <2>1. PICK o \in Outcomes, b \in Bands :
              win' = RecordAged(win, o, b) /\ (o = "TIMEOUT" => b >= TimeoutBand)
      BY <1>2, SettleLatency DEF Release
    <2> QED BY <1>0, <2>1, WindowStaysOK
  <1>3. CASE Tick
    BY <1>0, <1>3, WindowStaysOK DEF Tick
  <1>4. CASE Reset
    BY <1>4, WindowStaysOK DEF Reset
  <1>5. CASE win' = win
    BY <1>5
  <1> QED BY <1>2, <1>3, <1>4, <1>5 DEF Next, Acquire, LateReply, vars

\* Only a success with a recovered window, or reset(), closes the circuit.
LEMMA ClosingSteps ==
    ASSUME Next, state = "HALF_OPEN", state' = "CLOSED"
    PROVE  Recovered(win') \/ win' = EmptyWindow
  <1>1. ASSUME TripOpen PROVE state' = "OPEN"
    BY <1>1 DEF TripOpen
  <1>2. ASSUME NEW c \in Calls, Acquire(c) PROVE FALSE
    BY <1>1, <1>2 DEF Acquire, AcquireClosed, AcquireOpen, AcquireHalfOpen, StayInState
  <1>3. ASSUME NEW c \in Calls, Reply(c) \/ TimerFires(c) PROVE Recovered(win')
    <2>1. PICK o \in Outcomes, b \in Bands : Release(o, b)
      BY <1>3, SettleReleases
    <2>2. CASE o = "SUCCESS"
      <3>1. OnSuccess(win')
        BY <2>1, <2>2 DEF Release
      <3> QED BY <3>1 DEF OnSuccess, StayInState
    <2>3. CASE o = "TIMEOUT"
      <3>1. OnTimeout(win')
        BY <2>1, <2>3 DEF Release
      <3> QED BY <1>1, <3>1 DEF OnTimeout
    <2>4. CASE o = "REDIS_ERROR"
      <3>1. OnError(win')
        BY <2>1, <2>4 DEF Release
      <3> QED BY <1>1, <3>1 DEF OnError
    <2> QED BY <2>2, <2>3, <2>4 DEF Outcomes
  <1>4. ASSUME NEW c \in Calls, LateReply(c) PROVE FALSE
    BY <1>4 DEF LateReply, breaker
  <1>5. CASE Tick
    BY <1>5 DEF Tick
  <1>6. CASE Reset
    BY <1>6 DEF Reset
  <1> QED BY <1>2, <1>3, <1>4, <1>5, <1>6 DEF Next

\* A circuit with hysteresis closes only with a window that would not open it again
\* at once, although recovery never looks at the timeout rate: what timed out
\* is in the bands that the p99 of a recovered window is below.
THEOREM ClosesHealthy == Hysteresis => (Spec => ClosesOnlyWhenHealthy)
  <1> SUFFICES ASSUME Hysteresis PROVE Spec => ClosesOnlyWhenHealthy
    OBVIOUS
  <1>1. Init => WindowOK(win)
    BY WindowStaysOK DEF Init
  <1>2. TypeOK /\ WindowOK(win) /\ [Next]_vars => WindowOK(win)'
    BY WindowInvNext
  <1>3. TypeOK' /\ WindowOK(win)' /\ [Next]_vars
            => [state = "HALF_OPEN" /\ state' = "CLOSED" => ~Degraded(win')]_vars
    <2> SUFFICES ASSUME TypeOK', WindowOK(win)', Next,
                        state = "HALF_OPEN", state' = "CLOSED"
                 PROVE  ~Degraded(win')
      OBVIOUS
    <2>1. win' \in [Ages -> Stats]
      BY DEF TypeOK, Ages, Stats, Bands
    <2>2. WindowOK(win')
      BY DEF WindowOK, BucketOK, Ages, Bands, SlowBands
    <2> QED BY <2>1, <2>2, ClosingSteps, RecoveredIsHealthy, EmptyIsHealthy
  <1> QED BY <1>1, <1>2, <1>3, TypeCorrect, PTL DEF Spec, ClosesOnlyWhenHealthy

==============================================================================
