---------------------------- MODULE LatencyWindow ----------------------------
(***************************************************************************)
(* Counting of Redis call outcomes for the circuit breaker's health        *)
(* signals (src/config/redisCircuitBreaker.ts, sections 6 and 8).          *)
(*                                                                         *)
(* The source keeps one bucket per second; each bucket counts the calls    *)
(* that ended in that second, how many were errors, how many were timeouts *)
(* and a histogram of their latencies.  Latencies are abstracted to the    *)
(* index of their histogram band: band b stands for every latency at most  *)
(* the band's upper bound and above the previous one, which is all that    *)
(* the source keeps of them.                                               *)
(***************************************************************************)
EXTENDS Integers, FiniteSets, FiniteSetsExt, Functions

CONSTANTS
    WindowSecs,     \* config.windowSecs, also the number of buckets
    NBands          \* HIST_BANDS

ASSUME WindowAssumption ==
    /\ WindowSecs \in Nat \ {0}
    /\ NBands \in Nat \ {0}

Bands == 1..NBands

\* The outcomes a finished Redis call is recorded with.
Outcomes == {"SUCCESS", "REDIS_ERROR", "TIMEOUT"}

Stats == [total : Nat, errors : Nat, timeouts : Nat, hist : [Bands -> Nat]]

NoStats == [total |-> 0, errors |-> 0, timeouts |-> 0, hist |-> [b \in Bands |-> 0]]

(***************************************************************************)
(* One more call counted in a bucket.  Timeouts are counted apart from     *)
(* errors.                                                                 *)
(***************************************************************************)
Count(s, outcome, band) ==
    [total    |-> s.total + 1,
     errors   |-> s.errors + (IF outcome = "REDIS_ERROR" THEN 1 ELSE 0),
     timeouts |-> s.timeouts + (IF outcome = "TIMEOUT" THEN 1 ELSE 0),
     hist     |-> [s.hist EXCEPT ![band] = @ + 1]]

(***************************************************************************)
(* The sum of a function of buckets, field by field (the loop of           *)
(* aggregate()).                                                           *)
(***************************************************************************)
SumStats(f) ==
    [total    |-> SumFunction([i \in DOMAIN f |-> f[i].total]),
     errors   |-> SumFunction([i \in DOMAIN f |-> f[i].errors]),
     timeouts |-> SumFunction([i \in DOMAIN f |-> f[i].timeouts]),
     hist     |-> [b \in Bands |-> SumFunction([i \in DOMAIN f |-> f[i].hist[b]])]]

(***************************************************************************)
(* errorRate() and timeoutRate() against a threshold in percent, without   *)
(* the division.                                                           *)
(***************************************************************************)
ErrorRateAtLeast(s, pct)   == s.errors * 100 >= pct * s.total
ErrorRateAtMost(s, pct)    == s.errors * 100 <= pct * s.total
TimeoutRateAtLeast(s, pct) == s.timeouts * 100 >= pct * s.total

(***************************************************************************)
(* percentileUs(): the first band whose cumulative count reaches           *)
(* ceil(total * pct / 100).  Zero stands for the latency 0 of an empty     *)
(* window.                                                                 *)
(***************************************************************************)
Percentile(s, pct) ==
    IF s.total = 0
    THEN 0
    ELSE Min({b \in Bands : 100 * SumFunctionOnSet(s.hist, 1..b) >= s.total * pct})

(***************************************************************************)
(* The window as the rest of the breaker sees it: win[a] is what was       *)
(* recorded a seconds ago.  The age WindowSecs is in it because            *)
(* aggregate() skips only buckets with ts < now - windowSecs; that bucket  *)
(* shares its slot with the current second (ts modulo the number of        *)
(* buckets), so the first record of a second discards it.                  *)
(***************************************************************************)
Ages == 0..WindowSecs

EmptyWindow == [a \in Ages |-> NoStats]

RecordAged(win, outcome, band) ==
    [win EXCEPT ![0] = Count(@, outcome, band), ![WindowSecs] = NoStats]

SecondPasses(win) ==
    [a \in Ages |-> IF a = 0 THEN NoStats ELSE win[a - 1]]

==============================================================================
