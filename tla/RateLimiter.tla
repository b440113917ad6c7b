----------------------------- MODULE RateLimiter -----------------------------
(***************************************************************************)
(* RobustRateLimiter (src/robustRateLimiter.ts): the requests of a client  *)
(* are counted in Redis for the whole fleet.  When Redis fails, a process  *)
(* counts in its own memory until a probe finds Redis again; in strict     *)
(* mode (RATE_LIMIT_LOCAL_FALLBACK=0) it refuses the request instead.      *)
(*                                                                         *)
(* Keys of different clients are independent, and one client is modelled.  *)
(* There is no clock: every deadline is kept as the number of ticks left,  *)
(* so that behaviours need not end.  A count only matters up to one more   *)
(* than MaxRequests and is cut off there.                                  *)
(***************************************************************************)
EXTENDS Integers, Functions

CONSTANTS
    Procs,      \* processes of the fleet
    Slots,      \* requests that each process handles at the same time
    MaxRequests, \* config.maxRequests
    Window,     \* config.windowMs, in ticks
    ProbeGap    \* 30 seconds between two probes, in ticks

ASSUME LimiterAssumption ==
    /\ {MaxRequests, Window, ProbeGap} \subseteq Nat \ {0}
    /\ "redis" \notin Procs

VARIABLES
    strict,     \* ~allowFallback, read from the environment by the constructor
    up,         \* whether Redis answers
    count, ttl, \* the client's key in Redis, and how long it will live
    local,      \* localCache of each process: count, and ticks to resetAt
    fallback,   \* the flag of each process
    probe,      \* ticks until a process may probe again
    req,        \* the requests of each process
    grants      \* history: requests admitted, per process and store, by age

redis == <<count, ttl>>
own   == <<local, fallback, probe>>
vars  == <<strict, up, redis, own, req, grants>>

Cap(n)  == IF n > MaxRequests THEN MaxRequests + 1 ELSE n
Down(n) == IF n = 0 THEN 0 ELSE n - 1

NoWindow == [count |-> 0, left |-> -1]     \* no entry, or one that has expired
Stores   == {"redis"} \cup Procs

Goto(p, s, pc) == req' = [req EXCEPT ![p][s] = pc]
Answer(p, s)   == Goto(p, s, "idle")

Allowed(n) == n <= MaxRequests

\* history: store st has counted a request that it admits
Grant(st, n) == grants' = IF Allowed(n) THEN [grants EXCEPT ![st][0] = @ + 1] ELSE grants

------------------------------------------------------------------------------
\* mutant: the window is twice as long
NewWindowLong == [count |-> 0, left |-> 2 * Window]

NewWindow == [count |-> 0, left |-> Window]

\* localRateLimit, after the sweep of expired entries; fb is the flag it leaves
LocalRateLimit(p, s, fb) ==
    LET e == IF local[p].left < 0 THEN NewWindow ELSE local[p]
        n == Cap(e.count + 1)
    IN
    /\ local' = [local EXCEPT ![p] = [e EXCEPT !.count = n]]
    /\ fallback' = fb
    /\ Grant(p, n)
    /\ Answer(p, s)

\* checkLimit up to its first await
CheckLimit(p, s) ==
    /\ req[p][s] = "idle"
    /\ IF ~fallback[p]
       THEN Goto(p, s, "send") /\ UNCHANGED <<own, grants>>
       ELSE IF probe[p] = 0
       THEN /\ probe' = [probe EXCEPT ![p] = ProbeGap]
            /\ Goto(p, s, "probe") /\ UNCHANGED <<local, fallback, grants>>
       ELSE LocalRateLimit(p, s, fallback) /\ UNCHANGED probe
    /\ UNCHANGED <<strict, up, redis>>

\* mutant: the flag is not cleared
ProbeIgnored(p, s) ==
    /\ req[p][s] = "probe"
    /\ LocalRateLimit(p, s, fallback)
    /\ UNCHANGED <<strict, up, redis, probe>>

\* tryRecoverFromFallback: the ping is answered, or runs into its timeout
Probe(p, s) ==
    /\ req[p][s] = "probe"
    /\ IF up
       THEN /\ fallback' = [fallback EXCEPT ![p] = FALSE]
            /\ Goto(p, s, "send") /\ UNCHANGED <<local, grants>>
       ELSE IF fallback[p] THEN LocalRateLimit(p, s, fallback)
       ELSE Goto(p, s, "send") /\ UNCHANGED <<local, fallback, grants>>
    /\ UNCHANGED <<strict, up, redis, probe>>

\* mutant: the key's life is not extended and its first end is missed
PipelineShort(p, s) ==
    /\ req[p][s] = "send" /\ up
    /\ count' = Cap(count + 1)
    /\ ttl' = IF ttl = 0 THEN Window - 1 ELSE ttl
    /\ Grant("redis", count') /\ Goto(p, s, "reply")
    /\ UNCHANGED <<strict, up, own>>

\* distributedRateLimit: INCR and EXPIREAT, whose end is moved by every request
Pipeline(p, s) ==
    /\ req[p][s] = "send" /\ up
    /\ count' = Cap(count + 1) /\ ttl' = Window
    /\ Grant("redis", count') /\ Goto(p, s, "reply")
    /\ UNCHANGED <<strict, up, own>>

\* the replies of the pipeline arrive
Reply(p, s) ==
    /\ req[p][s] = "reply" /\ up
    /\ Answer(p, s)
    /\ UNCHANGED <<strict, up, redis, own, grants>>

\* or the connection fails and they are errors,
Broken(p, s) ==
    /\ req[p][s] \in {"send", "reply"} /\ ~up
    /\ Goto(p, s, "failed")
    /\ UNCHANGED <<strict, up, redis, own, grants>>

\* which arrive later, perhaps when Redis is back already: degradeToLocal.
\* Strict mode answers 503.
Degrade(p, s) ==
    /\ req[p][s] = "failed"
    /\ IF strict THEN Answer(p, s) /\ UNCHANGED <<local, fallback, grants>>
       ELSE LocalRateLimit(p, s, [fallback EXCEPT ![p] = TRUE])
    /\ UNCHANGED <<strict, up, redis, probe>>

\* resetLimit.  Its DEL names the key rate_limit:<client>, without the limiter's
\* prefix, and the counter stays as it is.
ResetLimit(p) ==
    /\ fallback[p] \/ (~up /\ ~strict)
    /\ fallback' = [fallback EXCEPT ![p] = TRUE]
    /\ local' = [local EXCEPT ![p] = NoWindow]
    /\ grants' = [grants EXCEPT ![p] = [a \in DOMAIN @ |-> 0]]
    /\ UNCHANGED <<strict, up, redis, probe, req>>

------------------------------------------------------------------------------
\* external: the connection to Redis, which keeps its keys
Outage  == up /\ up' = FALSE /\ UNCHANGED <<strict, redis, own, req, grants>>
Restore == ~up /\ up' = TRUE /\ UNCHANGED <<strict, redis, own, req, grants>>

\* a tick: the key in Redis may end, and the local windows after their resetAt
Tick ==
    /\ ttl' = Down(ttl) /\ count' = IF ttl <= 1 THEN 0 ELSE count
    /\ local' = [p \in Procs |-> IF local[p].left <= 0 THEN NoWindow
                                 ELSE [local[p] EXCEPT !.left = @ - 1]]
    /\ probe' = [p \in Procs |-> Down(probe[p])]
    /\ grants' = [st \in Stores |-> [a \in 0..(Window - 1) |-> IF a = 0 THEN 0 ELSE grants[st][a - 1]]]
    /\ UNCHANGED <<strict, up, fallback, req>>

Init ==
    /\ strict \in BOOLEAN /\ up = TRUE
    /\ count = 0 /\ ttl = 0
    /\ local = [p \in Procs |-> NoWindow]
    /\ fallback = [p \in Procs |-> FALSE] /\ probe = [p \in Procs |-> 0]
    /\ req = [p \in Procs |-> [s \in Slots[p] |-> "idle"]]
    /\ grants = [st \in Stores |-> [a \in 0..(Window - 1) |-> 0]]

Step(p, s) == Probe(p, s) \/ Pipeline(p, s) \/ Reply(p, s) \/ Broken(p, s) \/ Degrade(p, s)

Next ==
    \/ \E p \in Procs : ResetLimit(p) \/ \E s \in Slots[p] : CheckLimit(p, s) \/ Step(p, s)
    \/ Outage \/ Restore \/ Tick

\* time passes, replies and timeouts arrive, and clients keep sending requests
Spec == /\ Init /\ [][Next]_vars
        /\ WF_vars(Tick)
        /\ \A p \in Procs : \A s \in Slots[p] : WF_vars(Step(p, s)) /\ SF_vars(CheckLimit(p, s))

------------------------------------------------------------------------------
TypeOK ==
    /\ strict \in BOOLEAN /\ up \in BOOLEAN
    /\ count \in 0..(MaxRequests + 1) /\ ttl \in 0..Window
    /\ local \in [Procs -> [count: 0..(MaxRequests + 1), left: -1..Window]]
    /\ fallback \in [Procs -> BOOLEAN] /\ probe \in [Procs -> 0..ProbeGap]
    /\ \A p \in Procs : req[p] \in [Slots[p] -> {"idle", "send", "reply", "failed", "probe"}]

\* requests that a store has admitted within the last window
Admitted(st) == SumFunctionOnSet(grants[st], 0..(Window - 1))

\* (distributedRateLimit, localRateLimit: "so fleet-wide limits are never silently
\* weakened".)  In any window Redis admits at most MaxRequests requests of a client for
\* the whole fleet; a process that counts for itself, which it never does in
\* strict mode, admits at most twice as many between two resets, however
\* often Redis fails and comes back.
FleetBounded ==
    /\ Admitted("redis") <= MaxRequests
    /\ \A p \in Procs : Admitted(p) <= IF strict THEN 0 ELSE 2 * MaxRequests

\* (tryRecoverFromFallback: "a one-way trip into local mode otherwise hides
\* fleet-wide drift forever".)  A process that counts for itself returns to
\* Redis, as long as Redis stays reachable, whatever errors of earlier requests
\* still arrive.
Recovers == \A p \in Procs : fallback[p] /\ up ~> ~fallback[p] \/ ~up

==============================================================================
