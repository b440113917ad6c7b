---------------------------- MODULE RollingWindow ----------------------------
(***************************************************************************)
(* class RollingWindow of src/config/redisCircuitBreaker.ts: a ring of     *)
(* one-second buckets addressed by the wall clock modulo their number.     *)
(***************************************************************************)
EXTENDS LatencyWindow

CONSTANTS
    FirstSecond,    \* the clock when the process starts (epoch seconds)
    LastSecond,     \* bound: the clock of a run
    MaxPerSecond    \* bound: records in one second

ASSUME ClockAssumption ==
    /\ FirstSecond \in Nat /\ LastSecond \in Nat /\ MaxPerSecond \in Nat
    /\ FirstSecond > WindowSecs     \* a bucket's initial ts 0 is long past

VARIABLES
    now,            \* nowSecs()
    buckets,        \* this.buckets
    last            \* history: what aggregate() ought to count, by second

vars == <<now, buckets, last>>

Slots == 0..(WindowSecs - 1)
FreshBucket == [ts |-> 0, stats |-> NoStats]

Init ==
    /\ now = FirstSecond
    /\ buckets = [i \in Slots |-> FreshBucket]
    /\ last = [a \in Ages |-> 0]

\* mutant: a reused bucket is not emptied first
RecordInNoClear(bs, t, outcome, band) ==
    LET slot == t % WindowSecs
    IN  [bs EXCEPT ![slot] = [ts |-> t, stats |-> Count(@.stats, outcome, band)]]

(***************************************************************************)
(* record(): the bucket of this second is reused, and emptied first when   *)
(* it still holds an earlier second.                                       *)
(***************************************************************************)
RecordIn(bs, t, outcome, band) ==
    LET slot == t % WindowSecs
        old  == IF bs[slot].ts # t THEN NoStats ELSE bs[slot].stats
    IN  [bs EXCEPT ![slot] = [ts |-> t, stats |-> Count(old, outcome, band)]]

Record ==
    \E o \in Outcomes, b \in Bands :
        /\ last[0] < MaxPerSecond
        /\ buckets' = RecordIn(buckets, now, o, b)
        /\ last' = [last EXCEPT ![0] = @ + 1]
        /\ UNCHANGED now

Tick ==
    /\ now < LastSecond
    /\ now' = now + 1
    /\ last' = [a \in Ages |-> IF a = 0 THEN 0 ELSE last[a - 1]]
    /\ UNCHANGED buckets

Reset ==
    /\ buckets' = [i \in Slots |-> FreshBucket]
    /\ last' = [a \in Ages |-> 0]
    /\ UNCHANGED now

Next == Record \/ Tick \/ Reset

Spec == Init /\ [][Next]_vars

\* mutant: the cutoff is one second late
InWindowShort(b) == b.ts > now - WindowSecs + 1 /\ b.ts <= now

(***************************************************************************)
(* aggregate(): buckets older than the cutoff or from the future are       *)
(* skipped.                                                                *)
(***************************************************************************)
InWindow(b) == b.ts >= now - WindowSecs /\ b.ts <= now

Aggregate ==
    SumStats([i \in Slots |-> IF InWindow(buckets[i]) THEN buckets[i].stats ELSE NoStats])

------------------------------------------------------------------------------

(***************************************************************************)
(* The ring implements the window indexed by age.                          *)
(***************************************************************************)
AgedStats ==
    [a \in Ages |->
        LET b == buckets[(now - a) % WindowSecs]
        IN  IF b.ts = now - a THEN b.stats ELSE NoStats]

Aged == INSTANCE AgedWindow WITH win <- AgedStats

\* Every step of the ring (record, the passing of a second, reset) is the
\* corresponding step of the window indexed by age, the window the breaker
\* module is written with.
ImplementsAgedWindow == Aged!Spec

\* aggregate() returns the sum over all ages of that window, which counts every
\* call recorded in the last WindowSecs seconds (ages 0 .. WindowSecs - 1):
\* reusing a slot never discards a bucket that is still in the window, and a stale
\* bucket is never counted as a recent one.  The second before those is counted
\* as well until the current second has a record of its own.
CountsWholeWindow ==
    /\ Aggregate = SumStats(AgedStats)
    /\ Aggregate.total = SumFunctionOnSet(last, 0..(WindowSecs - 1))
                         + (IF last[0] = 0 THEN last[WindowSecs] ELSE 0)

==============================================================================
