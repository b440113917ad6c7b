------------------------- MODULE RollingWindowProofs -------------------------
(***************************************************************************)
(* Theorems about the ring of one-second buckets, for every length of the  *)
(* window, any number of bands and any time.                               *)
(***************************************************************************)
EXTENDS RollingWindow, Sums

\* the configuration has the types the proofs need
LEMMA Constants ==
    /\ WindowSecs \in Nat /\ WindowSecs > 0 /\ NBands \in Nat /\ NBands > 0
    /\ FirstSecond \in Nat /\ FirstSecond > WindowSecs
    /\ MaxPerSecond \in Nat
  BY WindowAssumption, ClockAssumption

\* a number and its quotient and remainder
LEMMA Division ==
    ASSUME NEW n \in Nat, NEW w \in Nat \ {0}
    PROVE  /\ n = w * (n \div w) + (n % w)
           /\ n \div w \in Nat /\ n % w \in 0..(w - 1)
  OBVIOUS

\* multiples of w are at least w apart
LEMMA Multiples ==
    ASSUME NEW w \in Nat \ {0}, NEW p \in Nat, NEW q \in Nat, w * p < w * q
    PROVE  w * q - w * p >= w
  <1>1. p < q
    OBVIOUS
  <1>2. PICK k \in Nat : q = p + 1 + k
    <2>1. q - p - 1 \in Nat
      BY <1>1
    <2> QED BY <2>1
  <1>3. w * q = w * p + w + w * k
    BY <1>2
  <1>4. w * k >= 0
    OBVIOUS
  <1> QED BY <1>3, <1>4

\* Two seconds less than a window apart have different slots ...
LEMMA SlotsApart ==
    ASSUME NEW n \in Nat, NEW w \in Nat \ {0}, NEW a \in 1..(w - 1), a <= n
    PROVE  (n - a) % w # n % w
  <1> SUFFICES ASSUME (n - a) % w = n % w PROVE FALSE
    OBVIOUS
  <1> DEFINE p == (n - a) \div w
             q == n \div w
  <1>1. /\ p \in Nat /\ q \in Nat
        /\ n - a = w * p + ((n - a) % w)
        /\ n = w * q + (n % w)
        /\ n % w \in Nat /\ w * p \in Nat /\ w * q \in Nat
    <2>1. n - a \in Nat
      OBVIOUS
    <2>2. p \in Nat /\ n - a = w * p + ((n - a) % w)
      BY <2>1, Division
    <2>3. q \in Nat /\ n = w * q + (n % w) /\ n % w \in Nat
      <3>1. q \in Nat /\ n = w * q + (n % w) /\ n % w \in 0..(w - 1)
        BY Division, Zenon
      <3> QED BY <3>1
    <2>4. w * p \in Nat /\ w * q \in Nat
      <3> HIDE DEF p, q
      <3> QED BY <2>2, <2>3
    <2> QED BY <2>2, <2>3, <2>4
  <1> HIDE DEF p, q
  <1>2. w * q - w * p = a
    BY <1>1
  <1>3. w * p < w * q
    BY <1>1, <1>2
  <1>4. w * q - w * p >= w
    BY <1>1, <1>3, Multiples
  <1> QED BY <1>2, <1>4

\* ... and two seconds a whole window apart share theirs.
LEMMA SlotShared ==
    ASSUME NEW n \in Nat, NEW w \in Nat \ {0}, w <= n
    PROVE  (n - w) % w = n % w
  <1> DEFINE p == (n - w) \div w
             r == (n - w) % w
  <1>1. n - w \in Nat
    OBVIOUS
  <1>2. /\ p \in Nat /\ r \in 0..(w - 1) /\ n - w = w * p + r
    BY <1>1, Division
  <1> HIDE DEF p, r
  <1>3. n = w * (p + 1) + r
    BY <1>2
  <1>4. n % w = r
    BY <1>2, <1>3
  <1> QED BY <1>4 DEF r

------------------------------------------------------------------------------

(***************************************************************************)
(* The ring: a bucket in use is in the slot of its second, and no bucket   *)
(* is from the future.                                                     *)
(***************************************************************************)
Bucket == [ts : Nat, stats : Stats]

RingOK ==
    /\ now \in Nat /\ now >= FirstSecond
    /\ buckets \in [Slots -> Bucket]
    /\ \A i \in Slots : /\ buckets[i].ts <= now
                        /\ buckets[i].ts = 0 \/ buckets[i].ts % WindowSecs = i

(***************************************************************************)
(* The window indexed by age counts the calls that were recorded: those of *)
(* the last WindowSecs seconds and, until the current second has a record, *)
(* those of the second before.                                             *)
(***************************************************************************)
EveryCallCounted ==
    /\ last \in [Ages -> Nat]
    /\ \A a \in Ages :
           AgedStats[a].total = IF a < WindowSecs \/ last[0] = 0 THEN last[a] ELSE 0

\* the slot of a second, and the ages of the window
LEMMA SlotType ==
    /\ \A t \in Nat : t % WindowSecs \in Slots
    /\ 0 \in Ages /\ WindowSecs \in Ages /\ \A a \in Ages : a \in Nat /\ a <= WindowSecs
  BY Constants DEF Slots, Ages

LEMMA NoStatsType == NoStats \in Stats /\ NoStats.total = 0
  BY DEF NoStats, Stats

\* Counting a call keeps the counts of a bucket counts, and adds one to the total.
LEMMA CountType ==
    ASSUME NEW s \in Stats, NEW o, NEW b \in Bands
    PROVE  Count(s, o, b) \in Stats /\ Count(s, o, b).total = s.total + 1
  <1>1. s.total + 1 \in Nat
    BY DEF Stats
  <1>2. s.errors + (IF o = "REDIS_ERROR" THEN 1 ELSE 0) \in Nat
    BY DEF Stats
  <1>3. s.timeouts + (IF o = "TIMEOUT" THEN 1 ELSE 0) \in Nat
    BY DEF Stats
  <1>4. [s.hist EXCEPT ![b] = @ + 1] \in [Bands -> Nat]
    BY DEF Stats
  <1> QED BY <1>1, <1>2, <1>3, <1>4 DEF Count, Stats

\* The seconds of the window are past the epoch, and have a slot.
LEMMA AgeFacts ==
    ASSUME RingOK, NEW a \in Ages
    PROVE  now - a \in Nat /\ now - a > 0 /\ (now - a) % WindowSecs \in Slots
  <1>1. now - a \in Nat /\ now - a > 0
    BY Constants, SlotType DEF RingOK
  <1> QED BY <1>1, SlotType

LEMMA AgedType ==
    ASSUME RingOK
    PROVE  AgedStats \in [Ages -> Stats]
  <1>1. ASSUME NEW a \in Ages
        PROVE  buckets[(now - a) % WindowSecs].stats \in Stats
    BY AgeFacts DEF RingOK, Bucket
  <1> QED BY <1>1, NoStatsType DEF AgedStats

\* An empty ring is an empty window.
LEMMA EmptyRing ==
    /\ now \in Nat /\ now >= FirstSecond
    /\ buckets = [i \in Slots |-> FreshBucket]
    => RingOK /\ AgedStats = EmptyWindow
  <1> SUFFICES ASSUME now \in Nat, now >= FirstSecond,
                      buckets = [i \in Slots |-> FreshBucket]
               PROVE  RingOK /\ AgedStats = EmptyWindow
    OBVIOUS
  <1>1. FreshBucket.ts = 0 /\ FreshBucket \in Bucket
    BY NoStatsType DEF FreshBucket, Bucket
  <1>2. RingOK
    BY <1>1 DEF RingOK
  <1>3. ASSUME NEW a \in Ages
        PROVE  buckets[(now - a) % WindowSecs].ts # now - a
    BY <1>1, <1>2, <1>3, AgeFacts
  <1> QED BY <1>2, <1>3 DEF AgedStats, EmptyWindow

\* A record in the ring is a record in the window: the bucket of this second
\* takes the place of the one a whole window older, and no other.
LEMMA RecordInWindow ==
    ASSUME RingOK, NEW o \in Outcomes, NEW b \in Bands,
           buckets' = RecordIn(buckets, now, o, b), now' = now
    PROVE  RingOK' /\ AgedStats' = RecordAged(AgedStats, o, b)
  <1> DEFINE slot == now % WindowSecs
             old  == IF buckets[slot].ts # now THEN NoStats ELSE buckets[slot].stats
             new  == [ts |-> now, stats |-> Count(old, o, b)]
  <1>1. slot \in Slots /\ now \in Nat
    BY SlotType DEF RingOK
  <1>2. buckets' = [buckets EXCEPT ![slot] = new]
    BY DEF RecordIn
  <1>3. new \in Bucket /\ new.ts = now /\ new.stats = Count(old, o, b)
    <2>1. old \in Stats
      BY <1>1, NoStatsType DEF RingOK, Bucket
    <2> QED BY <1>1, <2>1, CountType DEF Bucket
  <1>4. old = AgedStats[0]
    <2>1. now - 0 = now
      BY <1>1
    <2> QED BY <2>1, SlotType DEF AgedStats
  <1>5. slot = now % WindowSecs
    OBVIOUS
  <1> HIDE DEF slot, old, new
  <1>6. RingOK'
    <2>1. buckets' \in [Slots -> Bucket]
      BY <1>1, <1>2, <1>3 DEF RingOK
    <2>2. \A i \in Slots : buckets'[i] = IF i = slot THEN new ELSE buckets[i]
      BY <1>1, <1>2 DEF RingOK
    <2> QED BY <1>1, <1>3, <1>5, <2>1, <2>2 DEF RingOK
  <1> DEFINE W == RecordAged(AgedStats, o, b)
  <1>7. ASSUME NEW a \in Ages
        PROVE  W[a] = IF a = 0 THEN Count(AgedStats[0], o, b)
                      ELSE IF a = WindowSecs THEN NoStats ELSE AgedStats[a]
    BY AgedType, Constants, SlotType DEF RecordAged
  <1>8. ASSUME NEW a \in Ages PROVE AgedStats'[a] = W[a]
    <2>1. /\ AgedStats'[a] = LET c == buckets'[(now - a) % WindowSecs]
                             IN  IF c.ts = now - a THEN c.stats ELSE NoStats
          /\ AgedStats[a] = LET c == buckets[(now - a) % WindowSecs]
                            IN  IF c.ts = now - a THEN c.stats ELSE NoStats
      BY DEF AgedStats
    <2>2. CASE a = 0
      <3>1. now - a = now
        BY <1>1, <2>2
      <3>2. buckets'[slot] = new
        BY <1>1, <1>2 DEF RingOK
      <3> QED BY <1>3, <1>4, <1>5, <1>7, <2>1, <2>2, <3>1, <3>2
    <2>3. CASE a = WindowSecs
      <3>1. (now - a) % WindowSecs = slot
        BY <1>1, <1>5, <2>3, Constants, SlotShared DEF RingOK
      <3>2. buckets'[slot] = new /\ now - a # now
        BY <1>1, <1>2, <2>3, Constants DEF RingOK
      <3> QED BY <1>3, <1>7, <2>1, <2>3, <3>1, <3>2, Constants
    <2>4. CASE a # 0 /\ a # WindowSecs
      <3>1. a \in 1..(WindowSecs - 1) /\ a <= now
        BY <1>1, <2>4, Constants DEF Ages, RingOK
      <3>2. (now - a) % WindowSecs # slot
        <4>1. WindowSecs \in Nat \ {0}
          BY Constants
        <4> QED BY <1>1, <1>5, <3>1, <4>1, SlotsApart, Zenon
      <3>3. buckets'[(now - a) % WindowSecs] = buckets[(now - a) % WindowSecs]
        BY <1>1, <1>2, <3>2, AgeFacts DEF RingOK
      <3> QED BY <1>7, <2>1, <2>4, <3>3
    <2> QED BY <2>2, <2>3, <2>4
  <1>9. DOMAIN AgedStats' = Ages /\ DOMAIN W = Ages
    BY DEF AgedStats, RecordAged
  <1>10. AgedStats' = [a \in Ages |-> AgedStats'[a]] /\ W = [a \in Ages |-> W[a]]
    BY DEF AgedStats, RecordAged
  <1> QED BY <1>6, <1>8, <1>10

\* The passing of a second makes every bucket one second older.
LEMMA SecondPassesInRing ==
    ASSUME RingOK, now' = now + 1, buckets' = buckets
    PROVE  RingOK' /\ AgedStats' = SecondPasses(AgedStats)
  <1>1. RingOK'
    <2>1. ASSUME NEW i \in Slots
          PROVE  buckets[i].ts <= now + 1 /\ (buckets[i].ts = 0 \/ buckets[i].ts % WindowSecs = i)
      BY DEF RingOK, Bucket
    <2>2. now + 1 \in Nat /\ now + 1 >= FirstSecond /\ buckets \in [Slots -> Bucket]
      BY Constants DEF RingOK
    <2> QED BY <2>1, <2>2 DEF RingOK
  <1>2. ASSUME NEW a \in Ages
        PROVE  AgedStats'[a] = IF a = 0 THEN NoStats ELSE AgedStats[a - 1]
    <2>1. AgedStats'[a] = LET c == buckets[(now + 1 - a) % WindowSecs]
                          IN  IF c.ts = now + 1 - a THEN c.stats ELSE NoStats
      <3>1. AgedStats'[a] = LET c == buckets'[(now' - a) % WindowSecs]
                            IN  IF c.ts = now' - a THEN c.stats ELSE NoStats
        BY Zenon DEF AgedStats
      <3>2. buckets' = buckets /\ now' = now + 1
        OBVIOUS
      <3>3. now' - a = now + 1 - a
        BY <3>2, SlotType DEF RingOK
      <3> QED BY <3>1, <3>2, <3>3, Zenon
    <2>2. CASE a = 0
      <3>1. (now + 1) % WindowSecs \in Slots /\ now + 1 - a = now + 1 /\ now + 1 # now
        BY <2>2, SlotType DEF RingOK
      <3>2. buckets[(now + 1) % WindowSecs].ts <= now
        BY <3>1 DEF RingOK
      <3>3. buckets[(now + 1) % WindowSecs].ts # now + 1
        BY <3>1, <3>2 DEF RingOK, Bucket
      <3> QED BY <2>1, <2>2, <3>1, <3>3
    <2>3. CASE a # 0
      <3>1. a - 1 \in Ages /\ now + 1 - a = now - (a - 1)
        BY <2>3, Constants DEF Ages, RingOK
      <3> QED BY <2>1, <2>3, <3>1 DEF AgedStats
    <2> QED BY <2>2, <2>3
  <1>3. AgedStats' = [a \in Ages |-> AgedStats'[a]]
    BY DEF AgedStats
  <1> QED BY <1>1, <1>2, <1>3 DEF SecondPasses

------------------------------------------------------------------------------

Inv == RingOK /\ EveryCallCounted

LEMMA InitInv == Init => Inv /\ AgedStats = EmptyWindow
  <1> SUFFICES ASSUME Init PROVE Inv /\ AgedStats = EmptyWindow
    OBVIOUS
  <1>1. RingOK /\ AgedStats = EmptyWindow
    BY EmptyRing, Constants DEF Init
  <1>2. EveryCallCounted
    BY <1>1, NoStatsType DEF Init, EveryCallCounted, EmptyWindow
  <1> QED BY <1>1, <1>2 DEF Inv

\* Every step keeps the invariant and is a step of the window.
LEMMA NextInv == Inv /\ [Next]_vars => Inv' /\ [Aged!Next]_AgedStats
  <1> SUFFICES ASSUME Inv, [Next]_vars PROVE Inv' /\ [Aged!Next]_AgedStats
    OBVIOUS
  <1>0. RingOK /\ EveryCallCounted /\ last \in [Ages -> Nat] /\ AgedStats \in [Ages -> Stats]
    BY AgedType DEF Inv, EveryCallCounted
  <1>1. CASE Record
    <2>1. PICK o \in Outcomes, b \in Bands :
              /\ buckets' = RecordIn(buckets, now, o, b)
              /\ last' = [last EXCEPT ![0] = @ + 1]
              /\ now' = now
      BY <1>1 DEF Record
    <2>2. RingOK' /\ AgedStats' = RecordAged(AgedStats, o, b)
      BY <1>0, <2>1, RecordInWindow
    <2>3. EveryCallCounted'
      <3>1. last' \in [Ages -> Nat] /\ last'[0] = last[0] + 1 /\ last'[0] # 0
        BY <1>0, <2>1, SlotType
      <3>2. ASSUME NEW a \in Ages
            PROVE  AgedStats'[a].total = IF a < WindowSecs \/ last'[0] = 0 THEN last'[a] ELSE 0
        <4>1. CASE a = 0
          <5>1. AgedStats'[a] = Count(AgedStats[0], o, b)
            BY <1>0, <2>2, <4>1, Constants, SlotType DEF RecordAged
          <5>2. AgedStats'[a].total = AgedStats[0].total + 1
            BY <1>0, <5>1, SlotType, CountType
          <5>3. AgedStats[0].total = last[0]
            BY <1>0, Constants, SlotType DEF EveryCallCounted
          <5> QED BY <3>1, <4>1, <5>2, <5>3, Constants
        <4>2. CASE a = WindowSecs
          <5>1. AgedStats'[a] = NoStats
            BY <1>0, <2>2, <4>2, Constants DEF RecordAged
          <5> QED BY <3>1, <4>2, <5>1, NoStatsType, Constants
        <4>3. CASE a # 0 /\ a # WindowSecs
          <5>1. AgedStats'[a] = AgedStats[a] /\ a < WindowSecs /\ last'[a] = last[a]
            BY <1>0, <2>1, <2>2, <4>3, Constants, SlotType DEF RecordAged, Ages
          <5> QED BY <1>0, <5>1 DEF EveryCallCounted
        <4> QED BY <4>1, <4>2, <4>3
      <3> QED BY <3>1, <3>2 DEF EveryCallCounted
    <2>4. Aged!Record
      BY <2>2 DEF Aged!Record, Aged!RecordAged, RecordAged, Aged!Outcomes, Outcomes,
                  Aged!Bands, Bands, Aged!Count, Count, Aged!NoStats, NoStats
    <2> QED BY <2>2, <2>3, <2>4 DEF Inv, Aged!Next
  <1>2. CASE Tick
    <2>1. /\ now' = now + 1 /\ buckets' = buckets
          /\ last' = [a \in Ages |-> IF a = 0 THEN 0 ELSE last[a - 1]]
      BY <1>2 DEF Tick
    <2>2. RingOK' /\ AgedStats' = SecondPasses(AgedStats)
      BY <1>0, <2>1, SecondPassesInRing
    <2>3. EveryCallCounted'
      <3>1. ASSUME NEW a \in Ages, a # 0
            PROVE  a - 1 \in Ages /\ a - 1 < WindowSecs
        BY <3>1, Constants DEF Ages
      <3>2. last' \in [Ages -> Nat] /\ last'[0] = 0
        BY <1>0, <2>1, <3>1, SlotType
      <3>3. ASSUME NEW a \in Ages PROVE AgedStats'[a].total = last'[a]
        <4>1. CASE a = 0
          BY <2>1, <2>2, <4>1, NoStatsType DEF SecondPasses
        <4>2. CASE a # 0
          <5>1. AgedStats'[a] = AgedStats[a - 1] /\ last'[a] = last[a - 1]
            BY <2>1, <2>2, <4>2 DEF SecondPasses
          <5> QED BY <1>0, <3>1, <4>2, <5>1 DEF EveryCallCounted
        <4> QED BY <4>1, <4>2
      <3> QED BY <3>2, <3>3 DEF EveryCallCounted
    <2>4. Aged!Tick
      BY <2>2 DEF Aged!Tick, Aged!SecondPasses, SecondPasses, Aged!Ages, Ages,
                  Aged!NoStats, NoStats, Aged!Bands, Bands
    <2> QED BY <2>2, <2>3, <2>4 DEF Inv, Aged!Next
  <1>3. CASE Reset
    <2>1. /\ now' = now /\ buckets' = [i \in Slots |-> FreshBucket]
          /\ last' = [a \in Ages |-> 0]
      BY <1>3 DEF Reset
    <2>2. RingOK' /\ AgedStats' = EmptyWindow
      <3>1. now' \in Nat /\ now' >= FirstSecond
        BY <1>0, <2>1 DEF RingOK
      <3>2. (/\ now \in Nat /\ now >= FirstSecond
             /\ buckets = [i \in Slots |-> FreshBucket]
             => RingOK /\ AgedStats = EmptyWindow)'
        BY EmptyRing, PTL
      <3> QED BY <2>1, <3>1, <3>2
    <2>3. EveryCallCounted'
      BY <2>1, <2>2, NoStatsType DEF EveryCallCounted, EmptyWindow
    <2>4. Aged!Reset
      BY <2>2 DEF Aged!Reset, Aged!EmptyWindow, EmptyWindow, Aged!Ages, Ages,
                  Aged!NoStats, NoStats, Aged!Bands, Bands
    <2> QED BY <2>2, <2>3, <2>4 DEF Inv, Aged!Next
  <1>4. CASE UNCHANGED vars
    <2>1. now' = now /\ buckets' = buckets /\ last' = last
      BY <1>4 DEF vars
    <2>2. AgedStats' = AgedStats /\ RingOK'
      BY <1>0, <2>1 DEF AgedStats, RingOK
    <2> QED BY <1>0, <2>1, <2>2 DEF Inv, EveryCallCounted
  <1> QED BY <1>1, <1>2, <1>3, <1>4 DEF Next

LEMMA AlwaysInv == Spec => []Inv
  BY InitInv, NextInv, PTL DEF Spec

\* The ring implements the window indexed by age (class RollingWindow): record(), the
\* passing of a second and reset() do to the ages what the breaker module is
\* written with, for every length of the window.
THEOREM RingImplementsWindow == Spec => ImplementsAgedWindow
  <1>1. Init => Aged!Init
    BY InitInv DEF Aged!Init, Aged!EmptyWindow, EmptyWindow, Aged!Ages, Ages,
                   Aged!NoStats, NoStats, Aged!Bands, Bands
  <1>2. Inv /\ [Next]_vars => [Aged!Next]_AgedStats
    BY NextInv
  <1> QED BY <1>1, <1>2, AlwaysInv, PTL DEF Spec, ImplementsAgedWindow, Aged!Spec

\* Each age of the window counts the calls recorded in its second, none lost when
\* a slot is reused and none counted twice: age by age what CountsWholeWindow says
\* of their sum (record() and aggregate()).
THEOREM CountsEveryAge == Spec => []EveryCallCounted
  BY AlwaysInv, PTL DEF Inv

(***************************************************************************)
(* The buckets aggregate() does not skip, and the ages of the window.      *)
(***************************************************************************)
AggregateSeesTheWindow ==
    /\ \A i \in Slots : InWindow(buckets[i]) =>
           \E a \in Ages : buckets[i].ts = now - a /\ buckets[i].stats = AgedStats[a]
    /\ \A i, j \in Slots :
           InWindow(buckets[i]) /\ InWindow(buckets[j]) /\ i # j => buckets[i].ts # buckets[j].ts
    /\ \A a \in Ages : AgedStats[a] # NoStats =>
           \E i \in Slots : /\ InWindow(buckets[i])
                            /\ buckets[i].ts = now - a /\ buckets[i].stats = AgedStats[a]

\* aggregate() takes every age of the window from one bucket, and takes no bucket
\* that is not of the window: a slot that still holds an old second is skipped.
THEOREM AggregateReadsEachAgeOnce == Spec => []AggregateSeesTheWindow
  <1>1. RingOK => AggregateSeesTheWindow
    <2> SUFFICES ASSUME RingOK PROVE AggregateSeesTheWindow
      OBVIOUS
    <2>1. now \in Nat /\ now > WindowSecs
      BY Constants DEF RingOK
    <2>2. ASSUME NEW i \in Slots, InWindow(buckets[i])
          PROVE  /\ buckets[i].ts \in Nat /\ buckets[i].ts > 0
                 /\ buckets[i].ts % WindowSecs = i
                 /\ buckets[i].ts >= now - WindowSecs /\ buckets[i].ts <= now
      <3>1. /\ buckets[i].ts \in Nat
            /\ buckets[i].ts >= now - WindowSecs /\ buckets[i].ts <= now
        BY <2>2 DEF RingOK, Bucket, InWindow
      <3>2. buckets[i].ts > 0
        BY <2>1, <3>1, Constants
      <3>3. buckets[i].ts = 0 \/ buckets[i].ts % WindowSecs = i
        BY DEF RingOK
      <3> QED BY <3>1, <3>2, <3>3
    <2>3. ASSUME NEW i \in Slots, InWindow(buckets[i])
          PROVE  \E a \in Ages : buckets[i].ts = now - a /\ buckets[i].stats = AgedStats[a]
      <3> DEFINE age == now - buckets[i].ts
      <3>1. age \in Ages /\ buckets[i].ts = now - age
        BY <2>1, <2>2, <2>3, Constants DEF Ages
      <3>2. (now - age) % WindowSecs = i
        BY <2>2, <2>3, <3>1
      <3> HIDE DEF age
      <3>3. AgedStats[age] = buckets[i].stats
        BY <3>1, <3>2 DEF AgedStats
      <3> QED BY <3>1, <3>3
    <2>4. ASSUME NEW i \in Slots, NEW j \in Slots,
                 InWindow(buckets[i]), InWindow(buckets[j]), i # j
          PROVE  buckets[i].ts # buckets[j].ts
      <3>1. buckets[i].ts % WindowSecs = i /\ buckets[j].ts % WindowSecs = j
        BY <2>2, <2>4
      <3> QED BY <2>4, <3>1
    <2>5. ASSUME NEW a \in Ages, AgedStats[a] # NoStats
          PROVE  \E i \in Slots : /\ InWindow(buckets[i])
                                  /\ buckets[i].ts = now - a /\ buckets[i].stats = AgedStats[a]
      <3> DEFINE i == (now - a) % WindowSecs
      <3>1. AgedStats[a] = IF buckets[i].ts = now - a THEN buckets[i].stats ELSE NoStats
        BY DEF AgedStats
      <3>2. i \in Slots
        BY AgeFacts
      <3> HIDE DEF i
      <3>3. buckets[i].ts = now - a /\ buckets[i].stats = AgedStats[a]
        BY <2>5, <3>1
      <3>4. InWindow(buckets[i])
        BY <2>1, <3>3, Constants, SlotType DEF InWindow
      <3> QED BY <3>2, <3>3, <3>4
    <2> QED BY <2>3, <2>4, <2>5 DEF AggregateSeesTheWindow
  <1> QED BY <1>1, AlwaysInv, PTL DEF Inv

------------------------------------------------------------------------------
(* The sum over the slots is the sum over the ages *)

Recent    == 0..(WindowSecs - 1)
SlotOf(a) == (now - a) % WindowSecs

\* Of the ages of the window, only the youngest and the oldest share a slot ...
LEMMA AgesApart ==
    ASSUME RingOK, NEW a \in Ages, NEW c \in Ages, a < c, SlotOf(a) = SlotOf(c)
    PROVE  a = 0 /\ c = WindowSecs
  <1> DEFINE n == now - a
             d == c - a
  <1>1. n \in Nat /\ n - d = now - c /\ d \in Nat /\ d > 0 /\ d <= WindowSecs /\ d <= n
    <2>1. now - c > 0
      BY AgeFacts
    <2> QED BY <2>1, AgeFacts, SlotType, Constants DEF RingOK
  <1>2. (n - d) % WindowSecs = n % WindowSecs
    BY <1>1 DEF SlotOf
  <1> HIDE DEF n, d
  <1>3. d \notin 1..(WindowSecs - 1)
    <2>1. WindowSecs \in Nat \ {0}
      BY Constants
    <2> QED BY <1>1, <1>2, <2>1, SlotsApart, Zenon
  <1>4. d = WindowSecs
    BY <1>1, <1>3, Constants
  <1> QED BY <1>4, SlotType, Constants DEF d

\* ... and every slot is that of one of the last WindowSecs seconds.
LEMMA EverySlot ==
    ASSUME RingOK, NEW i \in Slots
    PROVE  \E a \in Recent : SlotOf(a) = i
  <1> DEFINE q == (now - i) \div WindowSecs
             a == (now - i) % WindowSecs
  <1>1. now - i \in Nat /\ now \in Nat /\ i \in Nat /\ i < WindowSecs
    BY Constants DEF RingOK, Slots
  <1>2. q \in Nat /\ a \in Recent /\ now - i = WindowSecs * q + a
    <2>1. WindowSecs \in Nat \ {0}
      BY Constants
    <2>2. /\ q \in Nat /\ a \in 0..(WindowSecs - 1)
          /\ now - i = WindowSecs * q + a
      BY <1>1, <2>1, Division, Zenon
    <2> QED BY <2>2 DEF Recent
  <1> HIDE DEF q, a
  <1>3. now - a = WindowSecs * q + i
    BY <1>1, <1>2, Constants DEF Recent
  <1>4. (WindowSecs * q + i) % WindowSecs = i
    BY <1>1, <1>2, Constants
  <1> QED BY <1>2, <1>3, <1>4 DEF SlotOf

\* The bucket in the slot of an age is in the window exactly when it is of that
\* age, or of the other age that shares the slot.
LEMMA BucketAge ==
    ASSUME RingOK, NEW a \in Recent
    PROVE  LET b == buckets[SlotOf(a)]
           IN  /\ InWindow(b) <=> b.ts = now - a \/ (a = 0 /\ b.ts = now - WindowSecs)
               /\ now - WindowSecs # now
  <1> DEFINE b == buckets[SlotOf(a)]
             age == now - b.ts
  <1>0. /\ now \in Nat /\ now > WindowSecs /\ a \in Ages /\ a \in Nat /\ a < WindowSecs
        /\ SlotOf(a) \in Slots
    BY Constants, AgeFacts DEF RingOK, Recent, Ages, SlotOf
  <1>1. b.ts \in Nat /\ (b.ts = 0 \/ b.ts % WindowSecs = SlotOf(a))
    BY <1>0 DEF RingOK, Bucket
  <1> HIDE DEF b
  <1>2. ASSUME b.ts = now - a \/ (a = 0 /\ b.ts = now - WindowSecs) PROVE InWindow(b)
    BY <1>0, <1>2, Constants DEF InWindow
  <1>3. ASSUME InWindow(b) PROVE b.ts = now - a \/ (a = 0 /\ b.ts = now - WindowSecs)
    <2>1. age \in Ages /\ b.ts = now - age /\ b.ts > 0
      BY <1>0, <1>1, <1>3, Constants DEF InWindow, Ages
    <2> HIDE DEF age
    <2>2. SlotOf(age) = SlotOf(a)
      BY <1>1, <2>1 DEF SlotOf
    <2>3. a < age => a = 0 /\ age = WindowSecs
      BY <1>0, <2>1, <2>2, AgesApart
    <2>4. ~(age < a)
      BY <1>0, <2>1, <2>2, AgesApart, Constants
    <2>5. age \in Nat
      BY <2>1, SlotType
    <2> QED BY <1>0, <2>1, <2>3, <2>4, <2>5
  <1> QED BY <1>0, <1>2, <1>3, Constants DEF b

\* What the loop of aggregate() adds up in one field is what that field is in
\* the window by age.
LEMMA SlotsAddUp ==
    ASSUME RingOK, NEW v \in [Slots -> Nat], NEW u \in [Ages -> Nat],
           \A a \in Recent \ {0} : v[SlotOf(a)] = u[a],
           v[SlotOf(0)] = u[0] + u[WindowSecs]
    PROVE  SumFunctionOnSet(v, Slots) = SumFunctionOnSet(u, Ages)
  <1> DEFINE h    == [a \in Recent |-> SlotOf(a)]
             k    == [a \in Recent |-> v[h[a]]]
             Rest == Recent \ {0}
  <1>0. /\ 0 \in Recent /\ Recent \subseteq Ages /\ Ages \ {WindowSecs} = Recent
        /\ WindowSecs \in Ages /\ Slots = Recent
    BY Constants DEF Recent, Ages, Slots
  <1>1. IsFiniteSet(Recent) /\ IsFiniteSet(Ages)
    <2>1. WindowSecs - 1 \in Int /\ WindowSecs \in Int
      BY Constants
    <2> QED BY <2>1, FS_Interval DEF Recent, Ages
  <1>2. h \in [Recent -> Slots] /\ k \in [Recent -> Nat]
    BY <1>0, AgeFacts DEF SlotOf
  <1>3. \A x, y \in Recent : h[x] = h[y] => x = y
    <2> SUFFICES ASSUME NEW x \in Recent, NEW y \in Recent, h[x] = h[y] PROVE x = y
      OBVIOUS
    <2>1. SlotOf(x) = SlotOf(y) /\ x \in Ages /\ y \in Ages
      BY <1>0
    <2>2. x \in Nat /\ y \in Nat /\ x < WindowSecs /\ y < WindowSecs
      BY Constants DEF Recent
    <2> QED BY <2>1, <2>2, AgesApart
  <1>4. \A i \in Slots : \E a \in Recent : h[a] = i
    BY EverySlot
  <1>5. \A a \in Recent : k[a] = v[h[a]]
    OBVIOUS
  <1>6. k[0] = u[0] + u[WindowSecs] /\ \A a \in Rest : k[a] = u[a]
    BY <1>0
  <1> HIDE DEF h, k
  <1>7. NatOn(v, Slots) /\ NatOn(k, Recent) /\ NatOn(u, Ages) /\ NatOn(u, Recent)
    BY <1>0, <1>1, <1>2 DEF NatOn
  <1>8. SumFunctionOnSet(k, Recent) = SumFunctionOnSet(v, Slots)
    BY <1>1, <1>2, <1>3, <1>4, <1>5, <1>7, SumRenamed
  <1>9. SumFunctionOnSet(k, Recent) = k[0] + SumFunctionOnSet(k, Rest)
    BY <1>0, <1>7, SumTakeOut
  <1>10. SumFunctionOnSet(u, Recent) = u[0] + SumFunctionOnSet(u, Rest)
    BY <1>0, <1>7, SumTakeOut
  <1>11. SumFunctionOnSet(u, Ages) = u[WindowSecs] + SumFunctionOnSet(u, Recent)
    BY <1>0, <1>7, SumTakeOut
  <1>12. NatOn(u, Rest) /\ NatOn(k, Rest)
    BY <1>0, <1>1, <1>2, FS_Subset DEF NatOn
  <1>13. /\ SumFunctionOnSet(k, Rest) = SumFunctionOnSet(u, Rest)
         /\ SumFunctionOnSet(u, Rest) \in Nat
    BY <1>6, <1>12, SumSame, SumType
  <1>14. u[0] \in Nat /\ u[WindowSecs] \in Nat
    BY <1>0
  <1> QED BY <1>6, <1>8, <1>9, <1>10, <1>11, <1>13, <1>14

\* what the loop of aggregate() adds up
Read(i) == IF InWindow(buckets[i]) THEN buckets[i].stats ELSE NoStats

\* The bucket that aggregate() reads from a slot is the age of that slot; the
\* slot of this second is read for two ages, of which one is empty.
LEMMA ReadsAge ==
    ASSUME RingOK
    PROVE  /\ \A i \in Slots : Read(i) \in Stats
           /\ \A a \in Recent \ {0} : Read(SlotOf(a)) = AgedStats[a]
           /\ \/ Read(SlotOf(0)) = AgedStats[0] /\ AgedStats[WindowSecs] = NoStats
              \/ Read(SlotOf(0)) = AgedStats[WindowSecs] /\ AgedStats[0] = NoStats
  <1>1. \A i \in Slots : Read(i) \in Stats
    BY NoStatsType DEF Read, RingOK, Bucket
  <1>2. ASSUME NEW a \in Ages
        PROVE  AgedStats[a] = IF buckets[SlotOf(a)].ts = now - a
                              THEN buckets[SlotOf(a)].stats ELSE NoStats
    BY DEF AgedStats, SlotOf
  <1>3. 0 \in Recent /\ Recent \subseteq Ages /\ WindowSecs \in Ages /\ 0 \in Ages
    BY Constants DEF Recent, Ages
  <1>4. ASSUME NEW a \in Recent \ {0} PROVE Read(SlotOf(a)) = AgedStats[a]
    BY <1>2, <1>3, BucketAge DEF Read
  <1>5. SlotOf(WindowSecs) = SlotOf(0) /\ now - 0 = now
    <2>1. now \in Nat /\ WindowSecs \in Nat \ {0} /\ WindowSecs <= now /\ now - 0 = now
      BY Constants DEF RingOK
    <2>2. (now - WindowSecs) % WindowSecs = now % WindowSecs
      BY <2>1, SlotShared
    <2> QED BY <2>1, <2>2 DEF SlotOf
  <1> DEFINE b == buckets[SlotOf(0)]
  <1>6. /\ InWindow(b) <=> b.ts = now \/ b.ts = now - WindowSecs
        /\ now - WindowSecs # now
    BY <1>3, <1>5, BucketAge
  <1>7. /\ AgedStats[0] = IF b.ts = now THEN b.stats ELSE NoStats
        /\ AgedStats[WindowSecs] = IF b.ts = now - WindowSecs THEN b.stats ELSE NoStats
        /\ Read(SlotOf(0)) = IF InWindow(b) THEN b.stats ELSE NoStats
    BY <1>2, <1>3, <1>5 DEF Read
  <1> HIDE DEF b
  <1> QED BY <1>1, <1>4, <1>6, <1>7

\* So a field of the stats has the same sum over the slots and over the ages.
LEMMA FieldAddsUp ==
    ASSUME RingOK, NEW F \in [Stats -> Nat], F[NoStats] = 0
    PROVE  SumFunctionOnSet([i \in Slots |-> F[Read(i)]], Slots)
               = SumFunctionOnSet([a \in Ages |-> F[AgedStats[a]]], Ages)
  <1> DEFINE v == [i \in Slots |-> F[Read(i)]]
             u == [a \in Ages |-> F[AgedStats[a]]]
  <1>0. /\ AgedStats \in [Ages -> Stats] /\ 0 \in Ages /\ WindowSecs \in Ages
        /\ \A i \in Slots : Read(i) \in Stats
    BY AgedType, ReadsAge, SlotType
  <1>1. v \in [Slots -> Nat] /\ u \in [Ages -> Nat]
    BY <1>0
  <1>2. \A a \in Recent : a \in Ages /\ SlotOf(a) \in Slots
    BY AgeFacts, Constants DEF Recent, Ages, SlotOf
  <1>3. \A a \in Recent \ {0} : v[SlotOf(a)] = u[a]
    BY <1>2, ReadsAge
  <1>4. v[SlotOf(0)] = F[Read(SlotOf(0))] /\ u[0] = F[AgedStats[0]]
        /\ u[WindowSecs] = F[AgedStats[WindowSecs]]
    BY <1>0, <1>2, Constants DEF Recent
  <1>5. v[SlotOf(0)] = u[0] + u[WindowSecs]
    <2>1. u[0] \in Nat /\ u[WindowSecs] \in Nat
      BY <1>0, <1>1
    <2> HIDE DEF v, u
    <2>2. CASE Read(SlotOf(0)) = AgedStats[0] /\ AgedStats[WindowSecs] = NoStats
      <3>1. v[SlotOf(0)] = u[0] /\ u[WindowSecs] = 0
        BY <1>4, <2>2
      <3> QED BY <2>1, <3>1
    <2>3. CASE Read(SlotOf(0)) = AgedStats[WindowSecs] /\ AgedStats[0] = NoStats
      <3>1. v[SlotOf(0)] = u[WindowSecs] /\ u[0] = 0
        BY <1>4, <2>3
      <3> QED BY <2>1, <3>1
    <2> QED BY <2>2, <2>3, ReadsAge
  <1> HIDE DEF v, u
  <1>6. SumFunctionOnSet(v, Slots) = SumFunctionOnSet(u, Ages)
    BY <1>1, <1>3, <1>5, SlotsAddUp
  <1> QED BY <1>6 DEF v, u

\* All fields together.
LEMMA FieldsAddUp ==
    ASSUME RingOK
    PROVE  Aggregate = SumStats(AgedStats)
  <1>0. /\ \A a \in Ages : AgedStats[a] \in Stats
        /\ \A i \in Slots : Read(i) \in Stats
        /\ DOMAIN AgedStats = Ages
    BY AgedType, ReadsAge DEF AgedStats
  <1> DEFINE OfSlots(F) == SumFunctionOnSet([i \in Slots |-> F[Read(i)]], Slots)
             OfAges(F)  == SumFunctionOnSet([a \in Ages |-> F[AgedStats[a]]], Ages)
  <1>1. /\ NoStats \in Stats
        /\ NoStats.total = 0 /\ NoStats.errors = 0 /\ NoStats.timeouts = 0
        /\ \A b \in Bands : NoStats.hist[b] = 0
    BY NoStatsType DEF NoStats
  <1>2. \A s \in Stats : /\ s.total \in Nat /\ s.errors \in Nat /\ s.timeouts \in Nat
                         /\ \A b \in Bands : s.hist[b] \in Nat
    BY DEF Stats
  <1>3. /\ DOMAIN [i \in Slots |-> IF InWindow(buckets[i]) THEN buckets[i].stats ELSE NoStats] = Slots
        /\ \A i \in Slots : [j \in Slots |-> IF InWindow(buckets[j]) THEN buckets[j].stats
                                             ELSE NoStats][i] = Read(i)
    BY DEF Read
  <1>4. SumFunctionOnSet([i \in Slots |-> Read(i).total], Slots)
            = SumFunctionOnSet([a \in Ages |-> AgedStats[a].total], Ages)
    <2> DEFINE F == [s \in Stats |-> s.total]
    <2>1. F \in [Stats -> Nat] /\ F[NoStats] = 0
      BY <1>1, <1>2
    <2>2. /\ \A i \in Slots : F[Read(i)] = Read(i).total
          /\ \A a \in Ages : F[AgedStats[a]] = AgedStats[a].total
      BY <1>0
    <2> HIDE DEF F
    <2>3. OfSlots(F) = OfAges(F)
      BY <2>1, FieldAddsUp
    <2>4. /\ [i \in Slots |-> F[Read(i)]] = [i \in Slots |-> Read(i).total]
          /\ [a \in Ages |-> F[AgedStats[a]]] = [a \in Ages |-> AgedStats[a].total]
      BY <2>2
    <2> QED BY <2>3, <2>4, Zenon
  <1>5. SumFunctionOnSet([i \in Slots |-> Read(i).errors], Slots)
            = SumFunctionOnSet([a \in Ages |-> AgedStats[a].errors], Ages)
    <2> DEFINE F == [s \in Stats |-> s.errors]
    <2>1. F \in [Stats -> Nat] /\ F[NoStats] = 0
      BY <1>1, <1>2
    <2>2. /\ \A i \in Slots : F[Read(i)] = Read(i).errors
          /\ \A a \in Ages : F[AgedStats[a]] = AgedStats[a].errors
      BY <1>0
    <2> HIDE DEF F
    <2>3. OfSlots(F) = OfAges(F)
      BY <2>1, FieldAddsUp
    <2>4. /\ [i \in Slots |-> F[Read(i)]] = [i \in Slots |-> Read(i).errors]
          /\ [a \in Ages |-> F[AgedStats[a]]] = [a \in Ages |-> AgedStats[a].errors]
      BY <2>2
    <2> QED BY <2>3, <2>4, Zenon
  <1>6. SumFunctionOnSet([i \in Slots |-> Read(i).timeouts], Slots)
            = SumFunctionOnSet([a \in Ages |-> AgedStats[a].timeouts], Ages)
    <2> DEFINE F == [s \in Stats |-> s.timeouts]
    <2>1. F \in [Stats -> Nat] /\ F[NoStats] = 0
      BY <1>1, <1>2
    <2>2. /\ \A i \in Slots : F[Read(i)] = Read(i).timeouts
          /\ \A a \in Ages : F[AgedStats[a]] = AgedStats[a].timeouts
      BY <1>0
    <2> HIDE DEF F
    <2>3. OfSlots(F) = OfAges(F)
      BY <2>1, FieldAddsUp
    <2>4. /\ [i \in Slots |-> F[Read(i)]] = [i \in Slots |-> Read(i).timeouts]
          /\ [a \in Ages |-> F[AgedStats[a]]] = [a \in Ages |-> AgedStats[a].timeouts]
      BY <2>2
    <2> QED BY <2>3, <2>4, Zenon
  <1>7. ASSUME NEW b \in Bands
        PROVE  SumFunctionOnSet([i \in Slots |-> Read(i).hist[b]], Slots)
                   = SumFunctionOnSet([a \in Ages |-> AgedStats[a].hist[b]], Ages)
    <2> DEFINE F == [s \in Stats |-> s.hist[b]]
    <2>1. F \in [Stats -> Nat] /\ F[NoStats] = 0
      BY <1>1, <1>2
    <2>2. /\ \A i \in Slots : F[Read(i)] = Read(i).hist[b]
          /\ \A a \in Ages : F[AgedStats[a]] = AgedStats[a].hist[b]
      BY <1>0
    <2> HIDE DEF F
    <2>3. OfSlots(F) = OfAges(F)
      BY <2>1, FieldAddsUp
    <2>4. /\ [i \in Slots |-> F[Read(i)]] = [i \in Slots |-> Read(i).hist[b]]
          /\ [a \in Ages |-> F[AgedStats[a]]] = [a \in Ages |-> AgedStats[a].hist[b]]
      BY <2>2
    <2> QED BY <2>3, <2>4, Zenon
  <1>8. Aggregate = [total    |-> SumFunctionOnSet([i \in Slots |-> Read(i).total], Slots),
                     errors   |-> SumFunctionOnSet([i \in Slots |-> Read(i).errors], Slots),
                     timeouts |-> SumFunctionOnSet([i \in Slots |-> Read(i).timeouts], Slots),
                     hist     |-> [b \in Bands |-> SumFunctionOnSet([i \in Slots |-> Read(i).hist[b]], Slots)]]
    BY <1>3 DEF Aggregate, SumStats, SumFunction
  <1>9. SumStats(AgedStats)
            = [total    |-> SumFunctionOnSet([a \in Ages |-> AgedStats[a].total], Ages),
               errors   |-> SumFunctionOnSet([a \in Ages |-> AgedStats[a].errors], Ages),
               timeouts |-> SumFunctionOnSet([a \in Ages |-> AgedStats[a].timeouts], Ages),
               hist     |-> [b \in Bands |-> SumFunctionOnSet([a \in Ages |-> AgedStats[a].hist[b]], Ages)]]
    BY <1>0 DEF SumStats, SumFunction
  <1>10. [b \in Bands |-> SumFunctionOnSet([i \in Slots |-> Read(i).hist[b]], Slots)]
            = [b \in Bands |-> SumFunctionOnSet([a \in Ages |-> AgedStats[a].hist[b]], Ages)]
    BY <1>7
  <1> QED BY <1>4, <1>5, <1>6, <1>8, <1>9, <1>10, Zenon

\* aggregate() returns the sum over all ages of the window, which counts every
\* call recorded in the last WindowSecs seconds and, until the current second
\* has a record of its own, those of the second before: reusing a slot never
\* loses a bucket that is still in the window, and no stale bucket is counted.
THEOREM WholeWindowCounted == Spec => []CountsWholeWindow
  <1>1. Inv => CountsWholeWindow
    <2> SUFFICES ASSUME RingOK, EveryCallCounted PROVE CountsWholeWindow
      BY DEF Inv
    <2>1. Aggregate = SumStats(AgedStats)
      BY FieldsAddUp
    <2>2. Aggregate.total = SumFunctionOnSet([a \in Ages |-> AgedStats[a].total], Ages)
      BY <2>1, Zenon DEF SumStats, SumFunction, AgedStats
    <2> DEFINE u == [a \in Ages |-> AgedStats[a].total]
    <2>3. /\ Recent \subseteq Ages /\ Ages \ {WindowSecs} = Recent
          /\ WindowSecs \in Ages /\ 0 \in Recent
      BY Constants DEF Recent, Ages
    <2>4. IsFiniteSet(Recent) /\ IsFiniteSet(Ages)
      <3>1. WindowSecs - 1 \in Int /\ WindowSecs \in Int
        BY Constants
      <3> QED BY <3>1, FS_Interval DEF Recent, Ages
    <2>5. \A a \in Ages : u[a] = IF a < WindowSecs \/ last[0] = 0 THEN last[a] ELSE 0
      BY DEF EveryCallCounted
    <2>6. last \in [Ages -> Nat]
      BY DEF EveryCallCounted
    <2> HIDE DEF u
    <2>7. NatOn(u, Ages) /\ NatOn(last, Recent)
      BY <2>3, <2>4, <2>5, <2>6 DEF NatOn
    <2>8. SumFunctionOnSet(u, Ages) = u[WindowSecs] + SumFunctionOnSet(u, Recent)
      BY <2>3, <2>7, SumTakeOut
    <2>9. SumFunctionOnSet(last, Recent) = SumFunctionOnSet(u, Recent)
      <3>1. \A a \in Recent : last[a] = u[a]
        BY <2>3, <2>5, Constants DEF Recent
      <3> QED BY <2>7, <3>1, SumSame
    <2>10. u[WindowSecs] = IF last[0] = 0 THEN last[WindowSecs] ELSE 0
      BY <2>3, <2>5, Constants
    <2>11. SumFunctionOnSet(last, Recent) \in Nat /\ last[WindowSecs] \in Nat
      BY <2>3, <2>6, <2>7, SumType
    <2>12. Aggregate.total = SumFunctionOnSet(last, Recent)
                             + (IF last[0] = 0 THEN last[WindowSecs] ELSE 0)
      <3>1. Aggregate.total = SumFunctionOnSet(u, Ages)
        BY <2>2 DEF u
      <3> QED BY <3>1, <2>8, <2>9, <2>10, <2>11
    <2> QED BY <2>1, <2>12 DEF CountsWholeWindow, Recent
  <1> QED BY <1>1, AlwaysInv, PTL DEF Spec

==============================================================================
