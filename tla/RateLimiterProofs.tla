-------------------------- MODULE RateLimiterProofs --------------------------
(***************************************************************************)
(* Theorems about the rate limiter, for any number of processes and of     *)
(* requests each of them handles at the same time, any limit, any window,  *)
(* and outages of Redis without limit.                                     *)
(***************************************************************************)
EXTENDS RateLimiter, Sums

WindowAges == 0..(Window - 1)
Pcs        == {"idle", "send", "reply", "failed", "probe"}

LEMMA Constants ==
    /\ MaxRequests \in Nat /\ MaxRequests > 0
    /\ Window \in Nat /\ Window > 0
    /\ ProbeGap \in Nat /\ ProbeGap > 0
    /\ "redis" \notin Procs /\ "redis" \in Stores /\ Procs \subseteq Stores
    /\ 0 \in WindowAges /\ IsFiniteSet(WindowAges)
  <1>1. Window - 1 \in Int
    BY LimiterAssumption
  <1>2. IsFiniteSet(WindowAges)
    BY <1>1, FS_Interval DEF WindowAges
  <1> QED BY <1>2, LimiterAssumption DEF Stores, WindowAges

LEMMA CapType ==
    ASSUME NEW n \in Nat
    PROVE  /\ Cap(n) \in 0..(MaxRequests + 1)
           /\ Allowed(Cap(n)) <=> n <= MaxRequests
           /\ n <= MaxRequests => Cap(n) = n
           /\ n > MaxRequests => Cap(n) = MaxRequests + 1
  BY Constants DEF Cap, Allowed

------------------------------------------------------------------------------
(* Types *)

LocalWindow == [count: 0..(MaxRequests + 1), left: -1..Window]

\* the requests, and the history of what was admitted
ReqOK    == /\ req = [p \in Procs |-> req[p]]
            /\ \A p \in Procs : req[p] \in [Slots[p] -> Pcs]
GrantsOK == grants \in [Stores -> [WindowAges -> Nat]]

TypeInv == TypeOK /\ ReqOK /\ GrantsOK

LEMMA GotoType ==
    ASSUME ReqOK, NEW p \in Procs, NEW s \in Slots[p], NEW pc \in Pcs, Goto(p, s, pc)
    PROVE  ReqOK'
  <1>1. req' = [req EXCEPT ![p] = [req[p] EXCEPT ![s] = pc]]
    BY DEF Goto
  <1>2. [req[p] EXCEPT ![s] = pc] \in [Slots[p] -> Pcs]
    BY DEF ReqOK
  <1>3. DOMAIN req = Procs
    BY DEF ReqOK
  <1>4. \A q \in Procs : req'[q] = IF q = p THEN [req[p] EXCEPT ![s] = pc] ELSE req[q]
    BY <1>1, <1>3
  <1>5. req' = [q \in Procs |-> req'[q]]
    BY <1>1, <1>3
  <1> QED BY <1>2, <1>4, <1>5 DEF ReqOK

LEMMA WindowTypes ==
    /\ NoWindow \in LocalWindow /\ NoWindow.count = 0 /\ NoWindow.left = -1
    /\ NewWindow \in LocalWindow /\ NewWindow.count = 0 /\ NewWindow.left = Window
  BY Constants DEF NoWindow, NewWindow, LocalWindow

\* A store that counts a request adds it to the present age, if it admits it.
LEMMA GrantIs ==
    ASSUME GrantsOK, NEW st \in Stores, NEW n \in Nat, Grant(st, n)
    PROVE  /\ GrantsOK'
           /\ \A t \in Stores \ {st} : grants'[t] = grants[t]
           /\ grants'[st] = IF Allowed(n) THEN [grants[st] EXCEPT ![0] = @ + 1] ELSE grants[st]
  <1>1. CASE Allowed(n)
    <2>1. grants' = [grants EXCEPT ![st] = [grants[st] EXCEPT ![0] = grants[st][0] + 1]]
      BY <1>1 DEF Grant
    <2>2. [grants[st] EXCEPT ![0] = grants[st][0] + 1] \in [WindowAges -> Nat]
      BY Constants DEF GrantsOK
    <2> QED BY <1>1, <2>1, <2>2 DEF GrantsOK
  <1>2. CASE ~Allowed(n)
    BY <1>2 DEF Grant, GrantsOK
  <1> QED BY <1>1, <1>2

\* What a request that is counted in the process does to its window.
Entry(p)   == IF local[p].left < 0 THEN NewWindow ELSE local[p]
Counted(p) == Cap(Entry(p).count + 1)

CountsLocally(p) ==
    /\ local' = [local EXCEPT ![p] = [Entry(p) EXCEPT !.count = Counted(p)]]
    /\ Grant(p, Counted(p))

LEMMA LocalIs ==
    ASSUME NEW p, NEW s, NEW fb, LocalRateLimit(p, s, fb)
    PROVE  CountsLocally(p) /\ fallback' = fb /\ Answer(p, s)
  BY DEF LocalRateLimit, CountsLocally, Entry, Counted

LEMMA LocalType ==
    ASSUME TypeInv, NEW p \in Procs, CountsLocally(p)
    PROVE  /\ Entry(p) \in LocalWindow /\ Counted(p) \in 0..(MaxRequests + 1)
           /\ [Entry(p) EXCEPT !.count = Counted(p)] \in LocalWindow
           /\ local' \in [Procs -> LocalWindow]
           /\ GrantsOK'
  <1>1. Entry(p) \in LocalWindow
    BY WindowTypes DEF TypeInv, TypeOK, Entry, LocalWindow
  <1>2. Entry(p).count + 1 \in Nat
    BY <1>1, Constants DEF LocalWindow
  <1>3. Counted(p) \in 0..(MaxRequests + 1) /\ Counted(p) \in Nat
    BY <1>2, CapType, Constants DEF Counted
  <1>4. [Entry(p) EXCEPT !.count = Counted(p)] \in LocalWindow
    BY <1>1, <1>3 DEF LocalWindow
  <1>5. local' \in [Procs -> LocalWindow]
    BY <1>4 DEF CountsLocally, TypeInv, TypeOK, LocalWindow
  <1>6. GrantsOK'
    BY <1>3, Constants, GrantIs DEF CountsLocally, TypeInv
  <1> QED BY <1>1, <1>3, <1>4, <1>5, <1>6

------------------------------------------------------------------------------
(* What a step may do to the counts *)

\* nothing, as far as this client's windows are concerned
Leaves == UNCHANGED <<local, grants, count, ttl>>

\* Redis counts a request
CountsInRedis ==
    /\ count' = Cap(count + 1) /\ ttl' = Window
    /\ Grant("redis", count')
    /\ UNCHANGED local

\* a process forgets its window
Forgets(p) ==
    /\ local' = [local EXCEPT ![p] = NoWindow]
    /\ grants' = [grants EXCEPT ![p] = [a \in DOMAIN @ |-> 0]]
    /\ UNCHANGED redis

\* a second passes
Older ==
    /\ ttl' = Down(ttl) /\ count' = IF ttl <= 1 THEN 0 ELSE count
    /\ local' = [p \in Procs |-> IF local[p].left <= 0 THEN NoWindow
                                 ELSE [local[p] EXCEPT !.left = @ - 1]]
    /\ grants' = [st \in Stores |-> [a \in WindowAges |-> IF a = 0 THEN 0 ELSE grants[st][a - 1]]]

\* In strict mode no process counts for itself.
StrictOK ==
    strict => \A p \in Procs : /\ ~fallback[p]
                               /\ \A s \in Slots[p] : req[p][s] # "probe"

Moves == /\ strict' = strict
         /\ \/ Leaves
            \/ CountsInRedis
            \/ \E p \in Procs : ~strict /\ UNCHANGED redis /\ (CountsLocally(p) \/ Forgets(p))
            \/ Older

\* one more request of a process has moved to pc, or none
Settles == ReqOK' /\ fallback' \in [Procs -> BOOLEAN] /\ probe' \in [Procs -> 0..ProbeGap]

\* In strict mode requests never look for Redis from a window of their own.
StaysStrict ==
    strict => /\ fallback' = [p \in Procs |-> FALSE]
              /\ \A p \in Procs : \A s \in Slots[p] : req'[p][s] # "probe"

LEMMA GotoStrict ==
    ASSUME ReqOK, StrictOK, strict, NEW p \in Procs, NEW s \in Slots[p],
           NEW pc \in Pcs \ {"probe"}, Goto(p, s, pc)
    PROVE  \A q \in Procs : \A t \in Slots[q] : req'[q][t] # "probe"
  <1>1. req' = [req EXCEPT ![p] = [req[p] EXCEPT ![s] = pc]]
    BY DEF Goto
  <1>2. \A q \in Procs : req'[q] = IF q = p THEN [req[p] EXCEPT ![s] = pc] ELSE req[q]
    BY <1>1 DEF ReqOK
  <1>3. req[p] \in [Slots[p] -> Pcs]
    BY DEF ReqOK
  <1> QED BY <1>2, <1>3 DEF StrictOK

\* Every step of a request moves the counts in one of these ways.
LEMMA RequestMoves ==
    ASSUME TypeInv, StrictOK, NEW p \in Procs, NEW s \in Slots[p],
           CheckLimit(p, s) \/ Step(p, s)
    PROVE  Moves /\ Settles /\ StaysStrict
  <1>0. /\ ReqOK /\ strict \in BOOLEAN /\ up \in BOOLEAN
        /\ fallback \in [Procs -> BOOLEAN] /\ probe \in [Procs -> 0..ProbeGap]
        /\ strict => fallback = [q \in Procs |-> FALSE]
        /\ strict => ~fallback[p] /\ req[p][s] # "probe"
    BY DEF TypeInv, TypeOK, StrictOK
  <1> DEFINE To(pc) == Goto(p, s, pc)
  <1>1. ASSUME NEW pc \in Pcs \ {"probe"}, To(pc)
        PROVE  ReqOK' /\ (strict => \A q \in Procs : \A t \in Slots[q] : req'[q][t] # "probe")
    BY <1>0, <1>1, GotoType, GotoStrict
  <1>2. ASSUME NEW pc \in {"idle", "send", "reply", "failed"}, To(pc),
               UNCHANGED <<strict, local, fallback, probe, grants, redis>>
        PROVE  Moves /\ Settles /\ StaysStrict
    <2>1. pc \in Pcs \ {"probe"}
      BY <1>2 DEF Pcs
    <2> QED BY <1>0, <1>1, <1>2, <2>1 DEF Moves, Leaves, redis, Settles, StaysStrict
  <1>3. ASSUME NEW fb \in [Procs -> BOOLEAN], ~strict, LocalRateLimit(p, s, fb),
               UNCHANGED <<strict, probe, redis>>
        PROVE  Moves /\ Settles /\ StaysStrict
    <2>1. CountsLocally(p) /\ fallback' = fb /\ To("idle")
      BY <1>3, LocalIs DEF Answer
    <2>2. ReqOK'
      BY <1>1, <2>1 DEF Pcs
    <2>3. Moves
      BY <1>3, <2>1 DEF Moves
    <2> QED BY <1>0, <1>3, <2>1, <2>2, <2>3 DEF Settles, StaysStrict
  <1>4. CASE CheckLimit(p, s)
    <2>1. CASE ~fallback[p]
      BY <1>2, <1>4, <2>1 DEF CheckLimit, own
    <2>2. CASE fallback[p] /\ probe[p] = 0
      <3>1. /\ ~strict /\ To("probe") /\ probe' = [probe EXCEPT ![p] = ProbeGap]
            /\ UNCHANGED <<strict, local, fallback, grants, redis>>
        BY <1>0, <1>4, <2>2 DEF CheckLimit
      <3>2. ReqOK'
        BY <1>0, <3>1, GotoType DEF Pcs
      <3>3. probe' \in [Procs -> 0..ProbeGap]
        BY <1>0, <3>1, Constants
      <3> QED BY <1>0, <3>1, <3>2, <3>3 DEF Moves, Leaves, redis, Settles, StaysStrict
    <2>3. CASE fallback[p] /\ probe[p] # 0
      BY <1>0, <1>3, <1>4, <2>3 DEF CheckLimit
    <2> QED BY <2>1, <2>2, <2>3
  <1>5. CASE Probe(p, s)
    <2>0. ~strict
      BY <1>0, <1>5 DEF Probe
    <2>1. CASE up
      <3>1. /\ To("send") /\ fallback' = [fallback EXCEPT ![p] = FALSE]
            /\ UNCHANGED <<strict, local, probe, grants, redis>>
        BY <1>5, <2>1 DEF Probe
      <3>2. ReqOK'
        BY <1>1, <3>1 DEF Pcs
      <3>3. fallback' \in [Procs -> BOOLEAN]
        BY <1>0, <3>1
      <3> QED BY <1>0, <2>0, <3>1, <3>2, <3>3 DEF Moves, Leaves, redis, Settles, StaysStrict
    <2>2. CASE ~up /\ fallback[p]
      BY <1>0, <1>3, <1>5, <2>0, <2>2 DEF Probe
    <2>3. CASE ~up /\ ~fallback[p]
      BY <1>2, <1>5, <2>3 DEF Probe
    <2> QED BY <2>1, <2>2, <2>3
  <1>6. CASE Pipeline(p, s)
    <2>1. /\ CountsInRedis /\ To("reply")
          /\ UNCHANGED <<strict, fallback, probe>>
      BY <1>6 DEF Pipeline, CountsInRedis, own
    <2>2. ReqOK' /\ (strict => \A q \in Procs : \A t \in Slots[q] : req'[q][t] # "probe")
      BY <1>1, <2>1 DEF Pcs
    <2> QED BY <1>0, <2>1, <2>2 DEF Moves, Settles, StaysStrict
  <1>7. CASE Reply(p, s)
    BY <1>2, <1>7 DEF Reply, Answer, own
  <1>8. CASE Broken(p, s)
    BY <1>2, <1>8 DEF Broken, own
  <1>9. CASE Degrade(p, s)
    <2>1. CASE strict
      BY <1>2, <1>9, <2>1 DEF Degrade, Answer
    <2>2. CASE ~strict
      <3>1. [fallback EXCEPT ![p] = TRUE] \in [Procs -> BOOLEAN]
        BY <1>0
      <3> QED BY <1>3, <1>9, <2>2, <3>1 DEF Degrade
    <2> QED BY <2>1, <2>2
  <1> QED BY <1>4, <1>5, <1>6, <1>7, <1>8, <1>9 DEF Step

\* So does every step.
LEMMA NextMoves ==
    ASSUME TypeInv, StrictOK, [Next]_vars
    PROVE  Moves /\ Settles /\ StaysStrict
  <1>0. /\ ReqOK /\ strict \in BOOLEAN /\ up \in BOOLEAN
        /\ fallback \in [Procs -> BOOLEAN] /\ probe \in [Procs -> 0..ProbeGap]
        /\ strict => fallback = [q \in Procs |-> FALSE]
        /\ strict => \A q \in Procs : \A t \in Slots[q] : req[q][t] # "probe"
    BY DEF TypeInv, TypeOK, StrictOK
  <1>1. ASSUME UNCHANGED req PROVE ReqOK'
    BY <1>0, <1>1 DEF ReqOK
  <1>2. ASSUME UNCHANGED <<strict, redis, own, req, grants>>
        PROVE  Moves /\ Settles /\ StaysStrict
    BY <1>0, <1>1, <1>2 DEF redis, own, Moves, Leaves, Settles, StaysStrict
  <1>3. ASSUME NEW p \in Procs, ResetLimit(p) PROVE Moves /\ Settles /\ StaysStrict
    <2>1. ~strict /\ Forgets(p) /\ UNCHANGED <<strict, probe, req, redis>>
      BY <1>0, <1>3 DEF ResetLimit, Forgets
    <2>2. fallback' \in [Procs -> BOOLEAN]
      BY <1>0, <1>3 DEF ResetLimit
    <2> QED BY <1>0, <1>1, <2>1, <2>2 DEF Moves, Settles, StaysStrict
  <1>4. CASE Tick
    <2>1. Older /\ UNCHANGED <<strict, fallback, req>>
      BY <1>4 DEF Tick, Older, WindowAges
    <2>2. probe' \in [Procs -> 0..ProbeGap]
      BY <1>0, <1>4, Constants DEF Tick, Down
    <2> QED BY <1>0, <1>1, <2>1, <2>2 DEF Moves, Settles, StaysStrict
  <1>5. CASE UNCHANGED vars
    BY <1>2, <1>5 DEF vars
  <1>6. CASE Outage \/ Restore
    BY <1>2, <1>6 DEF Outage, Restore
  <1> QED BY <1>3, <1>4, <1>5, <1>6, RequestMoves DEF Next

LEMMA NextType ==
    ASSUME TypeInv, StrictOK, [Next]_vars
    PROVE  TypeInv' /\ StrictOK'
  <1>1. Moves /\ Settles /\ StaysStrict
    BY NextMoves
  <1>2. up' \in BOOLEAN
    BY DEF TypeInv, TypeOK, Next, vars, ResetLimit, CheckLimit, Step, Probe, Pipeline, Reply,
           Broken, Degrade, Outage, Restore, Tick
  <1>3. strict' \in BOOLEAN /\ StrictOK'
    <2>1. strict' = strict /\ strict \in BOOLEAN
      BY <1>1 DEF Moves, TypeInv, TypeOK
    <2> QED BY <1>1, <2>1 DEF StaysStrict, StrictOK
  <1>4. /\ count' \in 0..(MaxRequests + 1) /\ ttl' \in 0..Window
        /\ local' \in [Procs -> LocalWindow] /\ GrantsOK'
    <2>0. /\ count \in 0..(MaxRequests + 1) /\ ttl \in 0..Window
          /\ local \in [Procs -> LocalWindow] /\ GrantsOK
      BY DEF TypeInv, TypeOK, LocalWindow
    <2>1. CASE Leaves
      BY <2>0, <2>1 DEF Leaves, GrantsOK
    <2>2. CASE CountsInRedis
      <3>1. count' \in 0..(MaxRequests + 1) /\ count' \in Nat
        BY <2>0, <2>2, Constants, CapType DEF CountsInRedis
      <3>2. GrantsOK'
        BY <2>0, <2>2, <3>1, Constants, GrantIs DEF CountsInRedis
      <3> QED BY <2>0, <2>2, <3>1, <3>2, Constants DEF CountsInRedis
    <2>3. ASSUME NEW p \in Procs, UNCHANGED redis, CountsLocally(p)
          PROVE  /\ count' \in 0..(MaxRequests + 1) /\ ttl' \in 0..Window
                 /\ local' \in [Procs -> LocalWindow] /\ GrantsOK'
      BY <2>0, <2>3, LocalType DEF redis
    <2>4. ASSUME NEW p \in Procs, UNCHANGED redis, Forgets(p)
          PROVE  /\ count' \in 0..(MaxRequests + 1) /\ ttl' \in 0..Window
                 /\ local' \in [Procs -> LocalWindow] /\ GrantsOK'
      <3>1. grants' = [grants EXCEPT ![p] = [a \in DOMAIN grants[p] |-> 0]]
        BY <2>4 DEF Forgets
      <3>2. [a \in DOMAIN grants[p] |-> 0] \in [WindowAges -> Nat]
        BY <2>0, Constants DEF GrantsOK
      <3>3. GrantsOK'
        BY <2>0, <3>1, <3>2 DEF GrantsOK
      <3> QED BY <2>0, <2>4, <3>3, WindowTypes DEF Forgets, redis
    <2>5. CASE Older
      <3>1. count' \in 0..(MaxRequests + 1) /\ ttl' \in 0..Window
        BY <2>0, <2>5, Constants DEF Older, Down
      <3>2. ASSUME NEW p \in Procs
            PROVE  (IF local[p].left <= 0 THEN NoWindow
                    ELSE [local[p] EXCEPT !.left = @ - 1]) \in LocalWindow
        <4>1. CASE local[p].left <= 0
          BY <4>1, WindowTypes
        <4>2. CASE ~(local[p].left <= 0)
          <5>1. local[p].left - 1 \in -1..Window
            BY <2>0, <4>2, Constants DEF LocalWindow
          <5>2. [local[p] EXCEPT !.left = local[p].left - 1] \in LocalWindow
            BY <2>0, <5>1 DEF LocalWindow
          <5> QED BY <4>2, <5>2
        <4> QED BY <4>1, <4>2
      <3>3. local' \in [Procs -> LocalWindow]
        BY <2>5, <3>2 DEF Older
      <3>4. ASSUME NEW st \in Stores, NEW a \in WindowAges
            PROVE  (IF a = 0 THEN 0 ELSE grants[st][a - 1]) \in Nat
        <4>1. a # 0 => a - 1 \in WindowAges
          BY Constants DEF WindowAges
        <4> QED BY <2>0, <4>1 DEF GrantsOK
      <3>5. GrantsOK'
        BY <2>5, <3>4 DEF Older, GrantsOK
      <3> QED BY <3>1, <3>3, <3>5
    <2> QED BY <1>1, <2>1, <2>2, <2>3, <2>4, <2>5 DEF Moves
  <1> QED BY <1>1, <1>2, <1>3, <1>4 DEF Settles, TypeInv, TypeOK, ReqOK, Pcs, LocalWindow

LEMMA InitType == Init => TypeInv /\ StrictOK
  <1> SUFFICES ASSUME Init PROVE TypeInv /\ StrictOK
    OBVIOUS
  <1>1. TypeOK /\ GrantsOK
    BY Constants, WindowTypes DEF Init, TypeOK, GrantsOK, WindowAges, LocalWindow, Pcs
  <1>2. ReqOK
    BY DEF Init, ReqOK, Pcs
  <1> QED BY <1>1, <1>2 DEF Init, TypeInv, StrictOK

\* The variables of the rate limiter keep their types.
THEOREM TypeCorrect == Spec => []TypeOK
  <1>1. TypeInv /\ StrictOK /\ [Next]_vars => TypeInv' /\ StrictOK'
    BY NextType
  <1>2. TypeInv => TypeOK
    BY DEF TypeInv
  <1> QED BY <1>1, <1>2, InitType, PTL DEF Spec

------------------------------------------------------------------------------
(* How the sums move *)

LEMMA AgesSum ==
    ASSUME NEW g \in [WindowAges -> Nat], NEW S \in SUBSET WindowAges
    PROVE  /\ NatOn(g, S) /\ SumFunctionOnSet(g, S) \in Nat
           /\ \A P \in SUBSET S : SumFunctionOnSet(g, P) <= SumFunctionOnSet(g, S)
  <1>1. ASSUME NEW T \in SUBSET WindowAges PROVE NatOn(g, T) /\ SumFunctionOnSet(g, T) \in Nat
    <2>1. NatOn(g, T)
      BY Constants, FS_Subset DEF NatOn
    <2> QED BY <2>1, SumType
  <1>2. ASSUME NEW P \in SUBSET S PROVE SumFunctionOnSet(g, P) <= SumFunctionOnSet(g, S)
    <2>1. SumFunctionOnSet(g, S) = SumFunctionOnSet(g, P) + SumFunctionOnSet(g, S \ P)
      BY <1>1, SumParts
    <2>2. SumFunctionOnSet(g, P) \in Nat /\ SumFunctionOnSet(g, S \ P) \in Nat
      BY <1>1
    <2> QED BY <2>1, <2>2
  <1> QED BY <1>1, <1>2

\* one more request of the present age
LEMMA OneMore ==
    ASSUME NEW g \in [WindowAges -> Nat], NEW S \in SUBSET WindowAges
    PROVE  LET h == [g EXCEPT ![0] = @ + 1]
           IN  SumFunctionOnSet(h, S) = SumFunctionOnSet(g, S) + (IF 0 \in S THEN 1 ELSE 0)
  <1> DEFINE h == [g EXCEPT ![0] = @ + 1]
  <1>1. h[0] = g[0] + 1 /\ \A a \in S \ {0} : h[a] = g[a]
    BY Constants
  <1> HIDE DEF h
  <1>2. SumFunctionOnSet(h, S) = SumFunctionOnSet(g, S) + (IF 0 \in S THEN 1 ELSE 0)
    BY <1>1, AgesSum, SumBump
  <1> QED BY <1>2 DEF h

\* a second later, what was of ages P is of ages among S
LEMMA OneSecondOlder ==
    ASSUME NEW g \in [WindowAges -> Nat], NEW h,
           h = [a \in WindowAges |-> IF a = 0 THEN 0 ELSE g[a - 1]],
           NEW S \in SUBSET WindowAges, NEW P \in SUBSET WindowAges,
           \A a \in S : a # 0 => a - 1 \in P
    PROVE  SumFunctionOnSet(h, S) <= SumFunctionOnSet(g, P)
  <1> DEFINE T == S \ {0}
             Q == {a - 1 : a \in T}
             k == [a \in T |-> a - 1]
  <1>1. /\ \A a \in WindowAges : a \in Int
        /\ \A a \in T : a \in WindowAges /\ a # 0
        /\ \A a \in T : h[a] = g[a - 1]
    BY Constants DEF WindowAges
  <1>2. Q \in SUBSET P /\ Q \in SUBSET WindowAges /\ T \in SUBSET WindowAges
    BY <1>1
  <1>3. k \in [T -> Q] /\ \A a \in T : k[a] = a - 1
    OBVIOUS
  <1>4. (\A x, y \in T : k[x] = k[y] => x = y) /\ (\A b \in Q : \E a \in T : k[a] = b)
    BY <1>1, <1>3
  <1>5. h \in [WindowAges -> Nat]
    <2>1. \A a \in WindowAges : a # 0 => a - 1 \in WindowAges
      BY Constants DEF WindowAges
    <2> QED BY <2>1
  <1>6. \A a \in T : h[a] = g[k[a]]
    BY <1>1, <1>3
  <1> HIDE DEF T, Q, k
  <1>7. NatOn(g, Q) /\ NatOn(h, T) /\ IsFiniteSet(T)
    BY <1>2, <1>5, AgesSum DEF NatOn
  <1>8. SumFunctionOnSet(h, T) = SumFunctionOnSet(g, Q)
    BY <1>3, <1>4, <1>6, <1>7, SumRenamed
  <1>9. SumFunctionOnSet(g, Q) <= SumFunctionOnSet(g, P)
    BY <1>2, AgesSum
  <1>10. SumFunctionOnSet(h, S) = SumFunctionOnSet(h, T)
    <2>1. CASE 0 \in S
      <3>1. SumFunctionOnSet(h, S) = h[0] + SumFunctionOnSet(h, S \ {0})
        BY <1>5, <2>1, AgesSum, SumTakeOut
      <3>2. h[0] = 0 /\ SumFunctionOnSet(h, T) \in Nat
        BY <1>7, <2>1, SumType
      <3> QED BY <3>1, <3>2 DEF T
    <2>2. CASE 0 \notin S
      BY <2>2 DEF T
    <2> QED BY <2>1, <2>2
  <1> QED BY <1>8, <1>9, <1>10

------------------------------------------------------------------------------
(* The inductive invariant *)

Least(n) == IF n > MaxRequests THEN MaxRequests ELSE n

\* What Redis admitted in this window is in its counter, whose key lives until
\* the last of it is out of the window.
RedisCounts ==
    /\ Admitted("redis") <= Least(count)
    /\ \A a \in WindowAges : grants["redis"][a] > 0 => ttl >= Window - a

\* The ages of the requests that the entry of a process has counted.  It has
\* counted all it admitted of these ages, and the rest were admitted by no more
\* than one earlier entry.
Cut(p) == IF local[p].left < 0 THEN {} ELSE {a \in WindowAges : a <= Window - local[p].left}

Sum(p, S) == SumFunctionOnSet(grants[p], S)

LocalCounts(p) ==
    /\ Sum(p, Cut(p)) <= Least(local[p].count)
    /\ Sum(p, WindowAges \ Cut(p)) <= MaxRequests
    /\ local[p].left < 0 => local[p].count = 0 /\ grants[p][0] = 0

\* In strict mode a process has admitted nothing by itself.
StrictCounts == strict => \A p \in Procs : \A a \in WindowAges : grants[p][a] = 0

Inv == /\ TypeInv /\ StrictOK
       /\ RedisCounts /\ StrictCounts
       /\ \A p \in Procs : LocalCounts(p)

LEMMA TypeFacts ==
    ASSUME TypeInv
    PROVE  /\ count \in Nat /\ ttl \in Nat /\ ttl <= Window
           /\ local \in [Procs -> LocalWindow]
           /\ \A p \in Procs : /\ local[p].count \in Nat /\ local[p].count <= MaxRequests + 1
                               /\ local[p].left \in Int /\ local[p].left >= -1
                               /\ local[p].left <= Window
           /\ \A st \in Stores : grants[st] \in [WindowAges -> Nat]
           /\ WindowAges \subseteq Nat
  BY Constants DEF TypeInv, TypeOK, LocalWindow, GrantsOK, WindowAges

LEMMA LeastFacts ==
    /\ \A n \in Nat : Least(n) \in Nat /\ Least(n) <= MaxRequests /\ Least(n) <= n
    /\ \A n \in Nat : n <= MaxRequests => Least(n) = n
    /\ \A n \in Nat : n > MaxRequests => Least(n) = MaxRequests
  BY Constants DEF Least

\* An admitted request raises the sum of the ages that include the present one.
LEMMA GrantSums ==
    ASSUME TypeInv, NEW st \in Stores, NEW n \in Nat, Grant(st, n), NEW S \in SUBSET WindowAges
    PROVE  /\ Sum(st, S) \in Nat
           /\ SumFunctionOnSet(grants'[st], S) =
                  Sum(st, S) + (IF Allowed(n) /\ 0 \in S THEN 1 ELSE 0)
  <1>1. grants[st] \in [WindowAges -> Nat]
    BY TypeFacts
  <1>2. Sum(st, S) \in Nat
    BY <1>1, AgesSum DEF Sum
  <1>3. grants'[st] = IF Allowed(n) THEN [grants[st] EXCEPT ![0] = @ + 1] ELSE grants[st]
    BY GrantIs DEF TypeInv
  <1>4. CASE Allowed(n)
    BY <1>1, <1>2, <1>3, <1>4, OneMore DEF Sum
  <1>5. CASE ~Allowed(n)
    BY <1>2, <1>3, <1>5 DEF Sum
  <1> QED BY <1>2, <1>4, <1>5

\* A counter that goes up by one covers one more request, if it admits it.
LEMMA LeastGrows ==
    ASSUME NEW total \in Nat, NEW n \in Nat, total <= Least(n)
    PROVE  LET m == Cap(n + 1)
           IN  m \in Nat /\ total + (IF Allowed(m) THEN 1 ELSE 0) <= Least(m)
  <1> DEFINE m == Cap(n + 1)
  <1>1. /\ m \in Nat /\ (Allowed(m) <=> n + 1 <= MaxRequests)
        /\ n + 1 <= MaxRequests => m = n + 1
        /\ n + 1 > MaxRequests => m = MaxRequests + 1
    BY CapType, Constants
  <1> HIDE DEF m
  <1>2. CASE n + 1 <= MaxRequests
    <2>1. Least(n) = n /\ Least(m) = n + 1
      BY <1>1, <1>2, LeastFacts, Constants
    <2> QED BY <1>1, <1>2, <2>1 DEF m
  <1>3. CASE n + 1 > MaxRequests
    <2>1. m > MaxRequests
      BY <1>1, <1>3, Constants
    <2>2. Least(m) = MaxRequests /\ Least(n) <= MaxRequests /\ Least(n) \in Nat
      BY <1>1, <2>1, LeastFacts
    <2>3. total <= MaxRequests
      BY <2>2, Constants
    <2> QED BY <1>1, <1>3, <2>2, <2>3, Constants DEF m
  <1> QED BY <1>2, <1>3, Constants

LEMMA RedisCountsNext ==
    ASSUME Inv, Moves, TypeInv'
    PROVE  RedisCounts'
  <1>0. /\ count \in Nat /\ ttl \in Nat /\ ttl <= Window
        /\ grants["redis"] \in [WindowAges -> Nat] /\ WindowAges \subseteq Nat
    BY TypeFacts, Constants DEF Inv
  <1> DEFINE total == Sum("redis", WindowAges)
  <1>1. total \in Nat /\ total <= Least(count) /\ Admitted("redis") = total
    BY <1>0, AgesSum DEF Inv, RedisCounts, Admitted, Sum, WindowAges
  <1>2. Admitted("redis")' = SumFunctionOnSet(grants'["redis"], WindowAges)
    BY DEF Admitted, WindowAges
  <1>3. CASE UNCHANGED <<count, ttl>> /\ grants'["redis"] = grants["redis"]
    BY <1>3 DEF Inv, RedisCounts, Admitted, Least
  <1>4. CASE CountsInRedis
    <2>1. count' \in Nat /\ (Allowed(count') <=> count + 1 <= MaxRequests)
      BY <1>0, <1>4, CapType, Constants DEF CountsInRedis
    <2>2. Admitted("redis")' = total + (IF Allowed(count') THEN 1 ELSE 0)
      BY <1>2, <1>4, <2>1, Constants, GrantSums DEF CountsInRedis, Inv
    <2>3. total + (IF Allowed(count') THEN 1 ELSE 0) <= Least(count')
      BY <1>0, <1>1, <1>4, LeastGrows DEF CountsInRedis
    <2>4. \A a \in WindowAges : ttl' >= Window - a
      BY <1>0, <1>4, Constants DEF CountsInRedis
    <2> QED BY <2>2, <2>3, <2>4 DEF RedisCounts, Least
  <1>5. CASE Older
    <2>1. /\ grants'["redis"] = [a \in WindowAges |-> IF a = 0 THEN 0 ELSE grants["redis"][a - 1]]
          /\ ttl' = Down(ttl) /\ count' = IF ttl <= 1 THEN 0 ELSE count
      BY <1>5, Constants DEF Older
    <2>2. \A a \in WindowAges : a # 0 => a - 1 \in WindowAges
      BY Constants DEF WindowAges
    <2>3. ASSUME NEW a \in WindowAges, grants'["redis"][a] > 0
          PROVE  ttl > 1 /\ ttl' >= Window - a
      <3>1. a # 0 /\ grants["redis"][a - 1] > 0
        BY <2>1, <2>3
      <3>2. ttl >= Window - (a - 1) /\ a \in Nat /\ a <= Window - 1
        BY <2>2, <3>1, Constants DEF Inv, RedisCounts, WindowAges
      <3>3. ttl > 1
        BY <1>0, <3>2, Constants
      <3> QED BY <1>0, <2>1, <3>2, <3>3, Constants DEF Down
    <2>4. Admitted("redis")' <= Least(count')
      <3>1. CASE ttl > 1
        <4>1. Admitted("redis")' <= total
          BY <1>0, <1>2, <2>1, <2>2, OneSecondOlder DEF Sum
        <4>2. count' = count
          BY <1>0, <2>1, <3>1
        <4>3. Admitted("redis")' \in Nat
          <5>1. grants'["redis"] \in [WindowAges -> Nat]
            BY <1>0, <2>1, <2>2
          <5> QED BY <1>2, <5>1, AgesSum
        <4> QED BY <1>0, <1>1, <4>1, <4>2, <4>3, LeastFacts
      <3>2. CASE ~(ttl > 1)
        <4>1. grants'["redis"] \in [WindowAges -> Nat]
          BY <1>0, <2>1, <2>2
        <4>2. \A a \in WindowAges : grants'["redis"][a] = 0
          BY <2>3, <3>2, <4>1
        <4>3. Admitted("redis")' = 0
          BY <1>2, <4>2, SumZero, Constants
        <4>4. count' = 0
          BY <1>0, <2>1, <3>2
        <4> QED BY <4>3, <4>4, LeastFacts
      <3> QED BY <3>1, <3>2
    <2> QED BY <2>3, <2>4 DEF RedisCounts, Least
  <1>6. ASSUME NEW p \in Procs, UNCHANGED redis, CountsLocally(p) \/ Forgets(p)
        PROVE  UNCHANGED <<count, ttl>> /\ grants'["redis"] = grants["redis"]
    <2>1. "redis" \in Stores \ {p} /\ p \in Stores
      BY Constants
    <2>2. CASE CountsLocally(p)
      <3>0. Counted(p) \in 0..(MaxRequests + 1)
        BY <2>2, LocalType DEF Inv
      <3>1. Counted(p) \in Nat
        BY <3>0, Constants
      <3> QED BY <1>6, <2>1, <2>2, <3>1, GrantIs DEF CountsLocally, redis, Inv, TypeInv
    <2>3. CASE Forgets(p)
      BY <1>6, <2>1, <2>3 DEF Forgets, redis, Inv, TypeInv, GrantsOK
    <2> QED BY <1>6, <2>2, <2>3
  <1>7. CASE Leaves
    BY <1>3, <1>7 DEF Leaves
  <1> QED BY <1>3, <1>4, <1>5, <1>6, <1>7 DEF Moves

\* Nothing has happened to the window of a process.
LEMMA LocalSame ==
    ASSUME NEW p \in Procs, LocalCounts(p), local'[p] = local[p], grants'[p] = grants[p]
    PROVE  LocalCounts(p)'
  BY DEF LocalCounts, Cut, Sum, Least

\* A process counts a request: in the entry it has, or in a new one, when all
\* that it admitted earlier in the window was of one entry.
LEMMA LocalCountsMore ==
    ASSUME Inv, NEW p \in Procs, CountsLocally(p)
    PROVE  LocalCounts(p)'
  <1> DEFINE n    == Counted(p)
             e    == Entry(p)
             more == IF Allowed(n) THEN 1 ELSE 0
             h    == grants'[p]
             cut  == Cut(p)'
  <1>0. /\ local[p].count \in Nat /\ local[p].left \in Int
        /\ local[p].left <= Window
        /\ grants[p] \in [WindowAges -> Nat] /\ WindowAges \subseteq Nat
        /\ p \in Stores /\ TypeInv /\ LocalCounts(p)
    BY TypeFacts, Constants DEF Inv
  <1>1. n \in Nat /\ local'[p] = [e EXCEPT !.count = n] /\ Grant(p, n)
    <2>1. n \in 0..(MaxRequests + 1)
      BY <1>0, LocalType
    <2>2. n \in Nat
      BY <2>1, Constants
    <2> QED BY <1>0, <2>2 DEF CountsLocally, TypeInv, TypeOK
  <1>2. local'[p].count = n /\ local'[p].left = e.left /\ e.count \in Nat
    BY <1>0, <1>1, LocalType DEF LocalWindow
  <1>3. \A S \in SUBSET WindowAges :
           /\ Sum(p, S) \in Nat
           /\ SumFunctionOnSet(h, S) = Sum(p, S) + (IF 0 \in S THEN more ELSE 0)
    BY <1>0, <1>1, GrantSums
  <1>4. cut = IF e.left < 0 THEN {} ELSE {a \in WindowAges : a <= Window - e.left}
    BY <1>2 DEF Cut, WindowAges
  <1>5. SUFFICES /\ SumFunctionOnSet(h, cut) <= Least(n)
                 /\ SumFunctionOnSet(h, WindowAges \ cut) <= MaxRequests
                 /\ e.left >= 0
    <2>1. /\ Sum(p, Cut(p))' = SumFunctionOnSet(h, cut)
          /\ Sum(p, WindowAges \ Cut(p))' = SumFunctionOnSet(h, WindowAges \ cut)
          /\ Least(local[p].count)' = Least(n)
      BY <1>2 DEF Sum, WindowAges, Least
    <2>2. ~(local'[p].left < 0)
      <3>1. e.left \in -1..Window
        BY <1>0, LocalType DEF LocalWindow
      <3>2. e.left \in Int
        BY <3>1, Constants
      <3> HIDE DEF e
      <3> QED BY <1>2, <1>5, <3>2
    <2> QED BY <1>5, <2>1, <2>2 DEF LocalCounts
  <1> HIDE DEF h, cut, e, n
  <1>6. CASE local[p].left >= 0
    <2>0. e = local[p]
      BY <1>0, <1>6 DEF Entry, e
    <2>1. e = local[p] /\ cut = Cut(p)
      BY <1>4, <2>0 DEF Cut
    <2>2. 0 \in cut /\ cut \in SUBSET WindowAges
      BY <1>0, <1>6, <2>1, Constants DEF Cut
    <2>3. /\ SumFunctionOnSet(h, cut) = Sum(p, cut) + more
          /\ SumFunctionOnSet(h, WindowAges \ cut) = Sum(p, WindowAges \ cut)
          /\ Sum(p, cut) \in Nat
      <3>1. WindowAges \ cut \in SUBSET WindowAges /\ 0 \notin WindowAges \ cut
        BY <2>2
      <3>2. Sum(p, WindowAges \ cut) \in Nat
        BY <1>3, <3>1
      <3> HIDE DEF more
      <3> QED BY <1>3, <2>2, <3>1, <3>2
    <2>4. Sum(p, cut) + more <= Least(n)
      <3>1. Sum(p, cut) <= Least(local[p].count) /\ n = Cap(local[p].count + 1)
        BY <1>0, <2>1 DEF LocalCounts, Counted, n, e
      <3> QED BY <1>0, <2>3, <3>1, LeastGrows
    <2> QED BY <1>0, <1>6, <2>1, <2>3, <2>4 DEF LocalCounts
  <1>7. CASE local[p].left < 0
    <2>1. e = NewWindow /\ e.left = Window /\ e.count = 0
      BY <1>7, WindowTypes DEF Entry, e
    <2>2. cut = {0}
      <3>1. cut = {a \in WindowAges : a <= Window - Window}
        BY <1>4, <2>1, Constants
      <3>2. \A a \in WindowAges : a <= Window - Window <=> a = 0
        BY <1>0, Constants
      <3> QED BY <3>1, <3>2, Constants
    <2>3. /\ SumFunctionOnSet(h, {0}) = Sum(p, {0}) + more
          /\ SumFunctionOnSet(h, WindowAges \ {0}) = Sum(p, WindowAges \ {0})
      <3>1. {0} \in SUBSET WindowAges /\ WindowAges \ {0} \in SUBSET WindowAges
        BY Constants
      <3>2. Sum(p, WindowAges \ {0}) \in Nat
        BY <1>3, <3>1
      <3> HIDE DEF more
      <3> QED BY <1>3, <3>1, <3>2
    <2>4. Sum(p, {0}) = 0
      BY <1>0, <1>7, SumOne DEF Sum, LocalCounts
    <2>5. 0 + more <= Least(n)
      <3>1. n = Cap(0 + 1) /\ 0 <= Least(0)
        BY <2>1, LeastFacts DEF Counted, n, e
      <3> QED BY <3>1, LeastGrows
    <2>6. Sum(p, WindowAges \ {0}) <= MaxRequests
      <3>1. Sum(p, WindowAges \ Cut(p)) <= MaxRequests /\ Cut(p) = {}
        BY <1>0, <1>7 DEF LocalCounts, Cut
      <3>2. Sum(p, WindowAges) <= MaxRequests
        BY <3>1
      <3>3. /\ Sum(p, WindowAges \ {0}) <= Sum(p, WindowAges)
            /\ Sum(p, WindowAges) \in Nat /\ Sum(p, WindowAges \ {0}) \in Nat
        BY <1>0, AgesSum DEF Sum
      <3> QED BY <3>2, <3>3, Constants
    <2>7. SumFunctionOnSet(h, cut) <= Least(n)
      <3> HIDE DEF more
      <3> QED BY <2>2, <2>3, <2>4, <2>5
    <2>8. SumFunctionOnSet(h, WindowAges \ cut) <= MaxRequests
      <3> QED BY <2>2, <2>3, <2>6
    <2> QED BY <2>1, <2>7, <2>8, Constants
  <1> QED BY <1>0, <1>6, <1>7

LEMMA LocalForgets ==
    ASSUME Inv, NEW p \in Procs, Forgets(p)
    PROVE  LocalCounts(p)'
  <1>1. /\ p \in Stores /\ grants \in [Stores -> [WindowAges -> Nat]]
        /\ local \in [Procs -> LocalWindow]
    BY TypeFacts, Constants DEF Inv, TypeInv, GrantsOK
  <1>2. local'[p] = NoWindow /\ \A a \in WindowAges : grants'[p][a] = 0
    BY <1>1 DEF Forgets
  <1>3. Cut(p)' = {} /\ local'[p].count = 0 /\ 0 <= Least(0)
    BY <1>2, WindowTypes, LeastFacts DEF Cut
  <1>4. \A S \in SUBSET WindowAges : SumFunctionOnSet(grants'[p], S) = 0
    <2> TAKE S \in SUBSET WindowAges
    <2>1. IsFiniteSet(S)
      BY Constants, FS_Subset
    <2> QED BY <1>2, <2>1, SumZero
  <1>5. Sum(p, Cut(p))' = 0
    BY <1>3, <1>4 DEF Sum
  <1>6. Sum(p, WindowAges \ Cut(p))' = 0
    BY <1>3, <1>4 DEF Sum, WindowAges
  <1>7. Least(local[p].count)' = Least(0)
    BY <1>3 DEF Least
  <1> QED BY <1>2, <1>3, <1>5, <1>6, <1>7, Constants DEF LocalCounts

\* A second passes.  When the entry ends, all that the process admitted in the
\* window was counted by that entry.
LEMMA LocalOlder ==
    ASSUME Inv, NEW p \in Procs, Older
    PROVE  LocalCounts(p)'
  <1> DEFINE h    == grants'[p]
             left == local[p].left
             cut  == Cut(p)'
  <1>0. /\ local[p].count \in Nat /\ left \in Int /\ left >= -1 /\ left <= Window
        /\ grants[p] \in [WindowAges -> Nat] /\ WindowAges \subseteq Nat
        /\ p \in Stores /\ LocalCounts(p) /\ local[p] \in LocalWindow
    BY TypeFacts, Constants DEF Inv
  <1>1. h = [a \in WindowAges |-> IF a = 0 THEN 0 ELSE grants[p][a - 1]]
    BY <1>0 DEF Older
  <1>2. local'[p] = IF left <= 0 THEN NoWindow ELSE [local[p] EXCEPT !.left = left - 1]
    BY DEF Older
  <1>3. h[0] = 0 /\ \A a \in WindowAges : a # 0 => a - 1 \in WindowAges
    BY <1>1, Constants DEF WindowAges
  <1>4. Cut(p) \in SUBSET WindowAges
    BY DEF Cut
  <1>5. /\ SumFunctionOnSet(grants[p], Cut(p)) <= Least(local[p].count)
        /\ SumFunctionOnSet(grants[p], WindowAges \ Cut(p)) <= MaxRequests
    BY <1>0 DEF LocalCounts, Sum
  <1>6. h \in [WindowAges -> Nat]
    BY <1>0, <1>1, <1>3
  <1>7. \A S \in SUBSET WindowAges : /\ SumFunctionOnSet(h, S) \in Nat
                                     /\ SumFunctionOnSet(grants[p], S) \in Nat
    BY <1>0, <1>6, AgesSum
  <1> HIDE DEF h
  <1>8. CASE left <= 0
    <2>1. cut = {} /\ local'[p].count = 0 /\ local'[p].left < 0
      BY <1>2, <1>8, WindowTypes DEF Cut
    <2>2. SumFunctionOnSet(h, WindowAges) <= MaxRequests
      <3>1. CASE left = 0
        <4>1. Cut(p) = WindowAges
          BY <1>0, <3>1, Constants DEF Cut, WindowAges
        <4>2. SumFunctionOnSet(h, WindowAges) <= SumFunctionOnSet(grants[p], WindowAges)
          BY <1>0, <1>1, <1>3, OneSecondOlder
        <4>3. Least(local[p].count) <= MaxRequests /\ Least(local[p].count) \in Nat
          BY <1>0, LeastFacts
        <4>4. SumFunctionOnSet(grants[p], WindowAges) <= Least(local[p].count)
          BY <1>5, <4>1
        <4> QED BY <1>7, <4>2, <4>3, <4>4, Constants
      <3>2. CASE left = -1
        <4>1. WindowAges \ Cut(p) = WindowAges
          BY <3>2 DEF Cut
        <4>2. SumFunctionOnSet(h, WindowAges) <= SumFunctionOnSet(grants[p], WindowAges)
          BY <1>0, <1>1, <1>3, OneSecondOlder
        <4>3. SumFunctionOnSet(grants[p], WindowAges) <= MaxRequests
          BY <1>5, <4>1
        <4> QED BY <1>7, <4>2, <4>3, Constants
      <3> QED BY <1>0, <1>8, <3>1, <3>2
    <2>3. Sum(p, Cut(p))' = 0
      BY <2>1, SumEmpty DEF Sum
    <2>4. Sum(p, WindowAges \ Cut(p))' <= MaxRequests
      <3>1. Sum(p, WindowAges \ Cut(p))' = SumFunctionOnSet(h, WindowAges \ cut)
        BY DEF Sum, WindowAges, h
      <3>2. WindowAges \ cut = WindowAges
        BY <2>1
      <3> QED BY <2>2, <3>1, <3>2
    <2>5. Least(local[p].count)' = 0
      BY <2>1, Constants DEF Least
    <2> QED BY <1>3, <2>1, <2>3, <2>4, <2>5 DEF LocalCounts, h
  <1>9. CASE left > 0
    <2>1. local'[p].left = left - 1 /\ local'[p].count = local[p].count /\ left - 1 >= 0
      BY <1>0, <1>2, <1>9 DEF LocalWindow
    <2>2. cut = {a \in WindowAges : a <= Window - (left - 1)}
      BY <1>0, <2>1 DEF Cut, WindowAges
    <2>3. Cut(p) = {a \in WindowAges : a <= Window - left}
      BY <1>0, <1>9 DEF Cut
    <2>4. /\ cut \in SUBSET WindowAges
          /\ \A a \in cut : a # 0 => a - 1 \in Cut(p)
          /\ \A a \in WindowAges \ cut : a # 0 => a - 1 \in WindowAges \ Cut(p)
      <3> HIDE DEF left, cut
      <3>1. ASSUME NEW a \in WindowAges, a # 0
            PROVE  /\ a - 1 \in WindowAges
                   /\ a <= Window - (left - 1) <=> a - 1 <= Window - left
        BY <1>0, <1>3, <3>1, Constants
      <3> QED BY <2>2, <2>3, <3>1
    <2> HIDE DEF cut
    <2>5. SumFunctionOnSet(h, cut) <= SumFunctionOnSet(grants[p], Cut(p))
      BY <1>0, <1>1, <1>4, <2>4, OneSecondOlder
    <2>6. SumFunctionOnSet(h, WindowAges \ cut) <= SumFunctionOnSet(grants[p], WindowAges \ Cut(p))
      <3>1. WindowAges \ cut \in SUBSET WindowAges /\ WindowAges \ Cut(p) \in SUBSET WindowAges
        OBVIOUS
      <3> QED BY <1>0, <1>1, <2>4, <3>1, OneSecondOlder
    <2>7. SumFunctionOnSet(h, cut) <= Least(local[p].count)
      BY <1>0, <1>4, <1>5, <1>7, <2>4, <2>5, LeastFacts
    <2>8. SumFunctionOnSet(h, WindowAges \ cut) <= MaxRequests
      <3>1. WindowAges \ cut \in SUBSET WindowAges /\ WindowAges \ Cut(p) \in SUBSET WindowAges
        OBVIOUS
      <3> QED BY <1>5, <1>7, <2>6, <3>1, Constants
    <2>9. /\ Sum(p, Cut(p))' = SumFunctionOnSet(h, cut)
          /\ Sum(p, WindowAges \ Cut(p))' = SumFunctionOnSet(h, WindowAges \ cut)
          /\ Least(local[p].count)' = Least(local[p].count)
      BY <2>1 DEF Sum, WindowAges, h, cut, Least
    <2> QED BY <2>1, <2>7, <2>8, <2>9, <1>0 DEF LocalCounts
  <1> QED BY <1>0, <1>8, <1>9

LEMMA LocalCountsNext ==
    ASSUME Inv, Moves, NEW p \in Procs
    PROVE  LocalCounts(p)'
  <1>1. ASSUME local'[p] = local[p], grants'[p] = grants[p] PROVE LocalCounts(p)'
    BY <1>1, LocalSame DEF Inv
  <1>2. CASE Leaves
    BY <1>1, <1>2 DEF Leaves
  <1>3. CASE CountsInRedis
    <2>1. count' \in Nat
      BY <1>3, TypeFacts, CapType, Constants DEF CountsInRedis, Inv
    <2>2. grants'[p] = grants[p]
      BY <1>3, <2>1, Constants, GrantIs DEF CountsInRedis, Inv, TypeInv
    <2> QED BY <1>1, <1>3, <2>2 DEF CountsInRedis
  <1>4. ASSUME NEW q \in Procs, q # p, CountsLocally(q) \/ Forgets(q)
        PROVE  LocalCounts(p)'
    <2>0. /\ local \in [Procs -> LocalWindow] /\ GrantsOK /\ p \in Stores \ {q} /\ q \in Stores
      BY <1>4, TypeFacts, Constants DEF Inv, TypeInv
    <2>1. CASE CountsLocally(q)
      <3>1. Counted(q) \in 0..(MaxRequests + 1)
        BY <2>1, LocalType DEF Inv
      <3>2. Counted(q) \in Nat
        BY <3>1, Constants
      <3>3. grants'[p] = grants[p]
        BY <2>0, <2>1, <3>2, GrantIs DEF CountsLocally
      <3>4. local'[p] = local[p]
        BY <1>4, <2>0, <2>1 DEF CountsLocally
      <3> QED BY <1>1, <3>3, <3>4
    <2>2. CASE Forgets(q)
      <3>1. grants'[p] = grants[p] /\ local'[p] = local[p]
        BY <1>4, <2>0, <2>2 DEF Forgets, GrantsOK
      <3> QED BY <1>1, <3>1
    <2> QED BY <1>4, <2>1, <2>2
  <1>5. CASE CountsLocally(p)
    BY <1>5, LocalCountsMore
  <1>6. CASE Forgets(p)
    BY <1>6, LocalForgets
  <1>7. CASE Older
    BY <1>7, LocalOlder
  <1> QED BY <1>2, <1>3, <1>4, <1>5, <1>6, <1>7 DEF Moves

LEMMA StrictCountsNext ==
    ASSUME Inv, Moves
    PROVE  StrictCounts'
  <1> SUFFICES ASSUME strict', NEW p \in Procs, NEW a \in WindowAges
               PROVE  grants'[p][a] = 0
    BY DEF StrictCounts, WindowAges
  <1>0. /\ strict /\ p \in Stores /\ "redis" \in Stores /\ "redis" # p /\ GrantsOK
        /\ \A b \in WindowAges : grants[p][b] = 0
    BY Constants DEF Moves, Inv, StrictCounts, TypeInv
  <1>1. CASE Leaves
    BY <1>0, <1>1 DEF Leaves
  <1>2. CASE CountsInRedis
    <2>1. count' \in Nat
      BY <1>2, TypeFacts, CapType, Constants DEF CountsInRedis, Inv
    <2> QED BY <1>0, <1>2, <2>1, GrantIs DEF CountsInRedis
  <1>3. CASE Older
    <2>1. a # 0 => a - 1 \in WindowAges
      BY Constants DEF WindowAges
    <2> QED BY <1>0, <1>3, <2>1 DEF Older
  <1> QED BY <1>0, <1>1, <1>2, <1>3 DEF Moves

LEMMA InitInv == Init => Inv
  <1> SUFFICES ASSUME Init PROVE Inv
    OBVIOUS
  <1>0. TypeInv /\ StrictOK
    BY InitType
  <1>1. \A st \in Stores : \A a \in WindowAges : grants[st][a] = 0
    BY DEF Init, WindowAges
  <1>2. \A st \in Stores : \A S \in SUBSET WindowAges : Sum(st, S) = 0
    <2> TAKE st \in Stores
    <2> TAKE S \in SUBSET WindowAges
    <2>1. IsFiniteSet(S)
      BY Constants, FS_Subset
    <2> QED BY <1>1, <2>1, SumZero DEF Sum
  <1>3. Least(0) = 0
    BY Constants DEF Least
  <1>4. RedisCounts
    <2>1. Admitted("redis") = 0
      BY <1>2, Constants DEF Admitted, Sum, WindowAges
    <2> QED BY <1>1, <1>3, <2>1, Constants DEF RedisCounts, Init
  <1>5. StrictCounts
    BY <1>1, Constants DEF StrictCounts
  <1>6. ASSUME NEW p \in Procs PROVE LocalCounts(p)
    <2>1. local[p] = NoWindow /\ p \in Stores
      BY <1>6, Constants DEF Init
    <2>2. Cut(p) = {} /\ local[p].count = 0
      BY <2>1, WindowTypes DEF Cut
    <2>3. Sum(p, Cut(p)) = 0 /\ Sum(p, WindowAges \ Cut(p)) = 0
      BY <1>2, <2>1, <2>2
    <2> QED BY <1>1, <1>3, <2>1, <2>2, <2>3, Constants DEF LocalCounts
  <1> QED BY <1>0, <1>4, <1>5, <1>6 DEF Inv

LEMMA NextInv ==
    ASSUME Inv, [Next]_vars
    PROVE  Inv'
  <1>1. TypeInv' /\ StrictOK' /\ Moves
    BY NextType, NextMoves DEF Inv
  <1>2. RedisCounts' /\ StrictCounts' /\ \A p \in Procs : LocalCounts(p)'
    BY <1>1, RedisCountsNext, StrictCountsNext, LocalCountsNext
  <1> QED BY <1>1, <1>2 DEF Inv

\* In any window Redis admits at most MaxRequests requests of a client for the
\* whole fleet, and a process that counts for itself, which it never does in
\* strict mode, at most twice as many between two resets: those of the entry
\* it has and those of the one before.
THEOREM FleetBound == Spec => []FleetBounded
  <1>1. Inv /\ [Next]_vars => Inv'
    BY NextInv
  <1>2. Inv => FleetBounded
    <2> SUFFICES ASSUME Inv PROVE FleetBounded
      OBVIOUS
    <2>1. Admitted("redis") <= MaxRequests
      <3>1. Admitted("redis") <= Least(count) /\ Least(count) \in Nat /\ Least(count) <= MaxRequests
        BY TypeFacts, LeastFacts DEF Inv, RedisCounts
      <3>2. Admitted("redis") \in Nat
        <4>1. grants["redis"] \in [WindowAges -> Nat]
          BY TypeFacts, Constants DEF Inv
        <4> QED BY <4>1, AgesSum DEF Admitted, WindowAges
      <3> QED BY <3>1, <3>2, Constants
    <2>2. ASSUME NEW p \in Procs
          PROVE  Admitted(p) <= IF strict THEN 0 ELSE 2 * MaxRequests
      <3>0. /\ grants[p] \in [WindowAges -> Nat] /\ p \in Stores
            /\ Cut(p) \in SUBSET WindowAges /\ Admitted(p) = Sum(p, WindowAges)
        BY TypeFacts, Constants DEF Inv, Cut, Admitted, Sum, WindowAges
      <3>1. CASE strict
        <4>1. Sum(p, WindowAges) = 0
          BY <3>1, Constants, SumZero DEF Inv, StrictCounts, Sum
        <4> QED BY <3>0, <3>1, <4>1
      <3>2. CASE ~strict
        <4>1. Sum(p, WindowAges) = Sum(p, Cut(p)) + Sum(p, WindowAges \ Cut(p))
          BY <3>0, AgesSum, SumParts DEF Sum
        <4>2. Sum(p, Cut(p)) \in Nat /\ Sum(p, WindowAges \ Cut(p)) \in Nat
          BY <3>0, AgesSum DEF Sum
        <4>3. /\ Sum(p, Cut(p)) <= Least(local[p].count)
              /\ Sum(p, WindowAges \ Cut(p)) <= MaxRequests
              /\ Least(local[p].count) <= MaxRequests /\ Least(local[p].count) \in Nat
          BY TypeFacts, LeastFacts DEF Inv, LocalCounts
        <4> QED BY <3>0, <3>2, <4>1, <4>2, <4>3, Constants
      <3> QED BY <3>1, <3>2
    <2> QED BY <2>1, <2>2 DEF FleetBounded
  <1> QED BY <1>1, <1>2, InitInv, PTL DEF Spec

==============================================================================
