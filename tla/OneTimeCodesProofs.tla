-------------------------- MODULE OneTimeCodesProofs --------------------------
(***************************************************************************)
(* Theorems about the one-time codes, for any number of codes, requests    *)
(* and failures.  The invariants of OneTimeCodes are not inductive one by  *)
(* one: they rest on what a request at an await knows about the code it    *)
(* holds, and on where a code can still be found.                          *)
(***************************************************************************)
EXTENDS OneTimeCodes, FiniteSetTheorems, TLAPS

Request == [pc: {"idle", "del", "form", "read"}, c: 0..MaxCodes,
            tag: Tags \cup {0}, st: 0..MaxCodes, x: 0..MaxCodes]

Code == [fam: Families, tag: Tags \cup {0}, of: 0..MaxCodes, end: Nat]

\* requests on their way to a form token have a code reserved for it
Redeeming == {s \in Slots : req[s].c \in Of("link")}

Reserved == Len(issued) + Cardinality(Redeeming) <= MaxCodes

\* a form token has the kind of the link it was redeemed for
Origins == \A c \in Of("form") :
               issued[c].of \in DOMAIN issued /\ issued[issued[c].of].tag = issued[c].tag

\* what a request at an await knows
Knows(s) ==
    /\ req[s].c <= Len(issued)
    /\ req[s].pc = "del" => req[s].c \in DOMAIN issued /\ req[s].c \in spent
    /\ req[s].pc = "del" /\ req[s].c \in Of("state") => req[s].x \in Of("exchange")
    /\ req[s].pc = "form" => req[s].c \in Of("link")
    /\ req[s].pc = "read" => req[s].c \in Of("exchange")
    /\ req[s].pc \in {"del", "read"} /\ req[s].c \in Of("exchange") =>
           req[s].st \in DOMAIN issued /\ issued[req[s].st].tag = req[s].tag

Requests == \A s \in Slots : Knows(s)

\* a code lives in one store at most, until its end
Stored ==
    \A c \in Codes :
        /\ redis[c] = 0 \/ mem[c] = 0
        /\ c \in DOMAIN issued => {redis[c], mem[c]} \subseteq {0, issued[c].end}
        /\ c \notin DOMAIN issued => redis[c] = 0 /\ mem[c] = 0 /\ uses[c] = 0

\* request s has read c, and c is not honoured yet
Holds(s, c) == req[s].c = c /\ req[s].pc \in {"del", "form"}

\* c has one use left at most: in a store, in the hands of one request, or none
OneUse(c) ==
    /\ uses[c] <= 1
    /\ \A s, t \in Slots : Holds(s, c) /\ Holds(t, c) => s = t
    /\ \A s \in Slots : Holds(s, c) => uses[c] = 0 /\ mem[c] = 0
    /\ \A s \in Slots : req[s].c = c /\ req[s].pc = "form" => redis[c] = 0
    /\ redis[c] # 0 \/ mem[c] # 0 => uses[c] = 0

UsesLeft == uses \in [Codes -> Nat] /\ \A c \in Codes : c \notin excused => OneUse(c)

\* r was handed over to a client who was entitled to it
Entitled(r) ==
    /\ r[1] \in DOMAIN issued
    /\ issued[r[1]].fam = "form" => issued[issued[r[1]].of].tag = r[3]
    /\ issued[r[1]].fam = "exchange" =>
           issued[r[1]].of = r[2] /\ r[2] \in DOMAIN issued /\ issued[r[2]].tag = r[3]

Released == \A r \in released : Entitled(r)

Inv == /\ TypeOK /\ Reserved /\ Origins /\ Requests /\ Stored
       /\ UsesLeft /\ Released /\ HeldOnce

------------------------------------------------------------------------------
(* Constants and types *)

LEMMA Constants ==
    /\ IsFiniteSet(Slots)
    /\ \A f \in Families : Ttl[f] \in Nat /\ Ttl[f] > 0
    /\ MaxCodes \in Nat /\ MaxNow \in Nat /\ MaxNow > 0 /\ MaxTrouble \in Nat
  BY CodesAssumption

LEMMA Types ==
    TypeOK <=> /\ issued \in Seq(Code) /\ Len(issued) <= MaxCodes
               /\ redis \in [Codes -> Nat] /\ mem \in [Codes -> Nat] /\ ready \in BOOLEAN
               /\ req \in [Slots -> Request]
               /\ now \in 1..MaxNow /\ trouble \in 0..MaxTrouble
  BY DEF TypeOK, Code, Request

\* the codes that exist are numbered in order
LEMMA Issued ==
    ASSUME TypeOK
    PROVE  /\ Len(issued) \in Nat
           /\ DOMAIN issued = 1..Len(issued)
           /\ DOMAIN issued \subseteq Codes
           /\ \A c \in DOMAIN issued : issued[c] \in Code
           /\ \A f : Of(f) \subseteq DOMAIN issued
  <1>1. issued \in Seq(Code) /\ Len(issued) <= MaxCodes
    BY Types
  <1> QED BY <1>1, Constants DEF Codes, Of

\* a code is added to those that exist, which keep their contents
LEMMA OneMore ==
    ASSUME TypeOK, NEW e \in Code, issued' = Append(issued, e)
    PROVE  /\ issued' \in Seq(Code)
           /\ Len(issued') = Len(issued) + 1
           /\ DOMAIN issued' = DOMAIN issued \cup {Len(issued) + 1}
           /\ Len(issued) + 1 \notin DOMAIN issued
           /\ issued'[Len(issued) + 1] = e
           /\ \A c \in DOMAIN issued : issued'[c] = issued[c]
           /\ \A f : Of(f)' = Of(f) \cup {c \in {Len(issued) + 1} : e.fam = f}
  <1>1. issued \in Seq(Code)
    BY Types
  <1>2. /\ issued' \in Seq(Code)
        /\ Len(issued') = Len(issued) + 1
        /\ DOMAIN issued' = DOMAIN issued \cup {Len(issued) + 1}
        /\ Len(issued) + 1 \notin DOMAIN issued
        /\ issued'[Len(issued) + 1] = e
        /\ \A c \in DOMAIN issued : issued'[c] = issued[c]
    BY <1>1
  <1>3. ASSUME NEW f PROVE Of(f)' = Of(f) \cup {c \in {Len(issued) + 1} : e.fam = f}
    BY <1>2 DEF Of
  <1> QED BY <1>2, <1>3

LEMMA RedeemingFinite == IsFiniteSet(Redeeming) /\ Cardinality(Redeeming) \in Nat
  <1>1. IsFiniteSet(Redeeming)
    BY Constants, FS_Subset DEF Redeeming
  <1> QED BY <1>1, FS_CardinalityType

\* how the number of redeeming requests changes when only request s does
LEMMA RedeemingCount ==
    ASSUME NEW s \in Slots
    PROVE  /\ \A R : R \subseteq Redeeming \cup {s} =>
                  IsFiniteSet(R) /\ Cardinality(R) \in Nat
                  /\ Cardinality(R) <= Cardinality(Redeeming) + 1
           /\ \A R : R \subseteq Redeeming =>
                  IsFiniteSet(R) /\ Cardinality(R) \in Nat
                  /\ Cardinality(R) <= Cardinality(Redeeming)
           /\ \A R : R \subseteq Redeeming \ {s} /\ s \in Redeeming =>
                  IsFiniteSet(R) /\ Cardinality(R) \in Nat
                  /\ Cardinality(R) + 1 <= Cardinality(Redeeming)
  <1>1. IsFiniteSet(Redeeming)
    BY RedeemingFinite
  <1>2. Cardinality(Redeeming) \in Nat
    BY RedeemingFinite
  <1>3. ASSUME NEW R, R \subseteq Redeeming
        PROVE  IsFiniteSet(R) /\ Cardinality(R) \in Nat /\ Cardinality(R) <= Cardinality(Redeeming)
    BY <1>1, <1>3, FS_Subset, FS_CardinalityType
  <1>4. ASSUME NEW R, R \subseteq Redeeming \cup {s}
        PROVE  IsFiniteSet(R) /\ Cardinality(R) \in Nat /\ Cardinality(R) <= Cardinality(Redeeming) + 1
    <2>0. /\ IsFiniteSet(Redeeming \cup {s})
          /\ Cardinality(Redeeming \cup {s}) =
                 IF s \in Redeeming THEN Cardinality(Redeeming) ELSE Cardinality(Redeeming) + 1
      BY <1>1, FS_AddElement
    <2>1. /\ IsFiniteSet(Redeeming \cup {s})
          /\ Cardinality(Redeeming \cup {s}) <= Cardinality(Redeeming) + 1
      BY <1>2, <2>0
    <2>2. Cardinality(Redeeming \cup {s}) \in Nat
      BY <2>1, FS_CardinalityType
    <2>3. IsFiniteSet(R) /\ Cardinality(R) <= Cardinality(Redeeming \cup {s})
      BY <1>4, <2>1, FS_Subset
    <2>4. Cardinality(R) \in Nat
      BY <2>3, FS_CardinalityType
    <2> QED BY <1>2, <2>1, <2>2, <2>3, <2>4
  <1>5. ASSUME NEW R, R \subseteq Redeeming \ {s}, s \in Redeeming
        PROVE  IsFiniteSet(R) /\ Cardinality(R) \in Nat /\ Cardinality(R) + 1 <= Cardinality(Redeeming)
    <2>1. /\ IsFiniteSet(Redeeming \ {s})
          /\ Cardinality(Redeeming \ {s}) = Cardinality(Redeeming) - 1
      BY <1>1, <1>5, FS_RemoveElement
    <2>2. IsFiniteSet(R) /\ Cardinality(R) <= Cardinality(Redeeming \ {s})
      BY <1>5, <2>1, FS_Subset
    <2>3. Cardinality(R) \in Nat
      BY <2>2, FS_CardinalityType
    <2> QED BY <1>2, <2>1, <2>2, <2>3
  <1> QED BY <1>3, <1>4, <1>5

------------------------------------------------------------------------------
(* A code is created *)

\* what becomes of the stores when code n is put into one of them: every other
\* code stays where it is, or is removed from the Map because it was read or
\* because it has ended
Kept(n, end) ==
    /\ redis' \in [Codes -> Nat] /\ mem' \in [Codes -> Nat]
    /\ \A c \in Codes \ {n} : /\ redis'[c] = redis[c] /\ mem'[c] \in {0, mem[c]}
                              /\ mem'[c] # mem[c] => mem[c] <= now \/ c \in spent'
    /\ {redis'[n], mem'[n]} \subseteq {0, end}
    /\ redis'[n] = 0 \/ mem'[n] = 0
    /\ lost \subseteq lost'
    /\ n \in lost' \/ redis'[n] # 0 \/ mem'[n] # 0

LEMMA PrunedStores ==
    ASSUME TypeOK, NEW f
    PROVE  /\ Pruned(f) \in [Codes -> Nat]
           /\ \A c \in Codes : /\ Pruned(f)[c] \in {0, mem[c]}
                               /\ Pruned(f)[c] # mem[c] => mem[c] <= now
  BY Types DEF Pruned

LEMMA KeepKeeps ==
    ASSUME TypeOK, Stored, NEW f \in Families, NEW n \in Codes, n \notin DOMAIN issued, Keep(n, f)
    PROVE  Kept(n, now + Ttl[f]) /\ trouble' \in 0..MaxTrouble
  <1>1. redis \in [Codes -> Nat] /\ mem \in [Codes -> Nat] /\ now \in Nat /\ now > 0
        /\ trouble \in 0..MaxTrouble
    BY Types
  <1>2. now + Ttl[f] \in Nat /\ now + Ttl[f] > 0
    BY <1>1, Constants
  <1>3. redis[n] = 0 /\ mem[n] = 0
    BY DEF Stored
  <1>4. trouble' \in 0..MaxTrouble
    BY <1>1, Constants DEF Keep, Works, Fails, Trouble
  <1>5. CASE ready
    <2>1. UNCHANGED mem /\ redis' \in {redis, [redis EXCEPT ![n] = now + Ttl[f]]}
      BY <1>5 DEF Keep
    <2>2. \/ lost' = lost /\ redis' = [redis EXCEPT ![n] = now + Ttl[f]]
          \/ lost' = lost \cup {n}
      BY <1>5 DEF Keep
    <2> QED BY <1>1, <1>2, <1>3, <1>4, <2>1, <2>2 DEF Kept
  <1>6. CASE ~ready
    <2>1. mem' = [Pruned(f) EXCEPT ![n] = now + Ttl[f]] /\ redis' = redis /\ lost' = lost
      BY <1>6 DEF Keep
    <2> QED BY <1>1, <1>2, <1>3, <1>4, <2>1, PrunedStores DEF Kept
  <1> QED BY <1>5, <1>6

\* where the codes are, after code n was created
LEMMA StoredAfter ==
    ASSUME TypeOK, Stored, HeldOnce, NEW e \in Code, e.end > now,
           issued' = Append(issued, e), Kept(Len(issued) + 1, e.end),
           Len(issued) + 1 \in Codes, now' = now, spent \subseteq spent',
           uses' \in [Codes -> Nat], \A c \in Codes \ DOMAIN issued : uses'[c] = 0
    PROVE  Stored' /\ HeldOnce'
  <1> DEFINE n == Len(issued) + 1
  <1>1. /\ DOMAIN issued' = DOMAIN issued \cup {n}
        /\ n \notin DOMAIN issued
        /\ issued'[n] = e
        /\ \A c \in DOMAIN issued : issued'[c] = issued[c]
    BY OneMore
  <1>2. now \in Nat /\ e.end \in Nat /\ DOMAIN issued \subseteq Codes
        /\ redis \in [Codes -> Nat] /\ mem \in [Codes -> Nat]
        /\ \A c \in DOMAIN issued : issued[c].end \in Nat
    BY Types, Issued DEF Code
  <1> HIDE DEF n
  <1>3. Kept(n, e.end)
    BY DEF n
  <1>4. Stored'
    <2> SUFFICES ASSUME NEW c \in Codes
                 PROVE  /\ redis'[c] = 0 \/ mem'[c] = 0
                        /\ c \in DOMAIN issued' => {redis'[c], mem'[c]} \subseteq {0, issued'[c].end}
                        /\ c \notin DOMAIN issued' => redis'[c] = 0 /\ mem'[c] = 0 /\ uses'[c] = 0
      BY DEF Stored
    <2>1. CASE c = n
      BY <1>1, <1>3, <2>1 DEF Kept
    <2>2. CASE c # n
      BY <1>1, <1>2, <1>3, <2>2 DEF Kept, Stored
    <2> QED BY <2>1, <2>2
  <1>5. HeldOnce'
    <2> SUFFICES ASSUME NEW c \in DOMAIN issued', now < issued'[c].end, c \notin spent', c \notin lost'
                 PROVE  (redis'[c] # 0) # (mem'[c] # 0)
      BY DEF HeldOnce
    <2>1. CASE c = n
      BY <1>3, <2>1 DEF Kept
    <2>2. CASE c # n
      <3>1. c \in DOMAIN issued /\ c \in Codes /\ issued'[c] = issued[c] /\ c \notin spent \cup lost
        BY <1>1, <1>2, <1>3, <2>2 DEF Kept
      <3>2. (redis[c] # 0) # (mem[c] # 0)
        BY <3>1 DEF HeldOnce
      <3>3. mem[c] \in {0, issued[c].end}
        BY <3>1 DEF Stored
      <3>4. mem'[c] = mem[c]
        <4>1. mem[c] = 0 \/ mem[c] > now
          BY <3>1, <3>3
        <4> QED BY <1>2, <1>3, <2>2, <3>1, <4>1 DEF Kept
      <3> QED BY <1>3, <2>2, <3>1, <3>2, <3>4 DEF Kept
    <2> QED BY <2>1, <2>2
  <1> QED BY <1>4, <1>5

------------------------------------------------------------------------------
(* What a step leaves alone *)

\* codes are added to those that exist, which keep their contents
Grows == /\ Len(issued) <= Len(issued')
         /\ DOMAIN issued \subseteq DOMAIN issued'
         /\ \A c \in DOMAIN issued : issued'[c] = issued[c]

\* what is known of a request or a code that nothing happened to stays true
LEMMA Lasts ==
    ASSUME TypeOK, TypeOK', Origins, Grows, spent \subseteq spent'
    PROVE  /\ \A s \in Slots : Knows(s) /\ req'[s] = req[s] => Knows(s)'
           /\ \A r : Entitled(r) => Entitled(r)'
  <1>1. /\ Len(issued) \in Nat /\ Len(issued') \in Nat
        /\ DOMAIN issued = 1..Len(issued) /\ DOMAIN issued' = 1..Len(issued')
    <2>1. issued \in Seq(Code) /\ issued' \in Seq(Code)
      BY DEF TypeOK, Code
    <2> QED BY <2>1
  <1>2. ASSUME NEW s \in Slots, Knows(s), req'[s] = req[s] PROVE Knows(s)'
    <2>1. req[s].c \in 0..MaxCodes /\ req[s].c <= Len(issued)
      BY <1>2, Types DEF Knows, Request
    <2>2. \A f : req[s].c \in Of(f)' => req[s].c \in Of(f)
      BY <1>1, <2>1, Constants DEF Of, Grows
    <2>3. \A f : Of(f) \subseteq Of(f)'
      BY DEF Of, Grows
    <2>4. req[s].c <= Len(issued')
      BY <1>1, <2>1, Constants DEF Grows
    <2> QED BY <1>2, <2>2, <2>3, <2>4 DEF Knows, Grows
  <1>3. ASSUME NEW r, Entitled(r) PROVE Entitled(r)'
    BY <1>3 DEF Entitled, Grows, Origins, Of
  <1> QED BY <1>2, <1>3

\* a code that nobody new reads and that is put nowhere stays good for one use
LEMMA UseKept ==
    ASSUME NEW c \in Codes, OneUse(c), uses'[c] = uses[c],
           redis'[c] \in {0, redis[c]}, mem'[c] \in {0, mem[c]},
           \A s \in Slots : req'[s] = req[s] \/ ~Holds(s, c)'
    PROVE  OneUse(c)'
  <1> DEFINE form(s) == req[s].c = c /\ req[s].pc = "form"
  <1>1. \A s \in Slots : /\ Holds(s, c)' => Holds(s, c)
                         /\ req'[s].c = c /\ req'[s].pc = "form" => form(s)
    BY DEF Holds
  <1> QED BY <1>1 DEF OneUse

------------------------------------------------------------------------------
(* Creating a code *)

LEMMA CreateKeeps ==
    ASSUME Inv, NEW f \in Families \ {"form"}, NEW tag \in Tags \cup {0},
           NEW of \in 0..MaxCodes, Create(f, tag, of)
    PROVE  Inv'
  <1> DEFINE e == [fam |-> f, tag |-> tag, of |-> of, end |-> now + Ttl[f]]
             n == Len(issued) + 1
  <1>0. TypeOK /\ Reserved /\ Origins /\ Requests /\ Stored /\ UsesLeft /\ Released /\ HeldOnce
    BY DEF Inv
  <1>1. /\ issued' = Append(issued, e) /\ Keep(n, f)
        /\ UNCHANGED <<ready, now, req, spent, released, uses, excused>>
    BY DEF Create, Issue
  <1>2. e \in Code /\ e.end > now
    BY <1>0, Types, Constants DEF Code
  <1>3. n \in Codes /\ Len(issued) + Cardinality(Redeeming) < MaxCodes
    BY <1>0, Issued, RedeemingFinite, Constants DEF Create, Room, Redeeming, Codes
  <1>4. /\ issued' \in Seq(Code)
        /\ Len(issued') = n
        /\ DOMAIN issued' = DOMAIN issued \cup {n}
        /\ n \notin DOMAIN issued
        /\ issued'[n] = e
        /\ \A c \in DOMAIN issued : issued'[c] = issued[c]
        /\ \A g : Of(g)' = Of(g) \cup {c \in {n} : e.fam = g}
    BY <1>0, <1>1, <1>2, OneMore
  <1>5. Kept(n, e.end) /\ trouble' \in 0..MaxTrouble
    BY <1>0, <1>1, <1>3, <1>4, KeepKeeps
  <1>6. TypeOK'
    <2>1. Len(issued') <= MaxCodes
      BY <1>3, <1>4, Constants DEF Codes
    <2>2. req \in [Slots -> Request] /\ ready \in BOOLEAN /\ now \in 1..MaxNow
      BY <1>0, Types
    <2> QED BY <1>1, <1>4, <1>5, <2>1, <2>2 DEF Kept, TypeOK, Request, Code
  <1>7. Len(issued) \in Nat /\ \A s \in Slots : req[s].c <= Len(issued) /\ req[s].c \in Nat
    BY <1>0, Types, Issued, Constants DEF Requests, Knows, Request
  <1>8. Grows
    BY <1>4, <1>7 DEF Grows
  <1>9. Redeeming' = Redeeming
    <2>1. \A s \in Slots : req[s].c # n
      BY <1>7
    <2> QED BY <1>1, <1>4, <2>1 DEF Redeeming
  <1>10. Reserved'
    BY <1>3, <1>4, <1>7, <1>9, RedeemingFinite, Constants DEF Reserved
  <1>11. Origins'
    BY <1>0, <1>2, <1>4 DEF Origins, Of
  <1>12. Requests' /\ Released'
    BY <1>0, <1>1, <1>6, <1>8, Lasts DEF Requests, Released
  <1>13. Stored' /\ HeldOnce'
    BY <1>0, <1>1, <1>2, <1>3, <1>5, StoredAfter DEF UsesLeft, Stored
  <1>14. UsesLeft'
    <2> SUFFICES ASSUME NEW c \in Codes, c \notin excused PROVE OneUse(c)'
      BY <1>0, <1>1 DEF UsesLeft
    <2>1. CASE c = n
      <3>1. uses[c] = 0
        BY <1>0, <1>4, <2>1 DEF Stored
      <3>2. \A s \in Slots : req'[s].c # c
        BY <1>1, <1>7, <2>1
      <3> QED BY <1>1, <3>1, <3>2 DEF OneUse, Holds
    <2>2. CASE c # n
      BY <1>0, <1>1, <1>5, <2>2, UseKept DEF UsesLeft, Kept
    <2> QED BY <2>1, <2>2
  <1> QED BY <1>6, <1>10, <1>11, <1>12, <1>13, <1>14 DEF Inv

------------------------------------------------------------------------------
(* Redeeming a code *)

\* what the request r may be sure of when it comes with code c
Asks(c, r) ==
    /\ r.c <= Len(issued)
    /\ c \in Of("state") => r.x \in Of("exchange")
    /\ c \in Of("exchange") => r.st \in DOMAIN issued /\ issued[r.st].tag = r.tag

\* nobody but s can honour c any more, and nobody has
LastUse(s, c) ==
    /\ uses[c] = 0 /\ redis'[c] = 0 /\ mem'[c] = 0
    /\ \A t \in Slots \ {s} : ~Holds(t, c)

\* the stores after c was taken out of them, or was left
Taken(c) ==
    /\ redis' \in [Codes -> Nat] /\ mem' \in [Codes -> Nat]
    /\ \A d \in Codes \ {c} : redis'[d] = redis[d] /\ mem'[d] = mem[d]
    /\ redis'[c] \in {0, redis[c]} /\ mem'[c] \in {0, mem[c]}

LEMMA TakenStores ==
    ASSUME TypeOK, Stored, HeldOnce, NEW c \in Codes, Taken(c),
           c \in spent' \/ (redis'[c] = redis[c] /\ (mem'[c] = mem[c] \/ mem[c] < now)),
           UNCHANGED <<issued, now>>, spent \subseteq spent', lost \subseteq lost',
           uses' \in [Codes -> Nat], \A d \in Codes \ DOMAIN issued : uses'[d] = 0
    PROVE  Stored' /\ HeldOnce'
  <1>1. redis \in [Codes -> Nat] /\ mem \in [Codes -> Nat] /\ now \in Nat /\ DOMAIN issued \subseteq Codes
        /\ \A d \in DOMAIN issued : issued[d].end \in Nat
    BY Types, Issued DEF Code
  <1>2. Stored'
    <2> SUFFICES ASSUME NEW d \in Codes
                 PROVE  /\ redis'[d] = 0 \/ mem'[d] = 0
                        /\ d \in DOMAIN issued => {redis'[d], mem'[d]} \subseteq {0, issued[d].end}
                        /\ d \notin DOMAIN issued => redis'[d] = 0 /\ mem'[d] = 0 /\ uses'[d] = 0
      BY DEF Stored
    <2> QED BY DEF Stored, Taken
  <1>3. HeldOnce'
    <2> SUFFICES ASSUME NEW d \in DOMAIN issued, now < issued[d].end, d \notin spent', d \notin lost'
                 PROVE  (redis'[d] # 0) # (mem'[d] # 0)
      BY DEF HeldOnce
    <2>1. (redis[d] # 0) # (mem[d] # 0)
      BY DEF HeldOnce
    <2>2. d = c => redis'[c] = redis[c] /\ mem'[c] = mem[c]
      BY <1>1 DEF Stored, Taken
    <2> QED BY <1>1, <2>1, <2>2 DEF Taken
  <1> QED BY <1>2, <1>3

LEMMA ProceedKeeps ==
    ASSUME Inv, NEW s \in Slots, NEW c \in DOMAIN issued, NEW r \in Request, Asks(c, r),
           Proceed(s, c, r), Taken(c), c \in spent',
           c \in Of("link") => r.c = c /\ s \in Redeeming,
           c \notin excused' => LastUse(s, c),
           UNCHANGED <<issued, now, lost>>, spent \subseteq spent', excused \subseteq excused',
           ready' \in BOOLEAN, trouble' \in 0..MaxTrouble
    PROVE  Inv'
  <1> DEFINE quiet == uses' = uses /\ released' = released
             q == [r EXCEPT !.pc = "read", !.c = r.x, !.st = c]
             f == [r EXCEPT !.pc = "form"]
  <1>0. TypeOK /\ Reserved /\ Origins /\ Requests /\ Stored /\ UsesLeft /\ Released /\ HeldOnce
    BY DEF Inv
  <1>1. /\ DOMAIN issued \subseteq Codes /\ \A g : Of(g) \subseteq DOMAIN issued
        /\ DOMAIN issued = 1..Len(issued) /\ Len(issued) \in Nat
        /\ req \in [Slots -> Request] /\ uses \in [Codes -> Nat]
    BY <1>0, Types, Issued DEF UsesLeft
  <1>2. Idle \in Request /\ q \in Request /\ f \in Request
    <2>1. c \in 0..MaxCodes /\ 0 \in 0..MaxCodes
      BY <1>1, Constants DEF Codes
    <2> QED BY <2>1 DEF Idle, Request
  <1>3. \/ /\ req' = [req EXCEPT ![s] = Idle]
           /\ quiet \/ (c \notin Of("link") \cup Of("state") /\ Accepts(c, r) /\ Honour(c, r.st, r.tag))
        \/ c \in Of("link") /\ req' = [req EXCEPT ![s] = f] /\ quiet
        \/ c \in Of("state") /\ req' = [req EXCEPT ![s] = q] /\ Accepts(c, r) /\ Honour(c, 0, r.tag)
    BY DEF Proceed, Answer, Goto, Of
  <1> HIDE DEF q, f
  <1>4. /\ req' \in [Slots -> Request]
        /\ req'[s] \in {Idle, f, q}
        /\ \A t \in Slots \ {s} : req'[t] = req[t]
    BY <1>1, <1>2, <1>3
  <1>5. TypeOK'
    BY <1>0, <1>4 DEF TypeOK, Taken, Request
  <1>6. Grows
    BY <1>1 DEF Grows
  <1>7. /\ uses' \in [Codes -> Nat]
        /\ \A d \in Codes \ {c} : uses'[d] = uses[d]
        /\ uses'[c] = uses[c] \/ (uses'[c] = uses[c] + 1 /\ req'[s] \in {Idle, q})
    BY <1>1, <1>3 DEF Honour
  <1>8. Stored' /\ HeldOnce'
    BY <1>0, <1>1, <1>7, TakenStores DEF Stored
  <1>9. Reserved'
    <2>1. \A g : Of(g)' = Of(g)
      BY DEF Of
    <2>2. Redeeming' \subseteq Redeeming
      <3>1. req'[s].c \in Of("link") => s \in Redeeming
        <4>1. CASE req'[s] = Idle
          BY <1>1, <4>1 DEF Idle
        <4>2. CASE c \in Of("link")
          BY <4>2
        <4>3. CASE c \in Of("state") /\ req'[s] = q
          BY <4>3 DEF Asks, q, Of, Request
        <4> QED BY <1>1, <1>3, <4>1, <4>2, <4>3
      <3> QED BY <1>4, <2>1, <3>1 DEF Redeeming
    <2>3. Cardinality(Redeeming') \in Nat /\ Cardinality(Redeeming') <= Cardinality(Redeeming)
      BY <2>2, RedeemingCount
    <2> QED BY <1>0, <1>1, <2>3, RedeemingFinite, Constants DEF Reserved
  <1>10. Origins'
    BY <1>0 DEF Origins, Of
  <1>11. Requests'
    <2> SUFFICES ASSUME NEW t \in Slots PROVE Knows(t)'
      BY DEF Requests
    <2>1. CASE t # s
      BY <1>0, <1>4, <1>5, <1>6, <2>1, Lasts DEF Requests
    <2>2. CASE t = s
      <3>1. CASE req'[s] = Idle
        BY <1>1, <2>2, <3>1 DEF Idle, Knows
      <3>2. CASE c \in Of("link") /\ req'[s] = f
        BY <1>1, <2>2, <3>2 DEF f, Knows, Asks, Request, Of
      <3>3. CASE c \in Of("state") /\ req'[s] = q /\ Accepts(c, r)
        <4>1. /\ q.pc = "read" /\ q.c = r.x /\ q.st = c /\ q.tag = r.tag
          BY DEF q, Request
        <4>2. r.x \in Of("exchange") /\ issued[c].tag = r.tag
          BY <3>3 DEF Asks, Accepts, Of
        <4>3. r.x \in Nat /\ r.x <= Len(issued)
          BY <1>1, <4>2
        <4> QED BY <2>2, <3>3, <4>1, <4>2, <4>3 DEF Knows, Of
      <3> QED BY <1>1, <1>3, <3>1, <3>2, <3>3
    <2> QED BY <2>1, <2>2
  <1>12. Released'
    <2> SUFFICES ASSUME NEW h \in released' PROVE Entitled(h)'
      BY DEF Released
    <2>1. CASE h \in released
      BY <1>0, <1>5, <1>6, <2>1, Lasts DEF Released
    <2>2. CASE h \notin released
      <3>1. \/ c \notin Of("link") \cup Of("state") /\ Accepts(c, r) /\ h = <<c, r.st, r.tag>>
            \/ c \in Of("state") /\ h = <<c, 0, r.tag>>
        BY <1>3, <2>2 DEF Honour
      <3> QED BY <1>0, <3>1 DEF Entitled, Accepts, Asks, Of, Origins
    <2> QED BY <2>1, <2>2
  <1>13. UsesLeft'
    <2> SUFFICES ASSUME NEW d \in Codes, d \notin excused' PROVE OneUse(d)'
      BY <1>7 DEF UsesLeft
    <2>1. OneUse(d)
      BY <1>0 DEF UsesLeft
    <2>2. /\ Idle.pc = "idle" /\ q.pc = "read" /\ f.pc = "form"
      BY DEF Idle, q, f, Request
    <2>3. req'[s] = f => c \in Of("link") /\ r.c = c /\ uses'[c] = uses[c]
      BY <1>1, <1>3, <2>2
    <2>4. f.c = r.c
      BY DEF f, Request
    <2>5. CASE d # c
      <3>1. ~Holds(s, d)'
        BY <1>4, <2>2, <2>3, <2>4, <2>5 DEF Holds
      <3> QED BY <1>4, <1>7, <2>1, <2>5, <3>1, UseKept DEF Taken
    <2>6. CASE d = c
      <3>1. LastUse(s, c)
        BY <2>6
      <3>2. \A t \in Slots : Holds(t, c)' => t = s /\ uses'[c] = 0
        BY <1>4, <1>7, <2>2, <2>3, <3>1 DEF Holds, LastUse
      <3>3. uses'[c] <= 1
        BY <1>7, <3>1 DEF LastUse
      <3> QED BY <2>6, <3>1, <3>2, <3>3 DEF OneUse, LastUse
    <2> QED BY <2>5, <2>6
  <1> QED BY <1>5, <1>8, <1>9, <1>10, <1>11, <1>12, <1>13 DEF Inv

\* GET: the request takes note of the code, or gives up
LEMMA ReadRedisKeeps ==
    ASSUME Inv, NEW s \in Slots, NEW c \in DOMAIN issued, NEW r \in Request, Asks(c, r),
           req[s].pc \notin {"del", "form"}, c \in Of("link") => Room, ReadRedis(s, c, r)
    PROVE  Inv'
  <1> DEFINE d == [r EXCEPT !.pc = "del", !.c = c]
  <1>0. TypeOK /\ Reserved /\ Origins /\ Requests /\ Stored /\ UsesLeft /\ Released /\ HeldOnce
    BY DEF Inv
  <1>1. /\ DOMAIN issued \subseteq Codes /\ \A g : Of(g) \subseteq DOMAIN issued
        /\ DOMAIN issued = 1..Len(issued) /\ Len(issued) \in Nat
        /\ req \in [Slots -> Request] /\ redis \in [Codes -> Nat] /\ now \in Nat
    BY <1>0, Types, Issued
  <1>2. Idle \in Request /\ d \in Request /\ d.c = c /\ d.pc = "del" /\ d.tag = r.tag
        /\ d.st = r.st /\ d.x = r.x
    <2>1. c \in 0..MaxCodes /\ 0 \in 0..MaxCodes
      BY <1>1, Constants DEF Codes
    <2> QED BY <2>1 DEF Idle, Request
  <1>3. /\ UNCHANGED <<issued, redis, mem, ready, now, released, uses, lost>>
        /\ spent \subseteq spent' /\ excused \subseteq excused' /\ trouble' \in 0..MaxTrouble
        /\ \/ /\ req' = [req EXCEPT ![s] = d] /\ c \in spent' /\ redis[c] > now
              /\ c \in excused' \/ ~Others(s, c)
           \/ req' = [req EXCEPT ![s] = Idle]
    BY <1>0, Types, Constants DEF ReadRedis, Goto, Answer, Works, Fails, Trouble, stores
  <1> HIDE DEF d
  <1>4. /\ req' \in [Slots -> Request] /\ req'[s] \in {Idle, d}
        /\ \A t \in Slots \ {s} : req'[t] = req[t]
    BY <1>1, <1>2, <1>3
  <1>5. TypeOK'
    BY <1>0, <1>3, <1>4 DEF TypeOK, Request
  <1>6. Grows
    BY <1>1, <1>3 DEF Grows
  <1>7. \A g : Of(g)' = Of(g)
    BY <1>3 DEF Of
  <1>8. Reserved'
    <2>1. CASE req'[s] = d /\ c \in Of("link")
      <3>1. Redeeming' \subseteq Redeeming \cup {s}
        BY <1>4, <1>7 DEF Redeeming
      <3>2. Cardinality(Redeeming') \in Nat /\ Cardinality(Redeeming') <= Cardinality(Redeeming) + 1
        BY <3>1, RedeemingCount
      <3>3. Len(issued) + Cardinality(Redeeming) < MaxCodes
        BY <2>1 DEF Room, Redeeming
      <3> QED BY <1>1, <1>3, <3>2, <3>3, RedeemingFinite, Constants DEF Reserved
    <2>2. CASE req'[s] = Idle \/ c \notin Of("link")
      <3>1. req'[s].c \notin Of("link")
        BY <1>1, <1>2, <1>4, <2>2 DEF Idle
      <3>2. Redeeming' \subseteq Redeeming
        BY <1>4, <1>7, <3>1 DEF Redeeming
      <3>3. Cardinality(Redeeming') \in Nat /\ Cardinality(Redeeming') <= Cardinality(Redeeming)
        BY <3>2, RedeemingCount
      <3> QED BY <1>0, <1>1, <1>3, <3>3, RedeemingFinite, Constants DEF Reserved
    <2> QED BY <1>4, <2>1, <2>2
  <1>9. Origins' /\ Stored' /\ HeldOnce'
    BY <1>0, <1>3 DEF Origins, Of, Stored, HeldOnce
  <1>10. Requests'
    <2> SUFFICES ASSUME NEW t \in Slots PROVE Knows(t)'
      BY DEF Requests
    <2>1. CASE t # s
      BY <1>0, <1>3, <1>4, <1>5, <1>6, <2>1, Lasts DEF Requests
    <2>2. CASE t = s
      <3>1. CASE req'[s] = Idle
        BY <1>1, <1>3, <2>2, <3>1 DEF Idle, Knows
      <3>2. CASE req' = [req EXCEPT ![s] = d] /\ c \in spent'
        BY <1>1, <1>2, <1>3, <1>4, <1>7, <2>2, <3>2 DEF Knows, Asks, Of
      <3> QED BY <1>3, <1>4, <3>1, <3>2
    <2> QED BY <2>1, <2>2
  <1>11. Released'
    BY <1>0, <1>3, <1>5, <1>6, Lasts DEF Released
  <1>12. UsesLeft'
    <2> SUFFICES ASSUME NEW k \in Codes, k \notin excused' PROVE OneUse(k)'
      BY <1>0, <1>3 DEF UsesLeft
    <2>1. OneUse(k)
      BY <1>0, <1>3 DEF UsesLeft
    <2>2. CASE k # c \/ req'[s] = Idle
      <3>1. ~Holds(s, k)'
        BY <1>2, <1>4, <2>2 DEF Holds, Idle
      <3> QED BY <1>3, <1>4, <2>1, <3>1, UseKept
    <2>3. CASE k = c /\ req' = [req EXCEPT ![s] = d] /\ redis[c] > now /\ ~Others(s, c)
      <3>1. redis[c] # 0 /\ mem[c] = 0 /\ uses[c] = 0
        BY <1>0, <1>1, <2>1, <2>3 DEF Stored, OneUse
      <3>2. \A t \in Slots \ {s} : ~Holds(t, c)
        BY <2>1, <2>3, <3>1 DEF OneUse, Others, Holds
      <3>3. \A t \in Slots : Holds(t, c)' => t = s
        BY <1>4, <3>2 DEF Holds
      <3>4. \A t \in Slots : ~(req'[t].c = c /\ req'[t].pc = "form")
        <4>1. req'[s] = d
          BY <1>1, <2>3
        <4> QED BY <1>2, <3>3, <4>1 DEF Holds
      <3> QED BY <1>3, <2>3, <3>1, <3>3, <3>4 DEF OneUse
    <2>4. CASE k = c /\ req'[s] # Idle
      BY <1>3, <1>4, <2>3, <2>4
    <2> QED BY <2>2, <2>4
  <1> QED BY <1>5, <1>8, <1>9, <1>10, <1>11, <1>12 DEF Inv

------------------------------------------------------------------------------
(* Making the form token of a link *)

LEMMA TokenRoom ==
    ASSUME TypeOK, Reserved, NEW s \in Slots, s \in Redeeming \/ Room
    PROVE  /\ Len(issued) + 1 \in Codes
           /\ \A R : R \subseteq Redeeming \ {s} =>
                  Cardinality(R) \in Nat /\ Len(issued) + 1 + Cardinality(R) <= MaxCodes
  <1>1. Len(issued) \in Nat
    BY Issued
  <1>2. ASSUME NEW R, R \subseteq Redeeming \ {s}
        PROVE  Cardinality(R) \in Nat /\ Len(issued) + 1 + Cardinality(R) <= MaxCodes
    <2>1. Cardinality(R) \in Nat /\ Cardinality(R) <= Cardinality(Redeeming)
      BY <1>2, RedeemingCount
    <2>2. CASE s \in Redeeming
      <3>1. Cardinality(R) + 1 <= Cardinality(Redeeming)
        BY <1>2, <2>2, RedeemingCount
      <3> QED BY <1>1, <2>1, <3>1, RedeemingFinite, Constants DEF Reserved
    <2>3. CASE Room
      <3>1. Len(issued) + Cardinality(Redeeming) < MaxCodes
        BY <2>3 DEF Room, Redeeming
      <3> QED BY <1>1, <2>1, <3>1, RedeemingFinite, Constants
    <2> QED BY <2>2, <2>3
  <1>3. Cardinality({}) \in Nat /\ Len(issued) + 1 + Cardinality({}) <= MaxCodes
    BY <1>2
  <1> QED BY <1>1, <1>2, <1>3, Constants DEF Codes

LEMMA TokenKeeps ==
    ASSUME Inv, NEW s \in Slots, s \in Redeeming \/ Room, NEW c \in Of("link"),
           NEW e \in Code, e.fam = "form", e.of = c, e.tag = issued[c].tag, e.end > now,
           issued' = Append(issued, e), Kept(Len(issued) + 1, e.end),
           Honour(c, 0, issued[c].tag), Answer(s), c \notin excused => LastUse(s, c),
           UNCHANGED <<now, excused>>, spent \subseteq spent',
           ready' \in BOOLEAN, trouble' \in 0..MaxTrouble
    PROVE  Inv'
  <1> DEFINE n == Len(issued) + 1
  <1>0. TypeOK /\ Reserved /\ Origins /\ Requests /\ Stored /\ UsesLeft /\ Released /\ HeldOnce
    BY DEF Inv
  <1>1. /\ DOMAIN issued \subseteq Codes /\ \A g : Of(g) \subseteq DOMAIN issued
        /\ DOMAIN issued = 1..Len(issued) /\ Len(issued) \in Nat
        /\ req \in [Slots -> Request] /\ uses \in [Codes -> Nat] /\ c \in DOMAIN issued
    BY <1>0, Types, Issued DEF UsesLeft
  <1>2. /\ issued' \in Seq(Code)
        /\ Len(issued') = n
        /\ DOMAIN issued' = DOMAIN issued \cup {n}
        /\ n \notin DOMAIN issued
        /\ issued'[n] = e
        /\ \A d \in DOMAIN issued : issued'[d] = issued[d]
        /\ \A g : Of(g)' = Of(g) \cup {d \in {n} : e.fam = g}
    BY <1>0, OneMore
  <1>3. n \in Codes
    BY <1>0, TokenRoom
  <1>4. Idle \in Request /\ 0 \notin DOMAIN issued
    BY <1>1, Constants DEF Idle, Request
  <1>5. /\ req' \in [Slots -> Request] /\ req'[s] = Idle
        /\ \A t \in Slots \ {s} : req'[t] = req[t]
    BY <1>1, <1>4 DEF Answer, Goto
  <1>6. TypeOK'
    <2>1. Len(issued') <= MaxCodes
      BY <1>2, <1>3, Constants DEF Codes
    <2> QED BY <1>0, <1>2, <1>5, <2>1 DEF Kept, TypeOK, Request, Code
  <1>7. Grows
    BY <1>1, <1>2 DEF Grows
  <1>8. uses' \in [Codes -> Nat] /\ uses'[c] = uses[c] + 1
        /\ \A d \in Codes \ {c} : uses'[d] = uses[d]
    BY <1>1 DEF Honour
  <1>9. Reserved'
    <2>1. Of("link")' = Of("link")
      BY <1>2
    <2>2. Redeeming' \subseteq Redeeming \ {s}
      BY <1>1, <1>4, <1>5, <2>1 DEF Redeeming, Idle
    <2> QED BY <1>0, <1>1, <1>2, <2>2, TokenRoom, Constants DEF Reserved
  <1>10. Origins'
    BY <1>0, <1>1, <1>2 DEF Origins, Of
  <1>11. Requests'
    <2> SUFFICES ASSUME NEW t \in Slots PROVE Knows(t)'
      BY DEF Requests
    <2>1. CASE t # s
      BY <1>0, <1>5, <1>6, <1>7, <2>1, Lasts DEF Requests
    <2>2. CASE t = s
      BY <1>1, <1>2, <1>5, <2>2 DEF Idle, Knows
    <2> QED BY <2>1, <2>2
  <1>12. Stored' /\ HeldOnce'
    BY <1>0, <1>1, <1>3, <1>8, StoredAfter DEF Stored
  <1>13. Released'
    <2> SUFFICES ASSUME NEW h \in released' PROVE Entitled(h)'
      BY DEF Released
    <2>1. CASE h \in released
      BY <1>0, <1>6, <1>7, <2>1, Lasts DEF Released
    <2>2. CASE h = <<c, 0, issued[c].tag>>
      BY <1>1, <1>2, <2>2 DEF Entitled, Of
    <2> QED BY <2>1, <2>2 DEF Honour
  <1>14. UsesLeft'
    <2> SUFFICES ASSUME NEW d \in Codes, d \notin excused PROVE OneUse(d)'
      BY <1>8 DEF UsesLeft
    <2>1. OneUse(d)
      BY <1>0 DEF UsesLeft
    <2>2. ~Holds(s, d)'
      BY <1>5 DEF Holds, Idle
    <2>3. CASE d = c
      <3>1. LastUse(s, c)
        BY <2>3
      <3>2. \A t \in Slots : ~Holds(t, c)'
        BY <1>5, <2>2, <2>3, <3>1 DEF LastUse, Holds
      <3>3. \A t \in Slots : ~(req'[t].c = c /\ req'[t].pc = "form")
        BY <3>2 DEF Holds
      <3> QED BY <1>8, <2>3, <3>1, <3>2, <3>3 DEF OneUse, LastUse
    <2>4. CASE d = n
      <3>1. uses'[d] = 0
        BY <1>0, <1>1, <1>2, <1>8, <2>4 DEF Stored
      <3>2. \A t \in Slots : req'[t].c # d
        <4>1. \A t \in Slots : req[t].c <= Len(issued)
          BY <1>0 DEF Requests, Knows
        <4> QED BY <1>1, <1>5, <2>4, <4>1 DEF Idle
      <3> QED BY <3>1, <3>2 DEF OneUse, Holds
    <2>5. CASE d # c /\ d # n
      BY <1>5, <1>8, <2>1, <2>2, <2>5, UseKept DEF Kept
    <2> QED BY <2>3, <2>4, <2>5
  <1> QED BY <1>6, <1>9, <1>10, <1>11, <1>12, <1>13, <1>14 DEF Inv

\* the Map's get and delete, with the form token of a link
LEMMA ReadMemoryKeeps ==
    ASSUME Inv, NEW s \in Slots, NEW c \in DOMAIN issued, NEW r \in Request, Asks(c, r),
           req[s].pc \notin {"del", "form"}, c \in Of("link") => Room, ReadMemory(s, c, r)
    PROVE  Inv'
  <1> DEFINE there == mem[c] # 0 /\ mem[c] >= now
             n == Len(issued) + 1
             e == [issued[c] EXCEPT !.fam = "form", !.of = c, !.end = now + Ttl["form"]]
  <1>0. TypeOK /\ Reserved /\ Origins /\ Requests /\ Stored /\ UsesLeft /\ Released /\ HeldOnce
    BY DEF Inv
  <1>1. /\ c \in Codes /\ issued[c] \in Code /\ now \in Nat /\ ready \in BOOLEAN
        /\ redis \in [Codes -> Nat] /\ mem \in [Codes -> Nat] /\ trouble \in 0..MaxTrouble
        /\ c \in 0..MaxCodes
    <2>1. c \in Codes /\ issued[c] \in Code
      BY <1>0, Issued
    <2> QED BY <1>0, <2>1, Types, Constants DEF Codes
  <1>2. /\ UNCHANGED <<redis, ready, now, trouble, excused, lost>>
        /\ spent' = IF there THEN spent \cup {c} ELSE spent
    BY DEF ReadMemory, world
  <1>3. there /\ c \notin excused => /\ uses[c] = 0 /\ redis'[c] = 0
                                     /\ \A t \in Slots : ~Holds(t, c)
    BY <1>0, <1>1, <1>2 DEF UsesLeft, OneUse, Stored
  <1>4. CASE there /\ c \in Of("link")
    <2>1. /\ issued' = Append(issued, e)
          /\ mem' = [Pruned("form") EXCEPT ![c] = 0, ![n] = now + Ttl["form"]]
          /\ Honour(c, 0, issued[c].tag) /\ Answer(s)
      BY <1>4 DEF ReadMemory, Of
    <2>2. e \in Code /\ e.fam = "form" /\ e.of = c /\ e.tag = issued[c].tag
          /\ e.end = now + Ttl["form"] /\ e.end > now
      <3>1. now + Ttl["form"] \in Nat /\ now + Ttl["form"] > now
        BY <1>1, Constants DEF Families
      <3>2. \A k \in Code :
              LET g == [k EXCEPT !.fam = "form", !.of = c, !.end = now + Ttl["form"]]
              IN  g \in Code /\ g.fam = "form" /\ g.of = c /\ g.tag = k.tag
                  /\ g.end = now + Ttl["form"]
        BY <1>1, <3>1 DEF Code, Families
      <3> QED BY <1>1, <3>1, <3>2
    <2> HIDE DEF e
    <2>3. n \in Codes /\ n \notin DOMAIN issued
      BY <1>0, <1>4, <2>1, <2>2, TokenRoom, OneMore
    <2>4. mem'[c] = 0
      BY <1>1, <2>1, <2>3, PrunedStores, <1>0
    <2>5. Kept(n, e.end)
      <3>1. redis[n] = 0
        BY <1>0, <2>3 DEF Stored
      <3>2. /\ Pruned("form") \in [Codes -> Nat]
            /\ \A d \in Codes : /\ Pruned("form")[d] \in {0, mem[d]}
                                /\ Pruned("form")[d] # mem[d] => mem[d] <= now
        BY <1>0, PrunedStores
      <3>3. c # n /\ e.end \in Nat /\ e.end # 0
        BY <1>1, <2>2, <2>3, Constants DEF Code
      <3>4. mem' \in [Codes -> Nat] /\ mem'[n] = e.end
            /\ \A d \in Codes \ {n, c} : mem'[d] = Pruned("form")[d]
        BY <1>1, <2>1, <2>2, <2>3, <3>2, <3>3
      <3>5. c \in spent'
        BY <1>2, <1>4
      <3> QED BY <1>1, <1>2, <2>4, <3>1, <3>2, <3>3, <3>4, <3>5 DEF Kept
    <2>6. c \notin excused => LastUse(s, c)
      BY <1>3, <1>4, <2>4 DEF LastUse
    <2> QED BY <1>1, <1>2, <1>4, <2>1, <2>2, <2>5, <2>6, TokenKeeps
  <1>5. CASE there /\ c \notin Of("link")
    <2>1. mem' = [mem EXCEPT ![c] = 0] /\ UNCHANGED issued /\ Proceed(s, c, r)
      BY <1>5 DEF ReadMemory, Of
    <2>2. Taken(c) /\ mem'[c] = 0
      BY <1>1, <1>2, <2>1 DEF Taken
    <2>3. c \notin excused' => LastUse(s, c)
      BY <1>2, <1>3, <1>5, <2>2 DEF LastUse
    <2> QED BY <1>1, <1>2, <1>5, <2>1, <2>2, <2>3, ProceedKeeps
  <1>6. CASE ~there
    <2>1. /\ mem' = [mem EXCEPT ![c] = 0] /\ UNCHANGED <<issued, uses, released>> /\ Answer(s)
      BY <1>6 DEF ReadMemory
    <2>2. Taken(c) /\ (mem'[c] = mem[c] \/ mem[c] < now)
      BY <1>1, <1>2, <1>6, <2>1 DEF Taken
    <2>3. /\ req \in [Slots -> Request] /\ Len(issued) \in Nat /\ DOMAIN issued = 1..Len(issued)
          /\ Idle \in Request
      BY <1>0, Types, Issued, Constants DEF Idle, Request
    <2>4. /\ req' \in [Slots -> Request] /\ req'[s] = Idle
          /\ \A t \in Slots \ {s} : req'[t] = req[t]
      BY <2>1, <2>3 DEF Answer, Goto
    <2>5. TypeOK'
      BY <1>0, <1>2, <2>1, <2>2, <2>4 DEF TypeOK, Taken, Request
    <2>6. Stored' /\ HeldOnce'
      BY <1>0, <1>1, <1>2, <1>6, <2>1, <2>2, TakenStores DEF UsesLeft, Stored
    <2>7. Reserved'
      <3>1. Redeeming' \subseteq Redeeming
        BY <2>1, <2>3, <2>4 DEF Redeeming, Of, Idle
      <3> QED BY <1>0, <2>1, <2>3, <3>1, RedeemingCount, RedeemingFinite, Constants DEF Reserved
    <2>8. Grows
      BY <2>1, <2>3 DEF Grows
    <2>9. Origins' /\ Released'
      BY <1>0, <1>2, <1>6, <2>1, <2>5, <2>8, Lasts DEF Origins, Of, Released
    <2>10. Requests'
      <3> SUFFICES ASSUME NEW t \in Slots PROVE Knows(t)'
        BY DEF Requests
      <3>1. CASE t # s
        BY <1>0, <1>2, <1>6, <2>4, <2>5, <2>8, <3>1, Lasts DEF Requests
      <3>2. CASE t = s
        BY <2>1, <2>3, <2>4, <3>2 DEF Idle, Knows
      <3> QED BY <3>1, <3>2
    <2>11. UsesLeft'
      <3> SUFFICES ASSUME NEW d \in Codes, d \notin excused PROVE OneUse(d)'
        BY <1>0, <1>2, <2>1 DEF UsesLeft
      <3>1. OneUse(d) /\ ~Holds(s, d)'
        BY <1>0, <2>4 DEF UsesLeft, Holds, Idle
      <3> QED BY <1>2, <2>1, <2>2, <2>4, <3>1, UseKept DEF Taken
    <2> QED BY <2>5, <2>6, <2>7, <2>9, <2>10, <2>11 DEF Inv
  <1> QED BY <1>4, <1>5, <1>6

\* DEL, and what the caller does with the payload
LEMMA DeleteRedisKeeps ==
    ASSUME Inv, NEW s \in Slots, DeleteRedis(s)
    PROVE  Inv'
  <1> DEFINE c == req[s].c
  <1>0. TypeOK /\ Requests /\ Stored /\ UsesLeft
    BY DEF Inv
  <1>1. /\ c \in DOMAIN issued /\ c \in spent /\ req[s] \in Request /\ c \in Codes
        /\ redis \in [Codes -> Nat] /\ mem \in [Codes -> Nat]
        /\ ready \in BOOLEAN /\ trouble \in 0..MaxTrouble /\ c <= Len(issued)
    BY <1>0, Types, Issued DEF DeleteRedis, Requests, Knows
  <1>2. /\ Proceed(s, c, req[s]) /\ UNCHANGED <<issued, mem, ready, now, spent, lost>>
        /\ redis' \in {redis, [redis EXCEPT ![c] = 0]} /\ trouble' \in 0..MaxTrouble
        /\ excused \subseteq excused'
        /\ c \in excused' \/ redis' = [redis EXCEPT ![c] = 0]
    BY <1>1, Constants DEF DeleteRedis, Works, Fails, Trouble
  <1>3. Asks(c, req[s])
    BY <1>0 DEF DeleteRedis, Requests, Knows, Asks
  <1>4. Taken(c)
    <2>1. /\ redis' \in [Codes -> Nat] /\ redis'[c] \in {0, redis[c]}
          /\ \A d \in Codes \ {c} : redis'[d] = redis[d]
      BY <1>1, <1>2
    <2> QED BY <1>1, <1>2, <2>1 DEF Taken
  <1>5. c \notin excused' => LastUse(s, c)
    BY <1>0, <1>1, <1>2 DEF DeleteRedis, UsesLeft, OneUse, Holds, LastUse
  <1>6. c \in Of("link") => s \in Redeeming
    BY DEF Redeeming
  <1> QED BY <1>1, <1>2, <1>3, <1>4, <1>5, <1>6, ProceedKeeps

LEMMA RedeemFormKeeps ==
    ASSUME Inv, NEW s \in Slots, RedeemForm(s)
    PROVE  Inv'
  <1> DEFINE c == req[s].c
             e == [fam |-> "form", tag |-> issued[c].tag, of |-> c, end |-> now + Ttl["form"]]
             n == Len(issued) + 1
  <1>0. TypeOK /\ Reserved /\ Requests /\ Stored /\ UsesLeft
    BY DEF Inv
  <1>1. /\ c \in Of("link") /\ c \in DOMAIN issued /\ c \in Codes /\ issued[c] \in Code
        /\ now \in Nat /\ ready \in BOOLEAN /\ c \in 0..MaxCodes /\ s \in Redeeming
    BY <1>0, Types, Issued, Constants DEF RedeemForm, Requests, Knows, Redeeming, Codes
  <1>2. /\ issued' = Append(issued, e) /\ Keep(n, "form")
        /\ UNCHANGED <<ready, now, spent, excused>>
        /\ Honour(c, 0, issued[c].tag) /\ Answer(s)
    BY DEF RedeemForm, Issue
  <1>3. e \in Code /\ e.fam = "form" /\ e.of = c /\ e.tag = issued[c].tag
        /\ e.end = now + Ttl["form"] /\ e.end > now
    BY <1>1, Constants DEF Code, Families
  <1> HIDE DEF e
  <1>4. n \in Codes /\ n \notin DOMAIN issued
    BY <1>0, <1>1, <1>2, <1>3, TokenRoom, OneMore
  <1>5. Kept(n, e.end) /\ trouble' \in 0..MaxTrouble
    BY <1>0, <1>2, <1>3, <1>4, KeepKeeps DEF Families
  <1>6. c \notin excused => LastUse(s, c)
    <2>1. ASSUME c \notin excused
          PROVE  uses[c] = 0 /\ redis[c] = 0 /\ mem[c] = 0 /\ \A t \in Slots \ {s} : ~Holds(t, c)
      BY <1>0, <1>1, <2>1 DEF RedeemForm, UsesLeft, OneUse, Holds
    <2> QED BY <1>1, <1>4, <1>5, <2>1 DEF LastUse, Kept
  <1> QED BY <1>1, <1>2, <1>3, <1>5, <1>6, TokenKeeps

------------------------------------------------------------------------------
(* The poll tokens and the environment *)

LEMMA PollStatusKeeps ==
    ASSUME Inv, NEW c \in DOMAIN issued, PollStatus(c)
    PROVE  Inv'
  <1>0. TypeOK /\ Reserved /\ Origins /\ Requests /\ Stored /\ UsesLeft /\ Released /\ HeldOnce
    BY DEF Inv
  <1>1. /\ c \in Codes /\ mem \in [Codes -> Nat] /\ redis \in [Codes -> Nat]
        /\ req \in [Slots -> Request] /\ Len(issued) \in Nat
    BY <1>0, Types, Issued
  <1>2. /\ UNCHANGED <<issued, redis, req, ready, now, trouble, spent, released, uses, excused, lost>>
        /\ mem' = mem \/ (mem[c] < now /\ mem' = [mem EXCEPT ![c] = 0])
    BY DEF PollStatus, world, past
  <1>3. Taken(c) /\ (mem'[c] = mem[c] \/ mem[c] < now)
    BY <1>1, <1>2 DEF Taken
  <1>4. TypeOK'
    BY <1>0, <1>2, <1>3 DEF TypeOK, Taken
  <1>5. Stored' /\ HeldOnce'
    BY <1>0, <1>1, <1>2, <1>3, TakenStores DEF UsesLeft, Stored
  <1>6. Reserved' /\ Origins' /\ Requests' /\ Released'
    BY <1>0, <1>2 DEF Reserved, Redeeming, Origins, Requests, Knows, Released, Entitled, Of
  <1>7. UsesLeft'
    BY <1>0, <1>1, <1>2, <1>3, UseKept DEF UsesLeft, Taken
  <1> QED BY <1>4, <1>5, <1>6, <1>7 DEF Inv

LEMMA TickKeeps ==
    ASSUME Inv, Tick
    PROVE  Inv'
  <1>0. TypeOK /\ Reserved /\ Origins /\ Requests /\ Stored /\ UsesLeft /\ Released /\ HeldOnce
    BY DEF Inv
  <1>1. /\ UNCHANGED <<issued, redis, mem, req, ready, trouble, spent, released, uses, excused, lost>>
        /\ now \in Nat /\ now' = now + 1 /\ now' \in 1..MaxNow
        /\ \A c \in DOMAIN issued : issued[c].end \in Nat
    BY <1>0, Types, Issued, Constants DEF Tick, stores, past, Code
  <1>2. TypeOK'
    BY <1>0, <1>1 DEF TypeOK
  <1>3. Reserved' /\ Origins' /\ Requests' /\ Released'
    BY <1>0, <1>1 DEF Reserved, Redeeming, Origins, Requests, Knows, Released, Entitled, Of
  <1>4. Stored' /\ UsesLeft'
    BY <1>0, <1>1 DEF Stored, UsesLeft, OneUse, Holds
  <1>5. HeldOnce'
    BY <1>0, <1>1 DEF HeldOnce
  <1> QED BY <1>2, <1>3, <1>4, <1>5 DEF Inv

LEMMA FlapKeeps ==
    ASSUME Inv, Flap \/ UNCHANGED vars
    PROVE  Inv'
  <1>0. TypeOK /\ Reserved /\ Origins /\ Requests /\ Stored /\ UsesLeft /\ Released /\ HeldOnce
    BY DEF Inv
  <1>1. /\ UNCHANGED <<issued, redis, mem, req, now, spent, released, uses, excused, lost>>
        /\ ready' \in BOOLEAN /\ trouble' \in 0..MaxTrouble
    <2>1. CASE Flap
      BY <1>0, <2>1, Types, Constants DEF Flap, Trouble, stores, past
    <2>2. CASE UNCHANGED vars
      BY <1>0, <2>2, Types DEF vars, stores, past, world
    <2> QED BY <2>1, <2>2
  <1>2. TypeOK'
    BY <1>0, <1>1 DEF TypeOK
  <1>3. Reserved' /\ Origins' /\ Requests' /\ Released'
    BY <1>0, <1>1 DEF Reserved, Redeeming, Origins, Requests, Knows, Released, Entitled, Of
  <1>4. Stored' /\ UsesLeft' /\ HeldOnce'
    BY <1>0, <1>1 DEF Stored, UsesLeft, OneUse, Holds, HeldOnce
  <1> QED BY <1>2, <1>3, <1>4 DEF Inv

\* the requests in progress and the Maps are gone
LEMMA RestartKeeps ==
    ASSUME Inv, Restart
    PROVE  Inv'
  <1>0. TypeOK /\ Reserved /\ Origins /\ Requests /\ Stored /\ UsesLeft /\ Released /\ HeldOnce
    BY DEF Inv
  <1>1. /\ UNCHANGED <<issued, redis, now, spent, released, uses>>
        /\ ready' \in BOOLEAN /\ trouble' \in 0..MaxTrouble
        /\ mem' = [c \in Codes |-> 0] /\ req' = [s \in Slots |-> Idle]
        /\ lost' = lost \cup {c \in Codes : mem[c] # 0} /\ excused \subseteq excused'
    BY <1>0, Types, Constants DEF Restart, Trouble
  <1>2. /\ DOMAIN issued = 1..Len(issued) /\ Len(issued) \in Nat /\ Idle \in Request
        /\ DOMAIN issued \subseteq Codes
    BY <1>0, Issued, Constants DEF Idle, Request
  <1>3. TypeOK'
    BY <1>0, <1>1, <1>2 DEF TypeOK, Request
  <1>4. Reserved'
    <2>1. Redeeming' = {}
      BY <1>1, <1>2 DEF Redeeming, Of, Idle
    <2>2. Cardinality({}) = 0
      BY FS_EmptySet
    <2>3. Len(issued) <= MaxCodes
      BY <1>0, Types
    <2> QED BY <1>1, <1>2, <2>1, <2>2, <2>3 DEF Reserved
  <1>5. Origins' /\ Released'
    BY <1>0, <1>1 DEF Origins, Released, Entitled, Of
  <1>6. Requests'
    BY <1>1, <1>2 DEF Requests, Knows, Idle
  <1>7. Stored' /\ HeldOnce'
    BY <1>0, <1>1, <1>2 DEF Stored, HeldOnce
  <1>8. UsesLeft'
    <2> SUFFICES ASSUME NEW c \in Codes, c \notin excused' PROVE OneUse(c)'
      BY <1>0, <1>1 DEF UsesLeft
    <2>1. OneUse(c) /\ \A s \in Slots : ~Holds(s, c)'
      BY <1>0, <1>1 DEF UsesLeft, Holds, Idle
    <2> QED BY <1>1, <2>1, UseKept
  <1> QED BY <1>3, <1>4, <1>5, <1>6, <1>7, <1>8 DEF Inv

------------------------------------------------------------------------------
(* The theorems *)

LEMMA InitInv == Init => Inv
  <1> SUFFICES ASSUME Init PROVE Inv
    OBVIOUS
  <1>1. /\ issued = <<>> /\ redis = [c \in Codes |-> 0] /\ mem = redis /\ uses = redis
        /\ req = [s \in Slots |-> Idle] /\ released = {} /\ ready \in BOOLEAN
        /\ now = 1 /\ trouble = 0
    BY DEF Init
  <1>2. Len(issued) = 0 /\ DOMAIN issued = {} /\ issued \in Seq(Code) /\ \A f : Of(f) = {}
    BY <1>1 DEF Of
  <1>3. Idle \in Request
    BY Constants DEF Idle, Request
  <1>4. TypeOK
    BY <1>1, <1>2, <1>3, Constants, Types
  <1>5. Reserved
    <2>1. Redeeming = {}
      BY <1>2 DEF Redeeming
    <2> QED BY <1>2, <2>1, FS_EmptySet, Constants DEF Reserved
  <1>6. Origins /\ Requests /\ Stored /\ HeldOnce /\ Released
    BY <1>1, <1>2 DEF Origins, Requests, Knows, Stored, HeldOnce, Released, Idle
  <1>7. UsesLeft
    BY <1>1 DEF UsesLeft, OneUse, Holds, Idle
  <1> QED BY <1>4, <1>5, <1>6, <1>7 DEF Inv

LEMMA NextInv == Inv /\ [Next]_vars => Inv'
  <1> SUFFICES ASSUME Inv, [Next]_vars PROVE Inv'
    OBVIOUS
  <1>0. TypeOK /\ Requests
    BY DEF Inv
  <1>1. /\ \A f : Of(f) \subseteq DOMAIN issued
        /\ DOMAIN issued \subseteq 0..MaxCodes /\ DOMAIN issued = 1..Len(issued) /\ Len(issued) \in Nat
        /\ \A s \in Slots : req[s] \in Request
        /\ Idle \in Request
    <2>1. DOMAIN issued \subseteq Codes /\ \A f : Of(f) \subseteq DOMAIN issued
      BY <1>0, Issued
    <2> QED BY <1>0, <2>1, Issued, Types, Constants DEF Codes, Idle, Request
  <1>2. ASSUME NEW t \in Tags, CreateEmailLink(t) \/ PrepareOAuth(t) PROVE Inv'
    BY <1>1, <1>2, CreateKeeps, Constants DEF CreateEmailLink, PrepareOAuth, Families
  <1>3. ASSUME NEW st \in Of("state"), HandleOAuthSuccess(st) PROVE Inv'
    BY <1>1, <1>3, CreateKeeps DEF HandleOAuthSuccess, Families
  <1>4. CASE CreatePollToken
    BY <1>4, CreateKeeps, Constants DEF CreatePollToken, Families
  <1>5. ASSUME NEW s \in Slots, NEW c \in DOMAIN issued, RedeemEmailLink(s, c) PROVE Inv'
    <2>1. Asks(c, Idle)
      BY <1>1, <1>5 DEF RedeemEmailLink, Asks, Idle, Of
    <2> QED BY <1>1, <1>5, <2>1, ReadRedisKeeps, ReadMemoryKeeps DEF RedeemEmailLink, Begins, Read
  <1>6. ASSUME NEW s \in Slots, NEW c \in DOMAIN issued, NEW t \in Tags, ConsumeFormToken(s, c, t)
        PROVE  Inv'
    <2> DEFINE r == [Idle EXCEPT !.tag = t]
    <2>1. r \in Request /\ r.c = 0
      BY Constants DEF Idle, Request
    <2>2. Asks(c, r) /\ c \notin Of("link")
      BY <1>1, <1>6, <2>1 DEF ConsumeFormToken, Asks, Of
    <2> HIDE DEF r
    <2>3. req[s].pc = "idle" /\ Read(s, c, r)
      BY <1>6 DEF ConsumeFormToken, Begins, r
    <2> QED BY <2>1, <2>2, <2>3, ReadRedisKeeps, ReadMemoryKeeps DEF Read
  <1>7. ASSUME NEW s \in Slots, NEW c \in DOMAIN issued, NEW x \in DOMAIN issued, NEW t \in Tags,
               ExchangeOAuthCode(s, c, x, t)
        PROVE  Inv'
    <2> DEFINE r == [Idle EXCEPT !.tag = t, !.x = x]
    <2>1. r \in Request /\ r.c = 0 /\ r.x = x
      <3>1. x \in 0..MaxCodes /\ 0 \in 0..MaxCodes
        BY <1>1, Constants
      <3> QED BY <3>1 DEF Idle, Request
    <2>2. Asks(c, r) /\ c \notin Of("link")
      BY <1>1, <1>7, <2>1 DEF ExchangeOAuthCode, Asks, Of
    <2> HIDE DEF r
    <2>3. req[s].pc = "idle" /\ Read(s, c, r)
      BY <1>7 DEF ExchangeOAuthCode, Begins, r
    <2> QED BY <2>1, <2>2, <2>3, ReadRedisKeeps, ReadMemoryKeeps DEF Read
  <1>8. ASSUME NEW s \in Slots, ExchangeRead(s) PROVE Inv'
    <2> DEFINE c == req[s].c
    <2>1. /\ c \in DOMAIN issued /\ c \notin Of("link") /\ Asks(c, req[s])
          /\ req[s].pc = "read" /\ Read(s, c, req[s])
      BY <1>0, <1>1, <1>8 DEF ExchangeRead, Requests, Knows, Asks, Of
    <2> HIDE DEF c
    <2> QED BY <1>1, <2>1, ReadRedisKeeps, ReadMemoryKeeps DEF Read
  <1> QED BY <1>2, <1>3, <1>4, <1>5, <1>6, <1>7, <1>8, DeleteRedisKeeps, RedeemFormKeeps,
             PollStatusKeeps, TickKeeps, FlapKeeps, RestartKeeps DEF Next

LEMMA AlwaysInv == Spec => []Inv
  BY InitInv, NextInv, PTL DEF Spec

\* The variables keep their types: in particular a redemption under way always
\* finds a number for its form token (redeemEmailLink).
THEOREM TypeCorrect == Spec => []TypeOK
  <1>1. Inv => TypeOK
    BY DEF Inv
  <1> QED BY <1>1, AlwaysInv, PTL

\* The one-time codes (consumeFormToken, consumeOAuthState,
\* consumeOAuthExchangeCode, redeemEmailLinkCode): no interleaving of requests,
\* changes of the connection and restarts lets a code be honoured twice, unless two
\* requests had read it before either deleted it or the DEL was not carried out.
THEOREM OneTimeUse == Spec => []OneTime
  <1>1. Inv => OneTime
    BY DEF Inv, UsesLeft, OneUse, OneTime
  <1> QED BY <1>1, AlwaysInv, PTL

\* What a code is exchanged for is what the client is entitled to: a form of the
\* mailed kind (consumeFormToken), the tokens of its own sign-in (exchangeOAuthCode).
THEOREM Binding == Spec => []Bound
  <1>1. Inv => Bound
    BY DEF Inv, Released, Entitled, Bound
  <1> QED BY <1>1, AlwaysInv, PTL

\* A code that was handed out and not read is, until its end, in one of the two
\* stores and not in the other, through every change of the connection.
THEOREM HeldInOneStore == Spec => []HeldOnce
  <1>1. Inv => HeldOnce
    BY DEF Inv
  <1> QED BY <1>1, AlwaysInv, PTL

==============================================================================
