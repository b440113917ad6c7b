---------------------------- MODULE SessionsProofs ----------------------------
(***************************************************************************)
(* Theorems about the sessions of one account, for any number of requests, *)
(* pairs, versions and resets: first what holds however the requests       *)
(* overlap, then what holds when they come one after the other.            *)
(***************************************************************************)
EXTENDS Sessions, SequenceTheorems, TLAPS

------------------------------------------------------------------------------
(* The update operators of src/db/User.ts *)

\* how many of the oldest entries $slice: -max drops from s and a new entry
Dropped(s, max) == IF Len(s) < max THEN 0 ELSE Len(s) + 1 - max

\* $push with $slice: the newest entries stay, in their order
LEMMA PushSliceEntries ==
    ASSUME NEW S, NEW s \in Seq(S), NEW x \in S, NEW max \in Nat \ {0}
    PROVE  /\ PushSlice(s, x, max) \in Seq(S)
           /\ Len(PushSlice(s, x, max)) = Len(s) + 1 - Dropped(s, max)
           /\ Len(PushSlice(s, x, max)) <= max
           /\ Dropped(s, max) \in 0..Len(s)
           /\ \A i \in 1..Len(PushSlice(s, x, max)) :
                  PushSlice(s, x, max)[i] = Append(s, x)[i + Dropped(s, max)]
  <1> DEFINE p == PushSlice(s, x, max)
             t == Append(s, x)
             drop == Dropped(s, max)
  <1>1. t \in Seq(S) /\ Len(t) = Len(s) + 1 /\ Len(s) \in Nat
    BY AppendProperties, LenProperties
  <1>2. CASE Len(s) < max
    <2>1. p = t /\ drop = 0
      BY <1>1, <1>2 DEF PushSlice, Dropped
    <2> HIDE DEF p, t, drop
    <2>2. Len(p) = Len(s) + 1 - drop /\ Len(p) <= max /\ drop \in 0..Len(s) /\ p \in Seq(S)
      BY <1>1, <1>2, <2>1
    <2>3. \A i \in 1..Len(p) : p[i] = t[i + drop]
      <3> SUFFICES ASSUME NEW i \in 1..Len(p) PROVE p[i] = t[i + drop]
        OBVIOUS
      <3>1. i + drop = i
        BY <2>1
      <3> QED BY <2>1, <3>1
    <2> QED BY <2>2, <2>3 DEF p, t, drop
  <1>3. CASE ~(Len(s) < max)
    <2>1. p = SubSeq(t, Len(t) - max + 1, Len(t))
      BY <1>1, <1>3 DEF PushSlice
    <2>2. drop = Len(s) + 1 - max /\ drop \in 0..Len(s) /\ Len(t) - max + 1 = drop + 1
      BY <1>1, <1>3 DEF Dropped
    <2> HIDE DEF p, t, drop
    <2>3. drop + 1 \in Int /\ Len(t) \in Int /\ \A i \in (drop + 1)..Len(t) : t[i] \in S
      <3>1. \A i \in 1..Len(t) : t[i] \in S
        BY <1>1, ElementOfSeq
      <3> QED BY <1>1, <2>2, <3>1
    <2>4. /\ SubSeq(t, drop + 1, Len(t)) \in Seq(S)
          /\ Len(SubSeq(t, drop + 1, Len(t))) =
                 IF drop + 1 <= Len(t) THEN Len(t) - (drop + 1) + 1 ELSE 0
          /\ \A i \in 1..(Len(t) - (drop + 1) + 1) :
                 SubSeq(t, drop + 1, Len(t))[i] = t[(drop + 1) + i - 1]
      BY <2>3, SubSeqProperties
    <2>5. p \in Seq(S) /\ Len(p) = max /\ Len(p) = Len(s) + 1 - drop /\ Len(t) - (drop + 1) + 1 = max
      BY <1>1, <1>3, <2>1, <2>2, <2>4
    <2>6. \A i \in 1..Len(p) : p[i] = t[i + drop]
      <3> SUFFICES ASSUME NEW i \in 1..Len(p) PROVE p[i] = t[i + drop]
        OBVIOUS
      <3>1. (drop + 1) + i - 1 = i + drop
        BY <1>1, <2>2, <2>5
      <3> QED BY <2>1, <2>2, <2>4, <2>5, <3>1
    <2> QED BY <2>2, <2>5, <2>6, SMTT(30) DEF p, t, drop
  <1> QED BY <1>2, <1>3

\* pushing a new entry onto a list without repetitions
LEMMA PushSliceKeeps ==
    ASSUME NEW S, NEW s \in Seq(S), NEW x \in S, NEW max \in Nat \ {0}
    PROVE  /\ PushSlice(s, x, max) \in Seq(S)
           /\ Len(PushSlice(s, x, max)) <= max
           /\ Range(PushSlice(s, x, max)) \subseteq Range(s) \cup {x}
           /\ IsInjective(s) /\ x \notin Range(s) => IsInjective(PushSlice(s, x, max))
           /\ Len(s) <= max =>
                  \A y \in Range(s) \ Range(PushSlice(s, x, max)) : Len(s) = max /\ y = s[1]
  <1> DEFINE p == PushSlice(s, x, max)
             t == Append(s, x)
             drop == Dropped(s, max)
  <1>1. /\ p \in Seq(S)
        /\ Len(p) = Len(s) + 1 - drop
        /\ Len(p) <= max
        /\ drop \in 0..Len(s)
        /\ \A i \in 1..Len(p) : p[i] = t[i + drop]
    BY PushSliceEntries, SMTT(30)
  <1>2. /\ \A i \in 1..Len(s) : t[i] = s[i]
        /\ t[Len(s) + 1] = x
    BY AppendProperties
  <1>3. /\ Len(s) \in Nat /\ DOMAIN s = 1..Len(s)
        /\ Len(p) \in Nat /\ DOMAIN p = 1..Len(p)
    BY <1>1, LenProperties
  <1>4. Len(s) <= max => drop = 0 \/ (drop = 1 /\ Len(s) = max)
    <2>1. Len(s) < max => drop = 0
      BY DEF Dropped
    <2>2. Len(s) = max => drop = 1
      BY <1>3 DEF Dropped
    <2> HIDE DEF p, t, drop
    <2>3. Len(s) \in Nat /\ max \in Nat
      BY <1>3
    <2> QED BY <2>1, <2>2, <2>3
  <1> HIDE DEF p, t, drop
  <1>5. ASSUME NEW i \in 1..Len(p) PROVE i + drop \in 1..Len(s) \/ i + drop = Len(s) + 1
    <2>1. Len(s) \in Nat /\ drop \in Nat /\ i \in Nat /\ 1 <= i /\ i <= Len(s) + 1 - drop
      BY <1>1, <1>3
    <2> QED BY <2>1
  <1>6. Range(p) \subseteq Range(s) \cup {x}
    <2> SUFFICES ASSUME NEW i \in 1..Len(p) PROVE p[i] \in Range(s) \cup {x}
      BY <1>3 DEF Range
    <2>1. i + drop \in 1..Len(s) \/ i + drop = Len(s) + 1
      BY <1>5
    <2>2. CASE i + drop \in 1..Len(s)
      <3>1. p[i] = s[i + drop]
        BY <1>1, <1>2, <2>2
      <3> QED BY <1>3, <2>2, <3>1 DEF Range
    <2>3. CASE i + drop = Len(s) + 1
      <3>1. p[i] = x
        BY <1>1, <1>2, <2>3
      <3> QED BY <3>1
    <2> QED BY <2>1, <2>2, <2>3
  <1>7. ASSUME IsInjective(s), x \notin Range(s) PROVE IsInjective(p)
    <2> SUFFICES ASSUME NEW i \in 1..Len(p), NEW j \in 1..Len(p), p[i] = p[j] PROVE i = j
      BY <1>3 DEF IsInjective
    <2>1. t[i + drop] = t[j + drop]
      BY <1>1
    <2>2. \A a, b \in 1..(Len(s) + 1) : t[a] = t[b] => a = b
      <3> SUFFICES ASSUME NEW a \in 1..(Len(s) + 1), NEW b \in 1..(Len(s) + 1), t[a] = t[b]
                   PROVE  a = b
        OBVIOUS
      <3>1. \A k \in 1..Len(s) : t[k] # x
        BY <1>2, <1>3, <1>7 DEF Range
      <3>2. CASE a \in 1..Len(s) /\ b \in 1..Len(s)
        BY <1>2, <1>3, <1>7, <3>2 DEF IsInjective
      <3>3. a \in 1..Len(s) \/ a = Len(s) + 1
        BY <1>3
      <3>4. b \in 1..Len(s) \/ b = Len(s) + 1
        BY <1>3
      <3> QED BY <1>2, <3>1, <3>2, <3>3, <3>4
    <2>3. i + drop \in 1..(Len(s) + 1) /\ j + drop \in 1..(Len(s) + 1)
      BY <1>1, <1>3
    <2>4. i + drop = j + drop
      BY <2>1, <2>2, <2>3
    <2> QED BY <1>1, <1>3, <2>4
  <1>8. ASSUME Len(s) <= max, NEW y \in Range(s) \ Range(p) PROVE Len(s) = max /\ y = s[1]
    <2>1. PICK i \in 1..Len(s) : y = s[i]
      BY <1>3 DEF Range
    <2>2. ~(i - drop \in 1..Len(p))
      <3> SUFFICES ASSUME i - drop \in 1..Len(p) PROVE FALSE
        OBVIOUS
      <3>1. p[i - drop] = t[(i - drop) + drop]
        BY <1>1
      <3>2. (i - drop) + drop = i
        BY <1>1, <1>3
      <3> QED BY <1>2, <1>3, <1>8, <2>1, <3>1, <3>2 DEF Range
    <2>3. i - drop < 1
      BY <1>1, <1>3, <2>2
    <2>4. drop = 1 /\ Len(s) = max /\ i = 1
      <3>1. drop # 0
        BY <1>1, <1>3, <2>3
      <3>2. drop = 1 /\ Len(s) = max
        BY <1>4, <1>8, <3>1
      <3> QED BY <1>3, <2>3, <3>2
    <2> QED BY <2>1, <2>4
  <1> QED BY <1>1, <1>6, <1>7, <1>8 DEF p

\* $pull: from a list without repetitions exactly the one entry goes
LEMMA PullKeeps ==
    ASSUME NEW S, NEW s \in Seq(S), IsInjective(s), NEW x
    PROVE  /\ Pull(s, x) \in Seq(S)
           /\ Len(Pull(s, x)) <= Len(s)
           /\ Range(Pull(s, x)) = Range(s) \ {x}
           /\ IsInjective(Pull(s, x))
  <1>1. Len(s) \in Nat /\ DOMAIN s = 1..Len(s)
    OBVIOUS
  <1>2. CASE \E i \in DOMAIN s : s[i] = x
    <2> DEFINE i == CHOOSE i \in DOMAIN s : s[i] = x
               q == [k \in 1..(Len(s) - 1) |-> IF k < i THEN s[k] ELSE s[k + 1]]
    <2>1. i \in 1..Len(s) /\ s[i] = x
      BY <1>1, <1>2
    <2>2. Pull(s, x) = q
      BY <1>2 DEF Pull
    <2> HIDE DEF i
    <2>3. Len(s) - 1 \in Nat /\ q \in [1..(Len(s) - 1) -> S]
      BY <1>1, <2>1
    <2>4. q \in Seq(S) /\ Len(q) = Len(s) - 1 /\ DOMAIN q = 1..(Len(s) - 1)
      BY <2>3
    <2>5. \A k \in 1..Len(s) : k # i => \E m \in DOMAIN q : q[m] = s[k]
      <3> SUFFICES ASSUME NEW k \in 1..Len(s), k # i PROVE \E m \in DOMAIN q : q[m] = s[k]
        OBVIOUS
      <3>1. CASE k < i
        BY <1>1, <2>1, <2>4, <3>1
      <3>2. CASE k > i
        <4>1. k - 1 \in DOMAIN q /\ q[k - 1] = s[(k - 1) + 1] /\ (k - 1) + 1 = k
          BY <1>1, <2>1, <2>4, <3>2
        <4> QED BY <4>1
      <3> QED BY <1>1, <2>1, <3>1, <3>2
    <2>6. \A m \in DOMAIN q : \E k \in 1..Len(s) : k # i /\ q[m] = s[k] /\ k = (IF m < i THEN m ELSE m + 1)
      BY <1>1, <2>1, <2>4
    <2>7. Range(q) = Range(s) \ {x}
      <3>1. \A m \in DOMAIN q : q[m] \in Range(s) \ {x}
        BY <1>1, <2>1, <2>6 DEF Range, IsInjective
      <3>2. \A k \in 1..Len(s) : s[k] # x => s[k] \in Range(q)
        BY <2>1, <2>5 DEF Range
      <3> QED BY <1>1, <3>1, <3>2 DEF Range
    <2>8. IsInjective(q)
      <3> SUFFICES ASSUME NEW a \in DOMAIN q, NEW b \in DOMAIN q, q[a] = q[b] PROVE a = b
        BY DEF IsInjective
      <3>1. (IF a < i THEN a ELSE a + 1) = (IF b < i THEN b ELSE b + 1)
        BY <1>1, <2>1, <2>4, <2>6 DEF IsInjective
      <3> QED BY <1>1, <2>1, <2>4, <3>1
    <2> HIDE DEF q
    <2>9. Len(q) <= Len(s)
      BY <1>1, <2>4
    <2> QED BY <2>2, <2>4, <2>7, <2>8, <2>9
  <1>3. CASE ~ \E i \in DOMAIN s : s[i] = x
    BY <1>3 DEF Pull, Range
  <1> QED BY <1>2, <1>3

------------------------------------------------------------------------------
(* The inductive invariant *)

Row == [refreshTokens : Seq(Nat), activeAccessJtis : Seq(Nat), tokenVersion : Nat,
        password : Nat, legacyHash : BOOLEAN, resetToken : Nat,
        loginCount : Nat, lastLogin : {"never", "today"}]

Request == [pc : Pcs, tok : Nat, new : Nat, tv : Nat, pw : Nat,
            rts : Seq(Nat), jtis : Seq(Nat)]

\* the row has held all of these tokens, and they fit into it
Listed(s) == Len(s) <= MaxRefresh /\ IsInjective(s) /\ Range(s) \subseteq ever

\* request r has minted a pair that is not stored yet
Minted(r) == req[r].pc \in {"push", "reread", "rotate"}

\* the list a request may write back, and the pair it is to store
Carries(r) == Listed(req[r].rts) /\ (Minted(r) => req[r].new \in Ids \ ever)

\* no two requests have the same new pair
Distinct == \A r, q \in Reqs : Minted(r) /\ Minted(q) /\ req[r].new = req[q].new => r = q

Lists == Listed(row.refreshTokens) /\ Len(row.activeAccessJtis) <= MaxJtis

Inv == TypeOK /\ Lists /\ ever \subseteq Ids /\ Distinct /\ \A r \in Reqs : Carries(r)

LEMMA Constants ==
    /\ MaxRefresh \in Nat \ {0} /\ MaxJtis \in Nat \ {0}
    /\ MaxTokens \in Nat /\ MaxVersion \in Nat /\ LegacyHash \in BOOLEAN
  BY SessionsAssumption

LEMMA Types ==
    TypeOK <=> /\ row \in Row /\ req \in [Reqs -> Request]
               /\ redisTv \in Nat \cup {NoVersion} /\ tokens \in Seq(Token) /\ resets \in Nat
               /\ revoked \subseteq Nat /\ issued \subseteq Nat /\ ever \subseteq Nat
  BY DEF TypeOK, Row, Request

LEMMA IdleType == Idle \in Request /\ Idle.pc = "idle" /\ Idle.rts = <<>>
  BY DEF Idle, Request, Pcs

LEMMA EmptyListed == Listed(<<>>)
  BY Constants DEF Listed, IsInjective, Range

\* a step of one request r: what has to be seen about it
LEMMA RequestStep ==
    ASSUME Inv, TypeOK', NEW r \in Reqs, \A q \in Reqs \ {r} : req'[q] = req[q],
           Lists', Listed(req[r].rts)',
           Len(tokens') \in {Len(tokens), Len(tokens) + 1},
           \/ ever' = ever
           \/ Minted(r) /\ ~Minted(r)' /\ ever' = ever \cup {req[r].new},
           Minted(r)' => \/ Minted(r) /\ req'[r].new = req[r].new
                         \/ Len(tokens') = Len(tokens) + 1 /\ req'[r].new = Len(tokens')
    PROVE  Inv'
  <1>1. /\ Len(tokens) \in Nat /\ Ids \subseteq Ids' /\ Ids = 1..Len(tokens) /\ Ids' = 1..Len(tokens')
        /\ Len(tokens) + 1 \notin Ids
    <2>1. Len(tokens) \in Nat
      BY Types, LenProperties DEF Inv
    <2> QED BY <2>1 DEF Ids
  <1>2. ever' \subseteq Ids'
    BY <1>1 DEF Inv, Carries
  <1>3. ASSUME NEW q \in Reqs PROVE Minted(q)' => \/ Minted(q) /\ req'[q].new = req[q].new
                                                  \/ q = r /\ req'[q].new = Len(tokens) + 1
                                                     /\ Len(tokens) + 1 \in Ids'
    BY <1>1 DEF Minted
  <1>4. \A q \in Reqs : Minted(q) => req[q].new \in Ids \ ever
    BY DEF Inv, Carries
  <1>5. Distinct'
    BY <1>1, <1>3, <1>4 DEF Distinct, Inv
  <1>6. ASSUME NEW q \in Reqs PROVE Minted(q)' => req'[q].new \in Ids' \ ever'
    <2> SUFFICES ASSUME Minted(q)' PROVE req'[q].new \in Ids' \ ever'
      OBVIOUS
    <2>1. CASE Minted(q) /\ req'[q].new = req[q].new
      <3>1. req[q].new \in Ids' \ ever
        BY <1>1, <1>4, <2>1
      <3>2. ever' # ever => req[q].new # req[r].new
        BY <2>1 DEF Inv, Distinct
      <3> QED BY <2>1, <3>1, <3>2
    <2>2. CASE ~(Minted(q) /\ req'[q].new = req[q].new)
      <3>1. q = r /\ req'[q].new = Len(tokens) + 1 /\ Len(tokens) + 1 \in Ids'
        BY <1>3, <2>2
      <3>2. ever' = ever
        BY <3>1
      <3> QED BY <1>1, <3>1, <3>2 DEF Inv
    <2> QED BY <2>1, <2>2
  <1>7. ASSUME NEW q \in Reqs PROVE Carries(q)'
    BY <1>6 DEF Inv, Carries, Listed
  <1> QED BY <1>2, <1>5, <1>7 DEF Inv

\* a step of request r that leaves the row alone
LEMMA ReadStep ==
    ASSUME Inv, NEW r \in Reqs, NEW v \in Request, req' = [req EXCEPT ![r] = v],
           UNCHANGED <<row, ever, resets>>, Listed(v.rts),
           redisTv' \in Nat \cup {NoVersion}, revoked' \subseteq Nat, issued' \subseteq Nat,
           tokens' = tokens \/ \E k \in Token : tokens' = Append(tokens, k),
           v.pc \in {"push", "reread", "rotate"} =>
               \/ Minted(r) /\ v.new = req[r].new
               \/ tokens' # tokens /\ v.new = Len(tokens')
    PROVE  Inv'
  <1>1. TypeOK
    BY DEF Inv
  <1>2. /\ tokens' \in Seq(Token)
        /\ Len(tokens') \in {Len(tokens), Len(tokens) + 1}
        /\ tokens' # tokens => Len(tokens') = Len(tokens) + 1
    BY <1>1, Types, AppendProperties, LenProperties, SMTT(30)
  <1>3. req' \in [Reqs -> Request] /\ req'[r] = v /\ \A q \in Reqs \ {r} : req'[q] = req[q]
    BY <1>1, Types
  <1>4. TypeOK'
    BY <1>1, <1>2, <1>3 DEF TypeOK, Request
  <1>5. Lists' /\ Listed(req[r].rts)'
    BY <1>3 DEF Inv, Lists, Listed
  <1>6. Minted(r)' => \/ Minted(r) /\ req'[r].new = req[r].new
                      \/ Len(tokens') = Len(tokens) + 1 /\ req'[r].new = Len(tokens')
    BY <1>2, <1>3 DEF Minted
  <1> QED BY <1>2, <1>3, <1>4, <1>5, <1>6, RequestStep

\* a step of request r that writes the row
LEMMA WriteStep ==
    ASSUME Inv, NEW r \in Reqs, NEW v \in Request, req' = [req EXCEPT ![r] = v],
           row' \in Row, Lists', Listed(v.rts)', UNCHANGED <<redisTv, revoked, issued, resets>>,
           \/ ever' = ever
           \/ Minted(r) /\ ever' = ever \cup {req[r].new}
              /\ v.pc \notin {"push", "reread", "rotate"},
           tokens' = tokens \/ \E k \in Token : tokens' = Append(tokens, k),
           v.pc \in {"push", "reread", "rotate"} => tokens' # tokens /\ v.new = Len(tokens')
    PROVE  Inv'
  <1>1. TypeOK /\ req[r] \in Request
    BY Types DEF Inv
  <1>2. /\ tokens' \in Seq(Token)
        /\ Len(tokens') \in {Len(tokens), Len(tokens) + 1}
        /\ tokens' # tokens => Len(tokens') = Len(tokens) + 1
    BY <1>1, Types, AppendProperties, LenProperties
  <1>3. req' \in [Reqs -> Request] /\ req'[r] = v /\ \A q \in Reqs \ {r} : req'[q] = req[q]
    BY <1>1, Types
  <1>4. TypeOK'
    BY <1>1, <1>2, <1>3 DEF TypeOK, Request, Row
  <1>5. Listed(req[r].rts)'
    BY <1>3 DEF Listed
  <1>6. Minted(r)' => Len(tokens') = Len(tokens) + 1 /\ req'[r].new = Len(tokens')
    BY <1>2, <1>3 DEF Minted
  <1>7. ever' = ever \/ (Minted(r) /\ ~Minted(r)' /\ ever' = ever \cup {req[r].new})
    BY <1>3 DEF Minted
  <1> QED BY <1>2, <1>3, <1>4, <1>5, <1>6, <1>7, RequestStep

LEMMA Facts ==
    ASSUME Inv, NEW r \in Reqs
    PROVE  /\ row \in Row /\ req[r] \in Request /\ req \in [Reqs -> Request] /\ tokens \in Seq(Token)
           /\ redisTv \in Nat \cup {NoVersion} /\ resets \in Nat
           /\ revoked \subseteq Nat /\ issued \subseteq Nat
           /\ Listed(req[r].rts) /\ Listed(row.refreshTokens)
           /\ Len(tokens) \in Nat
           /\ row.refreshTokens \in Seq(Nat) /\ row.activeAccessJtis \in Seq(Nat)
           /\ Len(row.activeAccessJtis) <= MaxJtis
           /\ row.tokenVersion \in Nat /\ row.password \in Nat /\ row.resetToken \in Nat
  <1>1. TypeOK /\ Lists /\ Carries(r)
    BY DEF Inv
  <1> QED BY <1>1, Types, LenProperties DEF Lists, Carries, Row

\* what the two minting endpoints add to the tokens
LEMMA MintStep ==
    ASSUME Inv, NEW parent \in Nat, NEW tv \in Nat, NEW pw \in Nat, Mint(parent, tv, pw)
    PROVE  /\ \E k \in Token : tokens' = Append(tokens, k)
           /\ tokens' # tokens /\ Len(tokens') = Len(tokens) + 1 /\ Len(tokens') \in Nat
  <1> DEFINE k == [tv |-> tv, pw |-> pw, parent |-> parent]
  <1>1. k \in Token /\ tokens' = Append(tokens, k) /\ tokens \in Seq(Token) /\ Len(tokens) \in Nat
    BY Types, LenProperties DEF Mint, Token, Inv
  <1> HIDE DEF k
  <1>2. Len(tokens') = Len(tokens) + 1
    BY <1>1, AppendProperties
  <1> QED BY <1>1, <1>2

------------------------------------------------------------------------------
(* The steps that read the row or call out *)

LEMMA LoginReadKeeps ==
    ASSUME Inv, NEW r \in Reqs, LoginRead(r)
    PROVE  Inv'
  <1>1. CASE row.legacyHash
    <2> DEFINE v == [Idle EXCEPT !.pc = "rehash", !.tv = row.tokenVersion,
                                 !.pw = row.password, !.rts = row.refreshTokens]
    <2>1. req' = [req EXCEPT ![r] = v] /\ UNCHANGED <<row, ever, resets, redisTv, revoked, issued, tokens>>
      BY <1>1 DEF LoginRead
    <2>2. v \in Request /\ v.pc = "rehash" /\ Listed(v.rts)
      BY Facts, IdleType DEF Request, Pcs
    <2> HIDE DEF v
    <2> QED BY <2>1, <2>2, Facts, ReadStep
  <1>2. CASE ~row.legacyHash
    <2> DEFINE v == [Idle EXCEPT !.pc = "push", !.new = Len(tokens'), !.tv = row.tokenVersion]
    <2>1. req' = [req EXCEPT ![r] = v] /\ UNCHANGED <<row, ever, resets, redisTv, revoked, issued>>
          /\ Mint(0, row.tokenVersion, row.password)
      BY <1>2 DEF LoginRead
    <2>2. /\ \E k \in Token : tokens' = Append(tokens, k)
          /\ tokens' # tokens /\ Len(tokens') \in Nat
      BY <2>1, Facts, MintStep
    <2>3. v \in Request /\ v.new = Len(tokens') /\ v.rts = <<>>
      BY <2>2, Facts, IdleType DEF Request, Pcs
    <2> HIDE DEF v
    <2> QED BY <2>1, <2>2, <2>3, Facts, EmptyListed, ReadStep
  <1> QED BY <1>1, <1>2

LEMMA RefreshReadKeeps ==
    ASSUME Inv, NEW r \in Reqs, NEW t \in issued, RefreshRead(r, t)
    PROVE  Inv'
  <1>0. t \in Nat
    BY Facts
  <1>1. CASE t \notin Stored
    <2> DEFINE v == [Idle EXCEPT !.pc = "invread"]
    <2>1. req' = [req EXCEPT ![r] = v] /\ UNCHANGED <<row, ever, resets, redisTv, revoked, issued, tokens>>
      BY <1>1 DEF RefreshRead
    <2>2. v \in Request /\ v.pc = "invread" /\ v.rts = <<>>
      BY IdleType DEF Request, Pcs
    <2> HIDE DEF v
    <2> QED BY <2>1, <2>2, Facts, EmptyListed, ReadStep
  <1>2. CASE t \in Stored
    <2> DEFINE v == [Idle EXCEPT !.pc = "reread", !.tok = t,
                                 !.new = Len(tokens'), !.tv = row.tokenVersion]
    <2>1. req' = [req EXCEPT ![r] = v] /\ UNCHANGED <<row, ever, resets, redisTv, revoked, issued>>
          /\ Mint(t, row.tokenVersion, row.password)
      BY <1>2 DEF RefreshRead
    <2>2. /\ \E k \in Token : tokens' = Append(tokens, k)
          /\ tokens' # tokens /\ Len(tokens') \in Nat
      BY <1>0, <2>1, Facts, MintStep
    <2>3. v \in Request /\ v.new = Len(tokens') /\ v.rts = <<>>
      BY <1>0, <2>2, Facts, IdleType DEF Request, Pcs
    <2> HIDE DEF v
    <2> QED BY <2>1, <2>2, <2>3, Facts, EmptyListed, ReadStep
  <1> QED BY <1>1, <1>2

LEMMA RotateReadKeeps ==
    ASSUME Inv, NEW r \in Reqs, RotateRead(r)
    PROVE  Inv'
  <1>1. /\ UNCHANGED <<row, ever, resets, redisTv, issued, tokens>>
        /\ req[r].pc = "reread" /\ revoked' \subseteq Nat
    BY Facts DEF RotateRead, MayRevoke, Request
  <1>2. CASE req[r].tok \in Stored
    <2> DEFINE v == [req[r] EXCEPT !.pc = "rotate"]
    <2>1. req' = [req EXCEPT ![r] = v]
      BY <1>2, Facts DEF RotateRead, Goto
    <2>2. v \in Request /\ v.new = req[r].new /\ v.rts = req[r].rts
      BY Facts, IdleType DEF Request, Pcs
    <2> HIDE DEF v
    <2> QED BY <1>1, <2>1, <2>2, Facts, ReadStep DEF Minted
  <1>3. CASE req[r].tok \notin Stored
    <2> DEFINE v == [Idle EXCEPT !.pc = "invread"]
    <2>1. req' = [req EXCEPT ![r] = v]
      BY <1>3 DEF RotateRead
    <2>2. v \in Request /\ v.pc = "invread" /\ v.rts = <<>>
      BY IdleType DEF Request, Pcs
    <2> HIDE DEF v
    <2> QED BY <1>1, <2>1, <2>2, Facts, EmptyListed, ReadStep
  <1> QED BY <1>2, <1>3

LEMMA InvalidateReadKeeps ==
    ASSUME Inv, NEW r \in Reqs, InvalidateRead(r)
    PROVE  Inv'
  <1> DEFINE v == [Idle EXCEPT !.pc = "invsave", !.tv = row.tokenVersion]
  <1>1. /\ req' = [req EXCEPT ![r] = v] /\ UNCHANGED <<row, ever, resets, redisTv, issued, tokens>>
        /\ RevokeAll(row.activeAccessJtis)
    BY DEF InvalidateRead
  <1>2. v \in Request /\ v.pc = "invsave" /\ v.rts = <<>>
    BY Facts, IdleType DEF Request, Pcs
  <1> HIDE DEF v
  <1>3. revoked' \subseteq Nat
    <2>1. Range(row.activeAccessJtis) \subseteq Nat
      BY Facts, LenProperties, ElementOfSeq DEF Range
    <2> QED BY <1>1, <2>1, Facts DEF RevokeAll
  <1> QED BY <1>1, <1>2, <1>3, Facts, EmptyListed, ReadStep

LEMMA LogoutReadKeeps ==
    ASSUME Inv, NEW r \in Reqs, NEW t \in issued, LogoutRead(r, t)
    PROVE  Inv'
  <1> DEFINE v == [Idle EXCEPT !.pc = IF t \in Stored THEN "logoutsave" ELSE "logoutrevoke",
                               !.tok = t,
                               !.rts = IF t \in Stored THEN row.refreshTokens ELSE <<>>]
  <1>1. req' = [req EXCEPT ![r] = v] /\ UNCHANGED <<row, ever, resets, redisTv, revoked, issued, tokens>>
    BY DEF LogoutRead
  <1>2. /\ v \in Request /\ v.pc \in {"logoutsave", "logoutrevoke"}
        /\ v.rts \in {row.refreshTokens, <<>>}
    <2>1. t \in Nat
      BY Facts
    <2> QED BY <2>1, Facts, IdleType DEF Request, Pcs
  <1> HIDE DEF v
  <1> QED BY <1>1, <1>2, Facts, EmptyListed, ReadStep

LEMMA ResetReadKeeps ==
    ASSUME Inv, NEW r \in Reqs, ResetRead(r)
    PROVE  Inv'
  <1> DEFINE v == [Idle EXCEPT !.pc = "pubset", !.tv = row.tokenVersion,
                               !.pw = row.resetToken, !.jtis = row.activeAccessJtis]
  <1>1. req' = [req EXCEPT ![r] = v] /\ UNCHANGED <<row, ever, resets, redisTv, revoked, issued, tokens>>
    BY DEF ResetRead
  <1>2. v \in Request /\ v.pc = "pubset" /\ v.rts = <<>>
    BY Facts, IdleType DEF Request, Pcs
  <1> HIDE DEF v
  <1> QED BY <1>1, <1>2, Facts, EmptyListed, ReadStep

LEMMA PublishKeeps ==
    ASSUME Inv, NEW r \in Reqs,
           \/ PublishAndRespond(r) \/ InvalidatePublish(r) \/ LogoutRevoke(r) \/ Abort(r)
    PROVE  Inv'
  <1>1. /\ req' = [req EXCEPT ![r] = Idle] /\ UNCHANGED <<row, ever, resets, tokens>>
        /\ redisTv' \in {redisTv, req[r].tv}
        /\ issued' \in {issued, issued \cup {req[r].new}}
        /\ revoked' \in {revoked, revoked \cup {req[r].tok}}
    BY DEF PublishAndRespond, InvalidatePublish, LogoutRevoke, Abort, SetRedisTv, MayRevoke, Finish
  <1>2. req[r].tv \in Nat /\ req[r].new \in Nat /\ req[r].tok \in Nat
    BY Facts DEF Request
  <1> QED BY <1>1, <1>2, Facts, EmptyListed, IdleType, ReadStep

LEMMA ResetPublishKeeps ==
    ASSUME Inv, NEW r \in Reqs, ResetPublishSet(r) \/ ResetPublishGet(r)
    PROVE  Inv'
  <1>1. req[r].tv + 1 \in Nat /\ Range(req[r].jtis) \subseteq Nat /\ req[r].jtis \in Seq(Nat)
    <2>1. req[r].tv \in Nat /\ req[r].jtis \in Seq(Nat)
      BY Facts DEF Request
    <2> QED BY <2>1, LenProperties, ElementOfSeq DEF Range
  <1>2. CASE ResetPublishSet(r)
    <2> DEFINE v == [req[r] EXCEPT !.pc = "pubget"]
    <2>1. /\ req' = [req EXCEPT ![r] = v] /\ redisTv' \in {redisTv, req[r].tv + 1}
          /\ UNCHANGED <<row, ever, resets, tokens, issued, revoked>>
      BY <1>2, Facts DEF ResetPublishSet, Goto, SetRedisTv
    <2>2. v \in Request /\ v.pc = "pubget" /\ v.rts = req[r].rts
      BY Facts, IdleType DEF Request, Pcs
    <2> HIDE DEF v
    <2> QED BY <1>1, <2>1, <2>2, Facts, ReadStep
  <1>3. CASE ResetPublishGet(r) /\ req' = Finish(r) /\ UNCHANGED revoked
    <2>1. req' = [req EXCEPT ![r] = Idle] /\ UNCHANGED <<row, ever, resets, tokens, issued, redisTv, revoked>>
      BY <1>3 DEF ResetPublishGet, Finish
    <2> QED BY <2>1, Facts, EmptyListed, IdleType, ReadStep
  <1>4. CASE ResetPublishGet(r) /\ RevokeAll(req[r].jtis)
             /\ req' = [req EXCEPT ![r].pc = "resetsave", ![r].jtis = <<>>]
    <2> DEFINE v == [req[r] EXCEPT !.pc = "resetsave", !.jtis = <<>>]
    <2>1. /\ req' = [req EXCEPT ![r] = v]
          /\ UNCHANGED <<row, ever, resets, tokens, issued, redisTv>>
      BY <1>4, Facts DEF ResetPublishGet
    <2>2. v \in Request /\ v.pc = "resetsave" /\ v.rts = req[r].rts
      BY Facts, IdleType DEF Request, Pcs
    <2>3. revoked' \subseteq Nat
      BY <1>1, <1>4, Facts DEF RevokeAll
    <2> HIDE DEF v
    <2> QED BY <2>1, <2>2, <2>3, Facts, ReadStep
  <1> QED BY <1>2, <1>3, <1>4 DEF ResetPublishGet

------------------------------------------------------------------------------
(* The steps that write the row *)

\* storing a new pair, with the old one pulled or not
LEMMA StoreStep ==
    ASSUME Inv, NEW r \in Reqs, Minted(r), row' \in Row, ever' = ever \cup {req[r].new},
           row'.activeAccessJtis = PushSlice(row.activeAccessJtis, req[r].new, MaxJtis),
           \/ row'.refreshTokens = PushSlice(row.refreshTokens, req[r].new, MaxRefresh)
           \/ row'.refreshTokens = PushPull(row.refreshTokens, req[r].new, req[r].tok, MaxRefresh),
           req' = Goto(r, "publish"), UNCHANGED <<redisTv, revoked, issued, resets, tokens>>
    PROVE  Inv'
  <1> DEFINE n == req[r].new
             p == PushSlice(row.refreshTokens, n, MaxRefresh)
             q == PushSlice(row.activeAccessJtis, n, MaxJtis)
  <1>1. n \in Nat /\ n \notin ever
    BY Facts DEF Inv, Carries, Request
  <1>2. /\ p \in Seq(Nat) /\ Len(p) <= MaxRefresh /\ IsInjective(p)
        /\ Range(p) \subseteq ever \cup {n}
    <2>1. /\ row.refreshTokens \in Seq(Nat) /\ IsInjective(row.refreshTokens)
          /\ Range(row.refreshTokens) \subseteq ever
      BY Facts DEF Listed
    <2>2. n \notin Range(row.refreshTokens)
      BY <1>1, <2>1
    <2> HIDE DEF n
    <2>3. /\ p \in Seq(Nat) /\ Len(p) <= MaxRefresh
          /\ Range(p) \subseteq Range(row.refreshTokens) \cup {n}
          /\ IsInjective(row.refreshTokens) /\ n \notin Range(row.refreshTokens) => IsInjective(p)
      BY <1>1, <2>1, PushSliceKeeps, Constants
    <2> QED BY <2>1, <2>2, <2>3
  <1>3. Len(q) <= MaxJtis
    BY <1>1, Facts, PushSliceKeeps, Constants, ZenonT(60)
  <1>4. PICK v \in Request : /\ req' = [req EXCEPT ![r] = v]
                             /\ v.pc = "publish" /\ v.rts = req[r].rts
    <2> DEFINE u == [req[r] EXCEPT !.pc = "publish"]
    <2>1. req' = [req EXCEPT ![r] = u]
      BY Facts DEF Goto
    <2>2. u \in Request /\ u.pc = "publish" /\ u.rts = req[r].rts
      BY Facts DEF Request, Pcs
    <2> QED BY <2>1, <2>2
  <1>5. v.rts = req[r].rts
    BY <1>4
  <1> HIDE DEF p, q, n
  <1>6. /\ Len(row'.refreshTokens) <= MaxRefresh /\ IsInjective(row'.refreshTokens)
        /\ Range(row'.refreshTokens) \subseteq ever'
    <2>1. CASE row'.refreshTokens = p
      BY <1>2, <2>1 DEF n
    <2>2. CASE row'.refreshTokens = Pull(p, req[r].tok)
      <3>1. /\ Len(Pull(p, req[r].tok)) <= Len(p) /\ IsInjective(Pull(p, req[r].tok))
            /\ Range(Pull(p, req[r].tok)) = Range(p) \ {req[r].tok}
            /\ Pull(p, req[r].tok) \in Seq(Nat)
        BY <1>2, PullKeeps
      <3>2. Len(Pull(p, req[r].tok)) \in Nat /\ Len(p) \in Nat
        BY <1>2, <3>1, LenProperties
      <3> QED BY <1>2, <2>2, <3>1, <3>2, Constants DEF n
    <2> QED BY <2>1, <2>2 DEF PushPull, p, n
  <1>7. Lists'
    BY <1>3, <1>6 DEF Lists, Listed, q, n
  <1>8. Listed(v.rts)'
    BY <1>5, Facts DEF Listed
  <1> QED BY <1>4, <1>5, <1>7, <1>8, WriteStep

LEMMA StoresKeep ==
    ASSUME Inv, NEW r \in Reqs, PersistSessionTokens(r) \/ RotateWrite(r)
    PROVE  Inv'
  <1> DEFINE n == req[r].new
             q == PushSlice(row.activeAccessJtis, n, MaxJtis)
             p == PushSlice(row.refreshTokens, n, MaxRefresh)
             t == PushPull(row.refreshTokens, n, req[r].tok, MaxRefresh)
  <1>1. n \in Nat /\ req[r].tok \in Nat
    BY Facts DEF Request
  <1>2. p \in Seq(Nat) /\ q \in Seq(Nat)
    BY <1>1, Facts, PushSliceKeeps, Constants, ZenonT(60)
  <1>3. CASE PersistSessionTokens(r)
    <2>1. row' = [row EXCEPT !.refreshTokens = p, !.activeAccessJtis = q]
      BY <1>3 DEF PersistSessionTokens
    <2> HIDE DEF p, q
    <2>2. row' \in Row /\ row'.refreshTokens = p /\ row'.activeAccessJtis = q
      BY <1>2, <2>1, Facts DEF Row
    <2> QED BY <1>3, <2>2, StoreStep DEF PersistSessionTokens, Minted, Remember, p, q
  <1>4. CASE RotateWrite(r)
    <2>1. row' = [row EXCEPT !.refreshTokens = t, !.activeAccessJtis = q]
      BY <1>4 DEF RotateWrite
    <2>2. t \in Seq(Nat)
      <3>1. IsInjective(p)
        <4>1. n \notin ever
          BY <1>4 DEF RotateWrite, Minted, Inv, Carries
        <4>2. /\ row.refreshTokens \in Seq(Nat) /\ IsInjective(row.refreshTokens)
              /\ n \notin Range(row.refreshTokens)
          BY <4>1, Facts DEF Listed
        <4> HIDE DEF n
        <4> QED BY <1>1, <4>2, PushSliceKeeps, Constants
      <3> QED BY <1>2, <3>1, PullKeeps DEF PushPull
    <2> HIDE DEF t, q
    <2>3. row' \in Row /\ row'.refreshTokens = t /\ row'.activeAccessJtis = q
      BY <1>2, <2>1, <2>2, Facts DEF Row
    <2> QED BY <1>4, <2>3, StoreStep DEF RotateWrite, Minted, Remember, t, q
  <1> QED BY <1>3, <1>4

\* the list a login or a logout writes back was in the row once
LEMMA LoginRehashKeeps ==
    ASSUME Inv, NEW r \in Reqs, LoginRehash(r)
    PROVE  Inv'
  <1>1. PICK tv \in {row.tokenVersion, req[r].tv} :
            /\ \/ row' = [row EXCEPT !.password = req[r].pw, !.legacyHash = FALSE,
                                     !.refreshTokens = req[r].rts]
               \/ UNCHANGED row
            /\ Mint(0, tv, req[r].pw)
            /\ req' = [req EXCEPT ![r] = [Idle EXCEPT !.pc = "push", !.new = Len(tokens'), !.tv = tv]]
    BY DEF LoginRehash
  <1>2. /\ UNCHANGED <<redisTv, revoked, issued, resets, ever>>
    BY DEF LoginRehash
  <1> DEFINE v == [Idle EXCEPT !.pc = "push", !.new = Len(tokens'), !.tv = tv]
  <1>3. tv \in Nat /\ req[r].pw \in Nat /\ req[r].rts \in Seq(Nat)
    BY Facts DEF Request
  <1>4. /\ \E k \in Token : tokens' = Append(tokens, k)
        /\ tokens' # tokens /\ Len(tokens') \in Nat
    BY <1>1, <1>3, MintStep
  <1>5. v \in Request /\ v.new = Len(tokens') /\ v.rts = <<>>
    BY <1>3, <1>4, IdleType DEF Request, Pcs
  <1>6. /\ row' \in Row /\ row'.activeAccessJtis = row.activeAccessJtis
        /\ row'.refreshTokens \in {req[r].rts, row.refreshTokens}
    BY <1>1, <1>3, Facts DEF Row
  <1>7. Lists' /\ Listed(<<>>)'
    BY <1>2, <1>6, Facts, EmptyListed DEF Lists, Listed
  <1> HIDE DEF v
  <1> QED BY <1>1, <1>2, <1>4, <1>5, <1>6, <1>7, WriteStep DEF v

LEMMA LogoutSaveKeeps ==
    ASSUME Inv, NEW r \in Reqs, LogoutSave(r)
    PROVE  Inv'
  <1> DEFINE v == [Idle EXCEPT !.pc = "logoutrevoke", !.tok = req[r].tok]
             q == Pull(req[r].rts, req[r].tok)
  <1>1. /\ row' = [row EXCEPT !.refreshTokens = q] /\ req' = [req EXCEPT ![r] = v]
        /\ UNCHANGED <<redisTv, revoked, tokens, issued, resets, ever>>
    BY DEF LogoutSave
  <1>2. req[r].rts \in Seq(Nat) /\ req[r].tok \in Nat /\ IsInjective(req[r].rts)
        /\ Len(req[r].rts) \in Nat /\ Len(req[r].rts) <= MaxRefresh /\ Range(req[r].rts) \subseteq ever
    <2>1. req[r].rts \in Seq(Nat) /\ req[r].tok \in Nat
      BY Facts DEF Request
    <2> QED BY <2>1, Facts, LenProperties DEF Listed
  <1>3. q \in Seq(Nat) /\ Len(q) <= Len(req[r].rts) /\ IsInjective(q) /\ Range(q) \subseteq ever
    BY <1>2, PullKeeps
  <1>4. v \in Request /\ v.pc = "logoutrevoke" /\ v.rts = <<>>
    BY <1>2, IdleType DEF Request, Pcs
  <1> HIDE DEF v, q
  <1>5. Len(q) \in Nat
    BY <1>3, LenProperties
  <1>6. row' \in Row /\ row'.refreshTokens = q /\ row'.activeAccessJtis = row.activeAccessJtis
    BY <1>1, <1>3, Facts DEF Row
  <1>7. Lists' /\ Listed(<<>>)'
    BY <1>1, <1>2, <1>3, <1>5, <1>6, Facts, EmptyListed, Constants DEF Lists, Listed
  <1> QED BY <1>1, <1>4, <1>6, <1>7, WriteStep

LEMMA SavesKeep ==
    ASSUME Inv, NEW r \in Reqs, InvalidateSave(r) \/ ResetSave(r)
    PROVE  Inv'
  <1>1. req[r].tv \in Nat /\ req[r].tv + 1 \in Nat /\ req[r].pw \in Nat
    <2>1. req[r].tv \in Nat /\ req[r].pw \in Nat
      BY Facts DEF Request
    <2> QED BY <2>1
  <1>2. \E v \in Request : /\ req' = [req EXCEPT ![r] = v] /\ v.rts = <<>>
                           /\ v.pc \in {"idle", "invpublish"}
    <2>1. CASE ResetSave(r)
      BY <2>1, IdleType DEF ResetSave, Finish
    <2>2. CASE InvalidateSave(r)
      <3> DEFINE v == [Idle EXCEPT !.pc = "invpublish", !.tv = req[r].tv + 1]
      <3>1. req' = [req EXCEPT ![r] = v]
        BY <2>2 DEF InvalidateSave
      <3>2. v \in Request /\ v.rts = <<>> /\ v.pc = "invpublish"
        BY <1>1, IdleType DEF Request, Pcs
      <3> QED BY <3>1, <3>2
    <2> QED BY <2>1, <2>2
  <1>3. /\ row' \in Row /\ row'.refreshTokens = <<>> /\ row'.activeAccessJtis = <<>>
        /\ UNCHANGED <<redisTv, revoked, tokens, issued, resets, ever>>
    <2>0. row \in Row /\ <<>> \in Seq(Nat)
      BY Facts, EmptySeq
    <2>1. CASE ResetSave(r)
      <3>1. /\ row' = [row EXCEPT !.password = req[r].pw, !.legacyHash = FALSE, !.resetToken = 0,
                                  !.refreshTokens = <<>>, !.activeAccessJtis = <<>>,
                                  !.tokenVersion = req[r].tv + 1]
            /\ UNCHANGED <<redisTv, revoked, tokens, issued, resets, ever>>
        BY <2>1 DEF ResetSave
      <3>2. \A pw, tv \in Nat :
              LET u == [row EXCEPT !.password = pw, !.legacyHash = FALSE, !.resetToken = 0,
                                   !.refreshTokens = <<>>, !.activeAccessJtis = <<>>,
                                   !.tokenVersion = tv]
              IN  u \in Row /\ u.refreshTokens = <<>> /\ u.activeAccessJtis = <<>>
        BY <2>0 DEF Row
      <3> QED BY <1>1, <3>1, <3>2
    <2>2. CASE InvalidateSave(r)
      <3>1. /\ row' = [row EXCEPT !.refreshTokens = <<>>, !.activeAccessJtis = <<>>,
                                  !.tokenVersion = req[r].tv + 1]
            /\ UNCHANGED <<redisTv, revoked, tokens, issued, resets, ever>>
        BY <2>2 DEF InvalidateSave
      <3>2. \A tv \in Nat :
              LET u == [row EXCEPT !.refreshTokens = <<>>, !.activeAccessJtis = <<>>,
                                   !.tokenVersion = tv]
              IN  u \in Row /\ u.refreshTokens = <<>> /\ u.activeAccessJtis = <<>>
        BY <2>0 DEF Row
      <3> QED BY <1>1, <3>1, <3>2
    <2> QED BY <2>1, <2>2
  <1>4. Lists' /\ Listed(<<>>)'
    BY <1>3, EmptyListed, Constants DEF Lists, Listed
  <1> QED BY <1>2, <1>3, <1>4, WriteStep

LEMMA RequestPasswordResetKeeps ==
    ASSUME Inv, RequestPasswordReset \/ UNCHANGED vars
    PROVE  Inv'
  <1>1. TypeOK
    BY DEF Inv
  <1>2. /\ UNCHANGED <<req, redisTv, revoked, tokens, issued, ever>> /\ resets' \in Nat
        /\ row' \in Row /\ row'.refreshTokens = row.refreshTokens
        /\ row'.activeAccessJtis = row.activeAccessJtis
    <2>1. CASE UNCHANGED vars
      BY <1>1, <2>1, Types DEF vars
    <2>2. CASE RequestPasswordReset
      <3>1. resets + 1 \in Nat /\ resets' = resets + 1 /\ row \in Row
            /\ row' = [row EXCEPT !.resetToken = resets + 1]
        BY <1>1, <2>2, Types DEF RequestPasswordReset
      <3> QED BY <2>2, <3>1 DEF RequestPasswordReset, Row
    <2> QED BY <2>1, <2>2
  <1>3. TypeOK'
    BY <1>1, <1>2 DEF TypeOK, Row
  <1>4. Lists' /\ ever' \subseteq Ids' /\ Distinct' /\ \A r \in Reqs : Carries(r)'
    BY <1>2 DEF Inv, Lists, Listed, Ids, Distinct, Minted, Carries
  <1> QED BY <1>3, <1>4 DEF Inv

------------------------------------------------------------------------------
(* The theorems *)

LEMMA InitInv == Init => Inv
  <1> SUFFICES ASSUME Init PROVE Inv
    OBVIOUS
  <1>1. /\ row \in Row /\ row.refreshTokens = <<>> /\ row.activeAccessJtis = <<>>
        /\ req = [r \in Reqs |-> Idle] /\ redisTv = NoVersion /\ revoked = {} /\ tokens = <<>>
        /\ issued = {} /\ resets = 0 /\ ever = {}
    BY Constants DEF Init, Row
  <1>2. TypeOK
    BY <1>1, IdleType, Types
  <1>3. Lists /\ \A r \in Reqs : Carries(r)
    BY <1>1, IdleType, EmptyListed, Constants DEF Lists, Carries, Minted
  <1>4. Distinct /\ ever \subseteq Ids
    BY <1>1, IdleType DEF Distinct, Minted
  <1> QED BY <1>2, <1>3, <1>4 DEF Inv

LEMMA NextInv == Inv /\ [Next]_vars => Inv'
  BY LoginReadKeeps, RefreshReadKeeps, RotateReadKeeps, InvalidateReadKeeps, LogoutReadKeeps,
     ResetReadKeeps, PublishKeeps, ResetPublishKeeps, StoresKeep, LoginRehashKeeps,
     LogoutSaveKeeps, SavesKeep, RequestPasswordResetKeeps DEF Next

LEMMA AlwaysInv == Spec => []Inv
  BY InitInv, NextInv, PTL DEF Spec

\* The variables keep their types.
THEOREM TypeCorrect == Spec => []TypeOK
  <1>1. Inv => TypeOK
    BY DEF Inv
  <1> QED BY <1>1, AlwaysInv, PTL

\* MAX_REFRESH and MAX_JTIS hold and no session is stored twice, whatever stale
\* lists concurrent logouts and rehashes write back (user.save, applyUpdate).
THEOREM Bounded == Spec => []SessionsBounded
  <1>1. Inv => SessionsBounded
    BY DEF Inv, Lists, Listed, SessionsBounded
  <1> QED BY <1>1, AlwaysInv, PTL

------------------------------------------------------------------------------
(* What a step does to the stored tokens *)

\* the steps by what they do to the list
LEMMA ListSteps ==
    ASSUME Inv, [Next]_vars
    PROVE  \/ row'.refreshTokens \in {row.refreshTokens, <<>>}
           \/ \E r \in Reqs : PersistSessionTokens(r) \/ RotateWrite(r)
           \/ \E r \in Reqs : req[r].pc \in {"logoutsave", "rehash"}
                              /\ req'[r].pc \in {"logoutrevoke", "push"}
  <1>0. TypeOK /\ row \in Row /\ req \in [Reqs -> Request]
    BY Types DEF Inv
  <1>1. CASE UNCHANGED row
    BY <1>1
  <1>2. CASE RequestPasswordReset
    BY <1>0, <1>2 DEF RequestPasswordReset, Row
  <1>3. ASSUME NEW r \in Reqs, InvalidateSave(r) \/ ResetSave(r)
        PROVE  row'.refreshTokens = <<>>
    BY <1>0, <1>3 DEF InvalidateSave, ResetSave, Row
  <1>4. ASSUME NEW r \in Reqs, LogoutSave(r)
        PROVE  req[r].pc = "logoutsave" /\ req'[r].pc = "logoutrevoke"
    BY <1>0, <1>4, IdleType DEF LogoutSave, Request
  <1>5. ASSUME NEW r \in Reqs, LoginRehash(r)
        PROVE  req[r].pc = "rehash" /\ req'[r].pc = "push"
    BY <1>0, <1>5, IdleType DEF LoginRehash, Request
  <1> QED BY <1>1, <1>2, <1>3, <1>4, <1>5, ZenonT(30)
          DEF Next, vars, LoginRead, PublishAndRespond, RefreshRead, LogoutRead, RotateRead,
              InvalidateRead, InvalidatePublish, LogoutRevoke, ResetRead, ResetPublishSet,
              ResetPublishGet, Abort

\* a new pair displaces the pair it replaces, or the oldest of a full list
LEMMA StoreEffect ==
    ASSUME Inv, NEW r \in Reqs, PersistSessionTokens(r) \/ RotateWrite(r)
    PROVE  /\ Range(row'.refreshTokens) \subseteq Stored \cup {req[r].new}
           /\ req[r].new \notin ever
           /\ \A t \in Stored \ Range(row'.refreshTokens) :
                  \/ t = req[r].tok
                  \/ Len(row.refreshTokens) = MaxRefresh /\ t = Head(row.refreshTokens)
  <1> DEFINE n == req[r].new
             s == row.refreshTokens
             p == PushSlice(s, n, MaxRefresh)
  <1>1. n \in Nat /\ n \notin ever
    BY Facts DEF Inv, Carries, Request, Minted, PersistSessionTokens, RotateWrite
  <1>2. s \in Seq(Nat) /\ Len(s) <= MaxRefresh /\ IsInjective(s) /\ n \notin Range(s)
    BY <1>1, Facts DEF Listed
  <1>3. row'.refreshTokens = p \/ row'.refreshTokens = Pull(p, req[r].tok)
    BY Facts DEF Row, PersistSessionTokens, RotateWrite, PushPull
  <1> HIDE DEF n, s
  <1>4. /\ p \in Seq(Nat) /\ IsInjective(p) /\ Range(p) \subseteq Range(s) \cup {n}
        /\ \A y \in Range(s) \ Range(p) : Len(s) = MaxRefresh /\ y = s[1]
    BY <1>1, <1>2, PushSliceKeeps, Constants
  <1> HIDE DEF p
  <1>5. Range(Pull(p, req[r].tok)) = Range(p) \ {req[r].tok}
    BY <1>4, PullKeeps
  <1>6. Head(s) = s[1]
    BY <1>2
  <1> QED BY <1>1, <1>3, <1>4, <1>5, <1>6 DEF n, s, Stored

\* only a rotation's own write takes it from "rotate" to "publish"
LEMMA RotateSteps ==
    ASSUME Inv, [Next]_vars, NEW r \in Reqs, req[r].pc = "rotate", req'[r].pc = "publish"
    PROVE  RotateWrite(r)
  <1>0. req \in [Reqs -> Request]
    BY Types DEF Inv
  <1>1. req' # req
    OBVIOUS
  <1>2. PICK q \in Reqs :
            \/ LoginRead(q) \/ LoginRehash(q) \/ PersistSessionTokens(q) \/ PublishAndRespond(q)
            \/ \E t \in issued : RefreshRead(q, t) \/ LogoutRead(q, t)
            \/ RotateRead(q) \/ RotateWrite(q)
            \/ InvalidateRead(q) \/ InvalidateSave(q) \/ InvalidatePublish(q)
            \/ LogoutSave(q) \/ LogoutRevoke(q)
            \/ ResetRead(q) \/ ResetPublishSet(q) \/ ResetPublishGet(q) \/ ResetSave(q)
            \/ Abort(q)
    BY <1>1 DEF Next, vars, RequestPasswordReset
  <1>3. \A x \in Reqs \ {q} : req'[x] = req[x]
    <2>1. CASE LoginRead(q) \/ LoginRehash(q)
      BY <1>0, <2>1 DEF LoginRead, LoginRehash
    <2>2. CASE \/ PersistSessionTokens(q) \/ RotateWrite(q) \/ RotateRead(q) \/ ResetPublishSet(q)
               \/ ResetPublishGet(q)
      BY <1>0, <2>2 DEF PersistSessionTokens, RotateWrite, RotateRead, ResetPublishSet,
                        ResetPublishGet, Goto, Finish
    <2>3. CASE \E t \in issued : RefreshRead(q, t) \/ LogoutRead(q, t)
      BY <1>0, <2>3 DEF RefreshRead, LogoutRead
    <2>4. CASE \/ PublishAndRespond(q) \/ InvalidatePublish(q) \/ LogoutRevoke(q) \/ Abort(q)
               \/ ResetSave(q)
      BY <1>0, <2>4 DEF PublishAndRespond, InvalidatePublish, LogoutRevoke, Abort, ResetSave, Finish
    <2>5. CASE InvalidateRead(q) \/ InvalidateSave(q) \/ LogoutSave(q) \/ ResetRead(q)
      BY <1>0, <2>5 DEF InvalidateRead, InvalidateSave, LogoutSave, ResetRead
    <2> QED BY <1>2, <2>1, <2>2, <2>3, <2>4, <2>5
  <1>4. q = r
    BY <1>3
  <1>5. Abort(q) => req'[r].pc = "idle"
    BY <1>0, <1>4, IdleType DEF Abort, Finish
  <1>6. req[q].pc = "rotate" /\ ~Abort(q)
    BY <1>4, <1>5
  <1> QED BY <1>2, <1>4, <1>6, ZenonT(30)
          DEF LoginRead, LoginRehash, PersistSessionTokens, PublishAndRespond, RefreshRead,
              LogoutRead, RotateRead, InvalidateRead, InvalidateSave, InvalidatePublish,
              LogoutSave, LogoutRevoke, ResetRead, ResetPublishSet, ResetPublishGet, ResetSave

\* A refresh token that left the row is never stored again, but by the two writers
\* of whole lists, logout and the rehash of a legacy password (user.save): a login
\* or a rotation that was delayed across any number of other requests stores a
\* token the row has never held.
THEOREM TokensStayGone == Spec => NoResurrection
  <1>1. Inv /\ [Next]_vars =>
            [(\A r \in Reqs : req[r].pc \in {"logoutsave", "rehash"} => req'[r] = req[r])
              => \A t \in Range(row'.refreshTokens) : t \in Stored \/ t \notin ever]_vars
    <2> SUFFICES ASSUME Inv, [Next]_vars,
                        \A r \in Reqs : req[r].pc \in {"logoutsave", "rehash"} => req'[r] = req[r],
                        NEW t \in Range(row'.refreshTokens)
                 PROVE  t \in Stored \/ t \notin ever
      OBVIOUS
    <2>1. CASE row'.refreshTokens \in {row.refreshTokens, <<>>}
      BY <2>1 DEF Stored, Range
    <2>2. CASE \E r \in Reqs : PersistSessionTokens(r) \/ RotateWrite(r)
      BY <2>2, StoreEffect
    <2> QED BY <2>1, <2>2, ListSteps
  <1> QED BY <1>1, AlwaysInv, PTL DEF NoResurrection, Spec

\* A rotation ends the session it replaces and no other; a full list also loses its
\* oldest entry (rotateSessionTokens: $push before $pull).
THEOREM RotationIsLocal == Spec => RotationSparesOthers
  <1>1. Inv /\ [Next]_vars =>
            [\A r \in Reqs : req[r].pc = "rotate" /\ req'[r].pc = "publish" =>
                \A t \in Stored \ Range(row'.refreshTokens) :
                    \/ t = req[r].tok
                    \/ Len(row.refreshTokens) = MaxRefresh /\ t = Head(row.refreshTokens)]_vars
    BY RotateSteps, StoreEffect
  <1> QED BY <1>1, AlwaysInv, PTL DEF RotationSparesOthers, Spec

------------------------------------------------------------------------------
(* One request at a time: what the service promises as long as no two          *)
(* requests of the account overlap, with every failure the model has           *)

\* there is one request
OneAtATime == \A r, q \in Reqs : r = q

\* pairs were minted for versions that the row has had, from tokens it has stored
Pairs == \A t \in Ids : /\ tokens[t].tv <= row.tokenVersion
                        /\ tokens[t].parent \in ever \cup {0}

\* what has been handed out: of every parent one pair, and the parent is gone
HandedOut == /\ issued \subseteq ever
             /\ \A t \in issued : tokens[t].parent \notin Stored
             /\ RefreshTokenSingleUse

\* the access tokens that are tracked belong to the current version
Tracked == /\ Range(row.activeAccessJtis) \subseteq ever
           /\ \A t \in Range(row.activeAccessJtis) : tokens[t].tv = row.tokenVersion

\* what request r has read is what the row still says
Current(r) ==
    /\ req[r].pc \notin {"idle", "invread", "logoutsave", "logoutrevoke"} =>
           req[r].tv = row.tokenVersion
    /\ req[r].pc = "rehash" => req[r].pw = row.password
    /\ req[r].pc \in {"rehash", "logoutsave"} => req[r].rts = row.refreshTokens
    /\ Minted(r) => /\ req[r].new = Len(tokens)
                    /\ tokens[req[r].new].pw = row.password
                    /\ tokens[req[r].new].tv = row.tokenVersion
    /\ req[r].pc = "push" => tokens[req[r].new].parent = 0
    /\ req[r].pc \in {"reread", "rotate"} => /\ tokens[req[r].new].parent = req[r].tok
                                             /\ req[r].tok \in Stored
    /\ req[r].pc = "publish" =>
           LET parent == tokens[req[r].new].parent IN
           /\ req[r].new \in ever /\ parent \notin Stored
           /\ \A u \in issued : tokens[u].parent = parent /\ parent # 0 => u = req[r].new

SerialInv == /\ Pairs /\ HandedOut /\ Tracked /\ ResetEndsOldSessions
             /\ \A r \in Reqs : Current(r)

LEMMA SerialFacts ==
    ASSUME Inv
    PROVE  /\ Len(tokens) \in Nat /\ Ids = 1..Len(tokens)
           /\ \A t \in Ids : tokens[t] \in Token /\ tokens[t].tv \in Nat
           /\ Stored \subseteq ever /\ ever \subseteq Ids /\ 0 \notin ever
           /\ row \in Row /\ req \in [Reqs -> Request] /\ tokens \in Seq(Token)
           /\ row.tokenVersion \in Nat
  <1>1. TypeOK /\ Lists /\ ever \subseteq Ids
    BY DEF Inv
  <1>2. tokens \in Seq(Token) /\ Len(tokens) \in Nat /\ \A t \in 1..Len(tokens) : tokens[t] \in Token
    BY <1>1, Types, LenProperties, ElementOfSeq
  <1>3. /\ Ids = 1..Len(tokens) /\ ever \subseteq Ids /\ 0 \notin ever
        /\ \A t \in Ids : tokens[t] \in Token /\ tokens[t].tv \in Nat
    BY <1>1, <1>2 DEF Ids, Token
  <1>4. row \in Row /\ req \in [Reqs -> Request] /\ row.tokenVersion \in Nat
    BY <1>1, Types DEF Row
  <1>5. Stored \subseteq ever
    BY <1>1 DEF Lists, Listed, Stored
  <1> QED BY <1>2, <1>3, <1>4, <1>5

\* a pair is added to those that exist
LEMMA PairAdded ==
    ASSUME Inv, NEW k \in Token, tokens' = Append(tokens, k)
    PROVE  /\ Len(tokens') = Len(tokens) + 1 /\ Ids' = Ids \cup {Len(tokens')}
           /\ Ids \subseteq Ids' /\ Len(tokens') \notin Ids
           /\ tokens'[Len(tokens')] = k
           /\ \A t \in Ids : tokens'[t] = tokens[t]
  <1>1. /\ Len(tokens') = Len(tokens) + 1 /\ tokens'[Len(tokens) + 1] = k
        /\ \A t \in 1..Len(tokens) : tokens'[t] = tokens[t]
        /\ Len(tokens) \in Nat /\ Ids = 1..Len(tokens)
    BY SerialFacts, AppendProperties
  <1>2. Ids' = 1..Len(tokens')
    BY DEF Ids
  <1> QED BY <1>1, <1>2

\* a step that leaves the sessions in the row as they are
LEMMA SameSessions ==
    ASSUME Inv, SerialInv, UNCHANGED <<ever, issued>>,
           row'.refreshTokens = row.refreshTokens, row'.activeAccessJtis = row.activeAccessJtis,
           row'.tokenVersion = row.tokenVersion, row'.password = row.password,
           \/ tokens' = tokens
           \/ \E k \in Token : /\ tokens' = Append(tokens, k) /\ k.tv = row.tokenVersion
                               /\ k.parent \in ever \cup {0},
           \A r \in Reqs : Current(r)'
    PROVE  SerialInv'
  <1>1. /\ Stored' = Stored /\ Stored \subseteq ever /\ ever \subseteq Ids /\ issued \subseteq Ids
        /\ row.tokenVersion \in Nat /\ Range(row.activeAccessJtis) \subseteq Ids
    BY SerialFacts DEF Stored, SerialInv, HandedOut, Tracked
  <1>2. CASE tokens' = tokens
    BY <1>1, <1>2 DEF SerialInv, Pairs, HandedOut, Tracked, ResetEndsOldSessions,
                      RefreshTokenSingleUse, Ids
  <1>3. CASE tokens' # tokens
    <2>1. PICK k \in Token : /\ tokens' = Append(tokens, k) /\ k.tv = row.tokenVersion
                             /\ k.parent \in ever \cup {0}
      BY <1>3
    <2>2. /\ Ids' = Ids \cup {Len(tokens')} /\ tokens'[Len(tokens')] = k
          /\ \A t \in Ids : tokens'[t] = tokens[t]
      BY <2>1, PairAdded
    <2>3. Pairs'
      <3> SUFFICES ASSUME NEW t \in Ids'
                   PROVE  tokens'[t].tv <= row'.tokenVersion /\ tokens'[t].parent \in ever' \cup {0}
        BY DEF Pairs
      <3>1. CASE t \in Ids
        BY <2>2, <3>1 DEF SerialInv, Pairs
      <3>2. CASE t = Len(tokens')
        BY <1>1, <2>1, <2>2, <3>2
      <3> QED BY <2>2, <3>1, <3>2
    <2>4. HandedOut' /\ Tracked' /\ ResetEndsOldSessions'
      BY <1>1, <2>2 DEF SerialInv, HandedOut, Tracked, ResetEndsOldSessions, RefreshTokenSingleUse
    <2> QED BY <2>3, <2>4 DEF SerialInv
  <1> QED BY <1>2, <1>3

------------------------------------------------------------------------------
(* The steps that leave the sessions as they are *)

LEMMA LoginReadSerial ==
    ASSUME Inv, SerialInv, OneAtATime, NEW r \in Reqs, LoginRead(r)
    PROVE  SerialInv'
  <1>1. UNCHANGED <<row, ever, issued>>
    BY DEF LoginRead
  <1>2. CASE row.legacyHash
    <2>1. /\ tokens' = tokens
          /\ req'[r] = [Idle EXCEPT !.pc = "rehash", !.tv = row.tokenVersion,
                                    !.pw = row.password, !.rts = row.refreshTokens]
      BY <1>2, SerialFacts DEF LoginRead
    <2>2. /\ req'[r].pc = "rehash" /\ req'[r].tv = row.tokenVersion
          /\ req'[r].pw = row.password /\ req'[r].rts = row.refreshTokens
      BY <2>1, IdleType DEF Request
    <2>3. \A q \in Reqs : Current(q)'
      BY <1>1, <2>2 DEF Current, OneAtATime, Minted
    <2> QED BY <1>1, <2>1, <2>3, SameSessions
  <1>3. CASE ~row.legacyHash
    <2> DEFINE k == [tv |-> row.tokenVersion, pw |-> row.password, parent |-> 0]
    <2>1. /\ tokens' = Append(tokens, k)
          /\ req'[r] = [Idle EXCEPT !.pc = "push", !.new = Len(tokens'), !.tv = row.tokenVersion]
      BY <1>3, SerialFacts DEF LoginRead, Mint
    <2>2. /\ req'[r].pc = "push" /\ req'[r].tv = row.tokenVersion /\ req'[r].new = Len(tokens')
      BY <2>1, IdleType DEF Request
    <2>3. k \in Token /\ k.tv = row.tokenVersion /\ k.pw = row.password /\ k.parent = 0
      BY SerialFacts DEF Row, Token
    <2> HIDE DEF k
    <2>4. tokens'[Len(tokens')] = k
      BY <2>1, <2>3, PairAdded
    <2>5. \A q \in Reqs : Current(q)'
      BY <1>1, <2>2, <2>3, <2>4 DEF Current, OneAtATime, Minted
    <2> QED BY <1>1, <2>1, <2>3, <2>5, SameSessions
  <1> QED BY <1>2, <1>3

LEMMA RefreshReadSerial ==
    ASSUME Inv, SerialInv, OneAtATime, NEW r \in Reqs, NEW t \in issued, RefreshRead(r, t)
    PROVE  SerialInv'
  <1>1. UNCHANGED <<row, ever, issued>>
    BY DEF RefreshRead
  <1>2. CASE t \notin Stored
    <2>1. tokens' = tokens /\ req'[r] = [Idle EXCEPT !.pc = "invread"]
      BY <1>2, SerialFacts DEF RefreshRead
    <2>2. req'[r].pc = "invread"
      BY <2>1, IdleType DEF Request
    <2>3. \A q \in Reqs : Current(q)'
      BY <2>2 DEF Current, OneAtATime, Minted
    <2> QED BY <1>1, <2>1, <2>3, SameSessions
  <1>3. CASE t \in Stored
    <2> DEFINE k == [tv |-> row.tokenVersion, pw |-> row.password, parent |-> t]
    <2>1. /\ tokens' = Append(tokens, k)
          /\ req'[r] = [Idle EXCEPT !.pc = "reread", !.tok = t,
                                    !.new = Len(tokens'), !.tv = row.tokenVersion]
      BY <1>3, SerialFacts DEF RefreshRead, Mint
    <2>2. /\ req'[r].pc = "reread" /\ req'[r].tv = row.tokenVersion /\ req'[r].new = Len(tokens')
          /\ req'[r].tok = t
      BY <2>1, IdleType DEF Request
    <2>3. k \in Token /\ k.tv = row.tokenVersion /\ k.pw = row.password /\ k.parent = t
          /\ t \in ever
      BY <1>3, SerialFacts DEF Row, Token, SerialInv, HandedOut
    <2> HIDE DEF k
    <2>4. tokens'[Len(tokens')] = k
      BY <2>1, <2>3, PairAdded
    <2>5. \A q \in Reqs : Current(q)'
      BY <1>1, <1>3, <2>2, <2>3, <2>4 DEF Current, OneAtATime, Minted, Stored
    <2> QED BY <1>1, <2>1, <2>3, <2>5, SameSessions
  <1> QED BY <1>2, <1>3

\* the other steps that read the row or call out
LEMMA CallsSerial ==
    ASSUME Inv, SerialInv, OneAtATime, NEW r \in Reqs,
           \/ RotateRead(r) \/ InvalidateRead(r) \/ InvalidatePublish(r) \/ LogoutRevoke(r)
           \/ ResetRead(r) \/ ResetPublishSet(r) \/ ResetPublishGet(r) \/ Abort(r)
           \/ \E t \in issued : LogoutRead(r, t)
    PROVE  SerialInv'
  <1>1. UNCHANGED <<row, ever, issued, tokens>>
    BY DEF RotateRead, InvalidateRead, InvalidatePublish, LogoutRevoke, ResetRead,
           ResetPublishSet, ResetPublishGet, Abort, LogoutRead
  <1>2. req \in [Reqs -> Request] /\ Current(r)
    BY SerialFacts DEF SerialInv
  <1>3. Current(r)'
    <2>1. CASE RotateRead(r) /\ req[r].tok \in Stored
      <3>1. req' = [req EXCEPT ![r].pc = "rotate"] /\ req[r].pc = "reread"
        BY <2>1 DEF RotateRead, Goto
      <3>2. /\ req'[r].pc = "rotate" /\ req'[r].tv = req[r].tv /\ req'[r].new = req[r].new
            /\ req'[r].tok = req[r].tok
        BY <1>2, <3>1 DEF Request
      <3> QED BY <1>1, <1>2, <2>1, <3>1, <3>2 DEF Current, Minted, Stored
    <2>2. CASE \/ RotateRead(r) /\ req[r].tok \notin Stored
               \/ InvalidatePublish(r) \/ LogoutRevoke(r) \/ Abort(r)
               \/ ResetPublishGet(r) /\ req' = Finish(r)
      <3>1. req'[r] \in {Idle, [Idle EXCEPT !.pc = "invread"]}
        BY <1>2, <2>2 DEF RotateRead, InvalidatePublish, LogoutRevoke, Abort, Finish
      <3>2. req'[r].pc \in {"idle", "invread"}
        BY <3>1, IdleType DEF Request
      <3> QED BY <3>2 DEF Current, Minted
    <2>3. CASE InvalidateRead(r)
      <3>1. req'[r] = [Idle EXCEPT !.pc = "invsave", !.tv = row.tokenVersion]
        BY <1>2, <2>3 DEF InvalidateRead
      <3>2. req'[r].pc = "invsave" /\ req'[r].tv = row.tokenVersion
        BY <3>1, IdleType DEF Request
      <3> QED BY <1>1, <3>2 DEF Current, Minted
    <2>4. CASE ResetRead(r)
      <3>1. req'[r] = [Idle EXCEPT !.pc = "pubset", !.tv = row.tokenVersion,
                                   !.pw = row.resetToken, !.jtis = row.activeAccessJtis]
        BY <1>2, <2>4 DEF ResetRead
      <3>2. req'[r].pc = "pubset" /\ req'[r].tv = row.tokenVersion
        BY <3>1, IdleType DEF Request
      <3> QED BY <1>1, <3>2 DEF Current, Minted
    <2>5. CASE ResetPublishSet(r)
      <3>1. req' = [req EXCEPT ![r].pc = "pubget"] /\ req[r].pc = "pubset"
        BY <2>5 DEF ResetPublishSet, Goto
      <3>2. req'[r].pc = "pubget" /\ req'[r].tv = req[r].tv
        BY <1>2, <3>1 DEF Request
      <3> QED BY <1>1, <1>2, <3>1, <3>2 DEF Current, Minted
    <2>6. CASE ResetPublishGet(r) /\ req' = [req EXCEPT ![r].pc = "resetsave", ![r].jtis = <<>>]
      <3>1. req'[r].pc = "resetsave" /\ req'[r].tv = req[r].tv
        BY <1>2, <2>6 DEF Request
      <3> QED BY <1>1, <1>2, <2>6, <3>1 DEF Current, Minted, ResetPublishGet
    <2>7. ASSUME NEW t \in issued, LogoutRead(r, t) PROVE Current(r)'
      <3> DEFINE pc == IF t \in Stored THEN "logoutsave" ELSE "logoutrevoke"
                 rts == IF t \in Stored THEN row.refreshTokens ELSE <<>>
      <3>1. req'[r] = [Idle EXCEPT !.pc = pc, !.tok = t, !.rts = rts]
        BY <1>2, <2>7 DEF LogoutRead
      <3>2. req'[r].pc = pc /\ req'[r].rts = rts
        <4> HIDE DEF pc, rts
        <4> QED BY <3>1, IdleType DEF Request
      <3> QED BY <1>1, <3>2 DEF Current, Minted
    <2> QED BY <2>1, <2>2, <2>3, <2>4, <2>5, <2>6, <2>7 DEF ResetPublishGet
  <1>4. \A q \in Reqs : Current(q)'
    BY <1>3 DEF OneAtATime
  <1> QED BY <1>1, <1>4, SameSessions

LEMMA RequestPasswordResetSerial ==
    ASSUME Inv, SerialInv, RequestPasswordReset \/ UNCHANGED vars
    PROVE  SerialInv'
  <1>1. /\ UNCHANGED <<req, tokens, issued, ever>>
        /\ row'.refreshTokens = row.refreshTokens /\ row'.activeAccessJtis = row.activeAccessJtis
        /\ row'.tokenVersion = row.tokenVersion /\ row'.password = row.password
    BY SerialFacts DEF RequestPasswordReset, vars, Row
  <1>2. \A q \in Reqs : Current(q)'
    BY <1>1 DEF SerialInv, Current, Minted, Stored
  <1> QED BY <1>1, <1>2, SameSessions

LEMMA LoginRehashSerial ==
    ASSUME Inv, SerialInv, OneAtATime, NEW r \in Reqs, LoginRehash(r)
    PROVE  SerialInv'
  <1> DEFINE k == [tv |-> row.tokenVersion, pw |-> row.password, parent |-> 0]
  <1>1. /\ req[r].tv = row.tokenVersion /\ req[r].pw = row.password
        /\ req[r].rts = row.refreshTokens
    BY DEF LoginRehash, SerialInv, Current
  <1>2. /\ tokens' = Append(tokens, k)
        /\ req'[r] = [Idle EXCEPT !.pc = "push", !.new = Len(tokens'), !.tv = row.tokenVersion]
        /\ UNCHANGED <<ever, issued>>
    BY <1>1, SerialFacts DEF LoginRehash, Mint
  <1>3. /\ row'.refreshTokens = row.refreshTokens /\ row'.activeAccessJtis = row.activeAccessJtis
        /\ row'.tokenVersion = row.tokenVersion /\ row'.password = row.password
    BY <1>1, SerialFacts DEF LoginRehash, Row
  <1>4. /\ req'[r].pc = "push" /\ req'[r].tv = row.tokenVersion /\ req'[r].new = Len(tokens')
    BY <1>2, IdleType DEF Request
  <1>5. k \in Token /\ k.tv = row.tokenVersion /\ k.pw = row.password /\ k.parent = 0
    BY SerialFacts DEF Row, Token
  <1> HIDE DEF k
  <1>6. tokens'[Len(tokens')] = k
    BY <1>2, <1>5, PairAdded
  <1>7. \A q \in Reqs : Current(q)'
    BY <1>3, <1>4, <1>5, <1>6 DEF Current, OneAtATime, Minted
  <1> QED BY <1>2, <1>3, <1>5, <1>7, SameSessions

------------------------------------------------------------------------------
(* The steps that change the sessions *)

LEMMA StoresSerial ==
    ASSUME Inv, Inv', SerialInv, OneAtATime, NEW r \in Reqs, PersistSessionTokens(r) \/ RotateWrite(r)
    PROVE  SerialInv'
  <1> DEFINE n == req[r].new
             parent == tokens[n].parent
             s == row.refreshTokens
             p == PushSlice(s, n, MaxRefresh)
  <1>1. /\ UNCHANGED <<tokens, issued>> /\ ever' = ever \cup {n}
        /\ req' = [req EXCEPT ![r].pc = "publish"]
        /\ Minted(r) /\ Current(r)
    BY DEF PersistSessionTokens, RotateWrite, Remember, Goto, Minted, SerialInv
  <1>2. n \in Ids /\ n \notin ever /\ n = Len(tokens) /\ tokens[n].pw = row.password
        /\ tokens[n].tv = row.tokenVersion
    BY <1>1 DEF Inv, Carries, Current
  <1>3. /\ row'.tokenVersion = row.tokenVersion /\ row'.password = row.password
        /\ row'.activeAccessJtis = PushSlice(row.activeAccessJtis, n, MaxJtis)
        /\ PersistSessionTokens(r) => row'.refreshTokens = p
        /\ RotateWrite(r) => row'.refreshTokens = Pull(p, req[r].tok)
    BY SerialFacts DEF PersistSessionTokens, RotateWrite, Row, PushPull
  <1>4. /\ s \in Seq(Nat) /\ IsInjective(s) /\ n \in Nat /\ row.activeAccessJtis \in Seq(Nat)
        /\ n \notin Range(s) /\ req[r].tok \in Nat
    BY <1>2, Facts DEF Listed, Request
  <1>5. /\ p \in Seq(Nat) /\ IsInjective(p)
        /\ Range(row'.activeAccessJtis) \subseteq Range(row.activeAccessJtis) \cup {n}
    <2> HIDE DEF n, s
    <2>1. p \in Seq(Nat) /\ (IsInjective(s) /\ n \notin Range(s) => IsInjective(p))
      BY <1>4, PushSliceKeeps, Constants
    <2>2. Range(PushSlice(row.activeAccessJtis, n, MaxJtis)) \subseteq Range(row.activeAccessJtis) \cup {n}
      BY <1>4, PushSliceKeeps, Constants
    <2> HIDE DEF p
    <2> QED BY <1>3, <1>4, <2>1, <2>2
  <1>6. Stored' \subseteq Stored \cup {n}
    BY StoreEffect DEF Stored
  <1>7. RotateWrite(r) => req[r].tok \notin Stored'
    <2> HIDE DEF p
    <2> QED BY <1>3, <1>5, PullKeeps DEF Stored
  <1>8. parent \notin Stored' /\ parent \in ever \cup {0}
        /\ \A u \in issued : tokens[u].parent = parent => parent = 0
    <2>1. parent \in ever \cup {0}
      BY <1>2 DEF SerialInv, Pairs
    <2>2. CASE PersistSessionTokens(r)
      <3>1. parent = 0
        BY <1>1, <2>2 DEF PersistSessionTokens, Current
      <3>2. 0 \notin Stored'
        BY <1>4, <1>6, <1>2, SerialFacts
      <3> QED BY <2>1, <3>1, <3>2
    <2>3. CASE RotateWrite(r)
      <3>1. parent = req[r].tok /\ req[r].tok \in Stored
        BY <1>1, <2>3 DEF RotateWrite, Current
      <3> QED BY <1>7, <2>1, <2>3, <3>1 DEF SerialInv, HandedOut
    <2> QED BY <2>2, <2>3
  <1>9. /\ req'[r].pc = "publish" /\ req'[r].new = n /\ req'[r].tv = req[r].tv
    BY <1>1, SerialFacts DEF Request
  <1>10. Current(r)'
    BY <1>1, <1>3, <1>8, <1>9 DEF Current, Minted
  <1> HIDE DEF n, p, s, parent
  <1>11. /\ Pairs' /\ Tracked'
    BY <1>1, <1>2, <1>3, <1>5, SerialFacts DEF SerialInv, Pairs, Tracked, Ids
  <1>12. HandedOut'
    <2>1. \A t \in issued : tokens[t].parent # n
      <3>1. \A t \in issued : tokens[t].parent \in ever \cup {0}
        BY SerialFacts DEF SerialInv, Pairs, HandedOut
      <3>2. n # 0
        BY <1>2, SerialFacts
      <3> QED BY <1>2, <3>1, <3>2
    <2> QED BY <1>1, <1>6, <2>1 DEF SerialInv, HandedOut, RefreshTokenSingleUse
  <1>13. ResetEndsOldSessions'
    BY <1>1, <1>2, <1>3, <1>6 DEF SerialInv, ResetEndsOldSessions
  <1>14. \A q \in Reqs : Current(q)'
    BY <1>10 DEF OneAtATime
  <1> QED BY <1>11, <1>12, <1>13, <1>14 DEF SerialInv

LEMMA PublishAndRespondSerial ==
    ASSUME Inv, SerialInv, OneAtATime, NEW r \in Reqs, PublishAndRespond(r)
    PROVE  SerialInv'
  <1> DEFINE n == req[r].new
  <1>1. /\ UNCHANGED <<row, tokens, ever>> /\ issued' = issued \cup {n} /\ req'[r] = Idle
    BY SerialFacts DEF PublishAndRespond, Finish
  <1>2. /\ n \in ever /\ tokens[n].parent \notin Stored
        /\ \A u \in issued : tokens[u].parent = tokens[n].parent /\ tokens[n].parent # 0 => u = n
    BY DEF PublishAndRespond, SerialInv, Current
  <1> HIDE DEF n
  <1>3. HandedOut'
    BY <1>1, <1>2 DEF SerialInv, HandedOut, RefreshTokenSingleUse, Stored
  <1>4. Pairs' /\ Tracked' /\ ResetEndsOldSessions'
    BY <1>1 DEF SerialInv, Pairs, Tracked, ResetEndsOldSessions, Ids, Stored
  <1>5. \A q \in Reqs : Current(q)'
    BY <1>1, IdleType DEF Current, Minted, OneAtATime
  <1> QED BY <1>3, <1>4, <1>5 DEF SerialInv

\* the end of every session, by a detected reuse or by a reset
LEMMA SavesSerial ==
    ASSUME Inv, SerialInv, OneAtATime, NEW r \in Reqs, InvalidateSave(r) \/ ResetSave(r)
    PROVE  SerialInv'
  <1>1. req[r].tv = row.tokenVersion /\ row.tokenVersion \in Nat
    BY SerialFacts DEF InvalidateSave, ResetSave, SerialInv, Current
  <1>2. /\ row'.refreshTokens = <<>> /\ row'.activeAccessJtis = <<>>
        /\ row'.tokenVersion = row.tokenVersion + 1
        /\ UNCHANGED <<tokens, issued, ever>>
    BY <1>1, SerialFacts DEF InvalidateSave, ResetSave, Row
  <1>3. Current(r)'
    <2>1. CASE ResetSave(r)
      <3>1. req'[r] = Idle
        BY <2>1, SerialFacts DEF ResetSave, Finish
      <3> QED BY <3>1, IdleType DEF Current, Minted
    <2>2. CASE InvalidateSave(r)
      <3>1. req'[r] = [Idle EXCEPT !.pc = "invpublish", !.tv = row.tokenVersion + 1]
        BY <1>1, <2>2, SerialFacts DEF InvalidateSave
      <3>2. req'[r].pc = "invpublish" /\ req'[r].tv = row.tokenVersion + 1
        BY <3>1, IdleType DEF Request
      <3> QED BY <1>2, <3>2 DEF Current, Minted
    <2> QED BY <2>1, <2>2
  <1>4. Stored' = {} /\ Range(row'.activeAccessJtis) = {}
    BY <1>2 DEF Stored, Range
  <1>5. Pairs'
    BY <1>1, <1>2, SerialFacts DEF SerialInv, Pairs, Ids
  <1>6. HandedOut' /\ Tracked' /\ ResetEndsOldSessions'
    BY <1>2, <1>4 DEF SerialInv, HandedOut, RefreshTokenSingleUse, Tracked, ResetEndsOldSessions
  <1>7. \A q \in Reqs : Current(q)'
    BY <1>3 DEF OneAtATime
  <1> QED BY <1>5, <1>6, <1>7 DEF SerialInv

\* a logout writes back the list that is still there, without its own session
LEMMA LogoutEffect ==
    ASSUME Inv, SerialInv, NEW r \in Reqs, LogoutSave(r)
    PROVE  Range(row'.refreshTokens) = Stored \ {req[r].tok}
  <1>1. req[r].rts = row.refreshTokens
    BY DEF LogoutSave, SerialInv, Current
  <1>2. row.refreshTokens \in Seq(Nat) /\ IsInjective(row.refreshTokens)
    BY Facts DEF Listed
  <1>3. row'.refreshTokens = Pull(row.refreshTokens, req[r].tok)
    BY <1>1, SerialFacts DEF LogoutSave, Row
  <1> QED BY <1>2, <1>3, PullKeeps DEF Stored

LEMMA LogoutSaveSerial ==
    ASSUME Inv, SerialInv, OneAtATime, NEW r \in Reqs, LogoutSave(r)
    PROVE  SerialInv'
  <1>1. /\ UNCHANGED <<tokens, issued, ever>> /\ Stored' \subseteq Stored
        /\ row'.activeAccessJtis = row.activeAccessJtis
        /\ row'.tokenVersion = row.tokenVersion /\ row'.password = row.password
    BY LogoutEffect, SerialFacts DEF LogoutSave, Row, Stored
  <1>2. Current(r)'
    <2>1. req'[r] = [Idle EXCEPT !.pc = "logoutrevoke", !.tok = req[r].tok]
      BY SerialFacts DEF LogoutSave
    <2>2. req'[r].pc = "logoutrevoke"
      BY <2>1, IdleType DEF Request
    <2> QED BY <2>2 DEF Current, Minted
  <1>3. Pairs' /\ Tracked'
    BY <1>1 DEF SerialInv, Pairs, Tracked, Ids
  <1>4. HandedOut' /\ ResetEndsOldSessions'
    BY <1>1 DEF SerialInv, HandedOut, RefreshTokenSingleUse, ResetEndsOldSessions
  <1>5. \A q \in Reqs : Current(q)'
    BY <1>2 DEF OneAtATime
  <1> QED BY <1>3, <1>4, <1>5 DEF SerialInv

------------------------------------------------------------------------------
(* The theorems *)

LEMMA InitSerial == Init => SerialInv
  <1> SUFFICES ASSUME Init PROVE SerialInv
    OBVIOUS
  <1>1. /\ row.refreshTokens = <<>> /\ row.activeAccessJtis = <<>>
        /\ req = [r \in Reqs |-> Idle] /\ tokens = <<>> /\ issued = {}
    BY DEF Init
  <1>2. Stored = {} /\ Range(row.activeAccessJtis) = {} /\ Ids = {}
    BY <1>1 DEF Stored, Range, Ids
  <1>3. \A r \in Reqs : Current(r)
    BY <1>1, IdleType DEF Current, Minted
  <1> QED BY <1>1, <1>2, <1>3 DEF SerialInv, Pairs, HandedOut, Tracked, ResetEndsOldSessions,
                                  RefreshTokenSingleUse

LEMMA NextSerial == OneAtATime /\ Inv /\ Inv' /\ SerialInv /\ [Next]_vars => SerialInv'
  BY LoginReadSerial, RefreshReadSerial, CallsSerial, RequestPasswordResetSerial,
     LoginRehashSerial, StoresSerial, PublishAndRespondSerial, SavesSerial, LogoutSaveSerial
     DEF Next

LEMMA AlwaysSerial == OneAtATime => (Spec => [](Inv /\ SerialInv))
  <1> SUFFICES ASSUME OneAtATime PROVE Spec => [](Inv /\ SerialInv)
    OBVIOUS
  <1>1. Inv /\ Inv' /\ SerialInv /\ [Next]_vars => SerialInv'
    BY NextSerial
  <1> QED BY InitSerial, AlwaysInv, <1>1, PTL DEF Spec

\* Reuse detection (refreshAccessToken): when requests do not overlap, a refresh
\* token is redeemed for one new pair at most, whatever fails on the way.
THEOREM SingleUse == OneAtATime => (Spec => []RefreshTokenSingleUse)
  <1>1. SerialInv => RefreshTokenSingleUse
    BY DEF SerialInv, HandedOut
  <1> QED BY <1>1, AlwaysSerial, PTL

\* A password reset ends every older session for good (resetPassword): when
\* requests do not overlap, all stored sessions are of the current password.
THEOREM ResetEnds == OneAtATime => (Spec => []ResetEndsOldSessions)
  <1>1. SerialInv => ResetEndsOldSessions
    BY DEF SerialInv
  <1> QED BY <1>1, AlwaysSerial, PTL

\* only invalidations and resets change the version, and they raise it
LEMMA VersionGrows ==
    ASSUME OneAtATime, Inv, SerialInv, [Next]_vars
    PROVE  row'.tokenVersion \in {row.tokenVersion, row.tokenVersion + 1}
  <1>1. ASSUME NEW r \in Reqs, InvalidateSave(r) \/ ResetSave(r)
        PROVE  row'.tokenVersion = row.tokenVersion + 1
    BY <1>1, SerialFacts DEF InvalidateSave, ResetSave, SerialInv, Current, Row
  <1>2. ASSUME NEW r \in Reqs,
               LoginRehash(r) \/ PersistSessionTokens(r) \/ RotateWrite(r) \/ LogoutSave(r)
        PROVE  row'.tokenVersion = row.tokenVersion
    BY <1>2, SerialFacts DEF LoginRehash, PersistSessionTokens, RotateWrite, LogoutSave, Row
  <1>3. RequestPasswordReset => row'.tokenVersion = row.tokenVersion
    BY SerialFacts DEF RequestPasswordReset, Row
  <1> QED BY <1>1, <1>2, <1>3, ZenonT(30)
          DEF Next, vars, LoginRead, PublishAndRespond, RefreshRead, LogoutRead, RotateRead,
              InvalidateRead, InvalidatePublish, LogoutRevoke, ResetRead, ResetPublishSet,
              ResetPublishGet, Abort

\* An access token that the service refuses for its version stays refused: when
\* requests do not overlap, no later invalidation or reset brings its version back.
THEOREM StaleForGood == OneAtATime => (Spec => StaleAccessStaysStale)
  <1> SUFFICES ASSUME OneAtATime PROVE Spec => StaleAccessStaysStale
    OBVIOUS
  <1>1. Inv /\ SerialInv /\ [Next]_vars =>
            [\A t \in issued : TokenVersionStale(t, row) => TokenVersionStale(t, row')]_vars
    <2> SUFFICES ASSUME Inv, SerialInv, [Next]_vars, NEW t \in issued, TokenVersionStale(t, row)
                 PROVE  TokenVersionStale(t, row')
      OBVIOUS
    <2>1. tokens[t].tv \in Nat /\ tokens[t].tv <= row.tokenVersion /\ row.tokenVersion \in Nat
      BY SerialFacts DEF SerialInv, HandedOut, Pairs
    <2> QED BY <2>1, VersionGrows DEF TokenVersionStale
  <1> QED BY <1>1, AlwaysSerial, PTL DEF Spec, StaleAccessStaysStale

\* A logout ends its own session and no other (removeRefreshToken), when requests
\* do not overlap.
THEOREM LogoutIsLocal == OneAtATime => (Spec => LogoutRemovesOneSession)
  <1> SUFFICES ASSUME OneAtATime PROVE Spec => LogoutRemovesOneSession
    OBVIOUS
  <1>1. ASSUME Inv, SerialInv, [Next]_vars, NEW r \in Reqs,
               req[r].pc = "logoutsave", req'[r].pc = "logoutrevoke"
        PROVE  LogoutSave(r)
    <2>1. req \in [Reqs -> Request] /\ req' # req
      BY <1>1, SerialFacts
    <2>2. Abort(r) => req'[r].pc = "idle"
      BY <2>1, IdleType DEF Abort, Finish
    <2> QED BY <1>1, <2>1, <2>2, ZenonT(30)
            DEF OneAtATime, Next, vars, RequestPasswordReset, LoginRead, LoginRehash,
                PersistSessionTokens, PublishAndRespond, RefreshRead, LogoutRead, RotateRead,
                RotateWrite, InvalidateRead, InvalidateSave, InvalidatePublish, LogoutRevoke,
                ResetRead, ResetPublishSet, ResetPublishGet, ResetSave
  <1>2. Inv /\ SerialInv /\ [Next]_vars =>
            [\A r \in Reqs : req[r].pc = "logoutsave" /\ req'[r].pc = "logoutrevoke" =>
                Range(row'.refreshTokens) = Stored \ {req[r].tok}]_vars
    BY <1>1, LogoutEffect
  <1> QED BY <1>2, AlwaysSerial, PTL DEF Spec, LogoutRemovesOneSession

------------------------------------------------------------------------------
(* The gateway's first check: revoked access tokens *)

\* every revocation is taken, and no access token is evicted from the row
RevocationHolds == "revoke" \notin Faults /\ MaxTokens <= MaxJtis

\* an access token that was handed out is tracked or revoked
Covered(r) ==
    /\ req[r].pc = "publish" => req[r].new \in Range(row.activeAccessJtis) \cup revoked
    /\ req[r].pc \in {"invsave", "resetsave"} => Range(row.activeAccessJtis) \subseteq revoked
    /\ req[r].pc \in {"pubset", "pubget"} => req[r].jtis = row.activeAccessJtis

RevokedInv ==
    /\ Len(tokens) <= MaxTokens
    /\ issued \subseteq Range(row.activeAccessJtis) \cup revoked
    /\ \A i \in DOMAIN row.activeAccessJtis : i <= row.activeAccessJtis[i]
    /\ \A r \in Reqs : Covered(r)

\* the new access token finds room, for the tracked ones are older
LEMMA JtisGrow ==
    ASSUME RevocationHolds, Inv, SerialInv, RevokedInv, NEW r \in Reqs, Minted(r)
    PROVE  LET s == row.activeAccessJtis
               p == PushSlice(s, req[r].new, MaxJtis)
           IN  Range(p) = Range(s) \cup {req[r].new} /\ \A i \in DOMAIN p : i <= p[i]
  <1> DEFINE s == row.activeAccessJtis
             n == req[r].new
             p == PushSlice(s, n, MaxJtis)
  <1>1. s \in Seq(Nat) /\ n \in Nat /\ n = Len(tokens) /\ Len(tokens) \in Nat
        /\ Len(s) \in Nat /\ DOMAIN s = 1..Len(s) /\ \A i \in 1..Len(s) : s[i] \in Nat
    BY Facts, LenProperties, ElementOfSeq DEF Request, SerialInv, Current
  <1>2. \A i \in 1..Len(s) : i <= s[i]
    BY <1>1 DEF RevokedInv
  <1>3. n \notin ever /\ ever \subseteq 1..Len(tokens)
    BY DEF Inv, Carries, Ids
  <1>4. \A i \in 1..Len(s) : s[i] < n
    <2>1. \A i \in 1..Len(s) : s[i] \in ever
      BY <1>1 DEF SerialInv, Tracked, Range
    <2> QED BY <1>1, <1>3, <2>1
  <1>5. Len(s) < n /\ Len(s) < MaxJtis
    <2>1. CASE Len(s) = 0
      <3>1. n # 0
        BY <1>1 DEF Inv, Carries, Ids
      <3> QED BY <1>1, <2>1, <3>1, Constants
    <2>2. CASE Len(s) # 0
      <3>1. Len(s) \in 1..Len(s)
        BY <1>1, <2>2
      <3>2. Len(s) <= s[Len(s)] /\ s[Len(s)] < n
        BY <1>2, <1>4, <3>1
      <3>3. Len(tokens) <= MaxTokens /\ MaxTokens <= MaxJtis
        BY DEF RevokedInv, RevocationHolds
      <3>4. Len(s) < n
        BY <1>1, <3>1, <3>2
      <3> QED BY <1>1, <3>3, <3>4, Constants
    <2> QED BY <2>1, <2>2
  <1> HIDE DEF s, n
  <1>6. p = Append(s, n)
    <2>1. Len(Append(s, n)) = Len(s) + 1
      BY <1>1, AppendProperties
    <2>2. ~(Len(Append(s, n)) > MaxJtis)
      BY <1>1, <1>5, <2>1, Constants
    <2> QED BY <2>2 DEF PushSlice
  <1>7. /\ DOMAIN p = 1..(Len(s) + 1) /\ p[Len(s) + 1] = n
        /\ \A i \in 1..Len(s) : p[i] = s[i]
    BY <1>1, <1>6, AppendProperties, LenProperties
  <1> HIDE DEF p
  <1>8. DOMAIN p = 1..Len(s) \cup {Len(s) + 1}
    BY <1>1, <1>7
  <1>9. Range(p) = Range(s) \cup {n}
    BY <1>1, <1>7, <1>8 DEF Range
  <1>10. \A i \in DOMAIN p : i <= p[i]
    BY <1>1, <1>2, <1>5, <1>7, <1>8
  <1> QED BY <1>9, <1>10 DEF p, s, n

LEMMA NextRevoked ==
    ASSUME OneAtATime, RevocationHolds, Inv, SerialInv, RevokedInv, [Next]_vars
    PROVE  RevokedInv'
  <1>0. row \in Row /\ req \in [Reqs -> Request] /\ Len(tokens) \in Nat
    BY SerialFacts
  <1>1. Len(tokens') <= MaxTokens
    <2>1. ASSUME NEW a, NEW b, NEW c, Mint(a, b, c) PROVE Len(tokens') <= MaxTokens
      <3>1. Len(tokens') = Len(tokens) + 1 /\ Len(tokens) < MaxTokens
        BY <2>1, SerialFacts DEF Mint
      <3> QED BY <1>0, <3>1, Constants
    <2>2. tokens' = tokens \/ \E a, b, c : Mint(a, b, c)
      BY ZenonT(30) DEF Next, vars, RequestPasswordReset, LoginRead, LoginRehash, PersistSessionTokens,
             PublishAndRespond, RefreshRead, LogoutRead, RotateRead, RotateWrite, InvalidateRead,
             InvalidateSave, InvalidatePublish, LogoutSave, LogoutRevoke, ResetRead,
             ResetPublishSet, ResetPublishGet, ResetSave, Abort
    <2> QED BY <2>1, <2>2 DEF RevokedInv
  \* a step that leaves the tracked access tokens alone
  <1>2. ASSUME row'.activeAccessJtis = row.activeAccessJtis, issued' = issued,
               revoked \subseteq revoked', \A q \in Reqs : Covered(q)'
        PROVE  RevokedInv'
    BY <1>1, <1>2 DEF RevokedInv
  <1>3. CASE RequestPasswordReset \/ UNCHANGED vars
    <2>1. /\ UNCHANGED <<req, issued, revoked>> /\ row'.activeAccessJtis = row.activeAccessJtis
      BY <1>0, <1>3 DEF RequestPasswordReset, vars, Row
    <2> QED BY <1>2, <2>1 DEF RevokedInv, Covered
  <1>4. ASSUME NEW r \in Reqs, LoginRead(r) PROVE RevokedInv'
    <2>1. UNCHANGED <<row, issued, revoked>> /\ req'[r].pc \in {"rehash", "push"}
      <3>1. UNCHANGED <<row, issued, revoked>>
        BY <1>4 DEF LoginRead
      <3>2. CASE row.legacyHash
        <4>1. req'[r] = [Idle EXCEPT !.pc = "rehash", !.tv = row.tokenVersion,
                                     !.pw = row.password, !.rts = row.refreshTokens]
          BY <1>0, <1>4, <3>2 DEF LoginRead
        <4> QED BY <3>1, <4>1, IdleType DEF Request
      <3>3. CASE ~row.legacyHash
        <4>1. req'[r] = [Idle EXCEPT !.pc = "push", !.new = Len(tokens'), !.tv = row.tokenVersion]
          BY <1>0, <1>4, <3>3 DEF LoginRead
        <4> QED BY <3>1, <4>1, IdleType DEF Request
      <3> QED BY <3>2, <3>3
    <2> QED BY <1>2, <2>1 DEF Covered, OneAtATime
  <1>5. ASSUME NEW r \in Reqs, LoginRehash(r) PROVE RevokedInv'
    <2>1. /\ UNCHANGED <<issued, revoked>> /\ row'.activeAccessJtis = row.activeAccessJtis
          /\ req'[r].pc = "push"
      <3>1. UNCHANGED <<issued, revoked>> /\ row'.activeAccessJtis = row.activeAccessJtis
        BY <1>0, <1>5 DEF LoginRehash, Row
      <3>2. PICK tv \in {row.tokenVersion, req[r].tv} :
                req'[r] = [Idle EXCEPT !.pc = "push", !.new = Len(tokens'), !.tv = tv]
        BY <1>0, <1>5 DEF LoginRehash
      <3> QED BY <3>1, <3>2, IdleType DEF Request
    <2> QED BY <1>2, <2>1 DEF Covered, OneAtATime
  <1>6. ASSUME NEW r \in Reqs, PersistSessionTokens(r) \/ RotateWrite(r) PROVE RevokedInv'
    <2>1. /\ UNCHANGED <<issued, revoked>> /\ req'[r].pc = "publish" /\ req'[r].new = req[r].new
          /\ row'.activeAccessJtis = PushSlice(row.activeAccessJtis, req[r].new, MaxJtis)
      <3>1. UNCHANGED <<issued, revoked>> /\ req' = [req EXCEPT ![r].pc = "publish"]
        BY <1>6 DEF PersistSessionTokens, RotateWrite, Goto
      <3>2. req'[r].pc = "publish" /\ req'[r].new = req[r].new
        BY <1>0, <3>1 DEF Request
      <3>3. row'.activeAccessJtis = PushSlice(row.activeAccessJtis, req[r].new, MaxJtis)
        BY <1>0, <1>6 DEF PersistSessionTokens, RotateWrite, Row
      <3> QED BY <3>1, <3>2, <3>3
    <2>2. /\ Range(row'.activeAccessJtis) = Range(row.activeAccessJtis) \cup {req[r].new}
          /\ \A i \in DOMAIN row'.activeAccessJtis : i <= row'.activeAccessJtis[i]
      BY <1>6, <2>1, JtisGrow DEF Minted, PersistSessionTokens, RotateWrite
    <2>3. \A q \in Reqs : Covered(q)'
      BY <2>1, <2>2 DEF Covered, OneAtATime
    <2> QED BY <1>1, <2>1, <2>2, <2>3 DEF RevokedInv
  <1>7. ASSUME NEW r \in Reqs, PublishAndRespond(r) PROVE RevokedInv'
    <2>1. /\ UNCHANGED <<row, revoked>> /\ req'[r].pc = "idle"
          /\ issued' = issued \cup {req[r].new}
      BY <1>0, <1>7, IdleType DEF PublishAndRespond, Finish
    <2>2. req[r].new \in Range(row.activeAccessJtis) \cup revoked
      BY <1>7 DEF PublishAndRespond, RevokedInv, Covered
    <2>3. \A q \in Reqs : Covered(q)'
      BY <2>1 DEF Covered, OneAtATime
    <2> QED BY <1>1, <2>1, <2>2, <2>3 DEF RevokedInv
  <1>8. ASSUME NEW r \in Reqs, NEW t \in issued, RefreshRead(r, t) PROVE RevokedInv'
    <2>1. UNCHANGED <<row, issued, revoked>> /\ req'[r].pc \in {"invread", "reread"}
      BY <1>0, <1>8, IdleType DEF RefreshRead, Request
    <2> QED BY <1>2, <2>1 DEF Covered, OneAtATime
  <1>9. ASSUME NEW r \in Reqs, NEW t \in issued, LogoutRead(r, t) PROVE RevokedInv'
    <2>1. UNCHANGED <<row, issued, revoked>> /\ req'[r].pc \in {"logoutsave", "logoutrevoke"}
      BY <1>0, <1>9, IdleType DEF LogoutRead, Request
    <2> QED BY <1>2, <2>1 DEF Covered, OneAtATime
  <1>10. ASSUME NEW r \in Reqs, RotateRead(r) PROVE RevokedInv'
    <2>1. /\ UNCHANGED <<row, issued>> /\ revoked \subseteq revoked'
          /\ req'[r].pc \in {"invread", "rotate"}
      BY <1>0, <1>10, IdleType DEF RotateRead, MayRevoke, Goto, Request
    <2> QED BY <1>2, <2>1 DEF Covered, OneAtATime
  <1>11. ASSUME NEW r \in Reqs, InvalidateRead(r) PROVE RevokedInv'
    <2>1. /\ UNCHANGED <<row, issued>> /\ revoked' = revoked \cup Range(row.activeAccessJtis)
          /\ req'[r].pc = "invsave"
      BY <1>0, <1>11, IdleType DEF InvalidateRead, RevokeAll, RevocationHolds, Request
    <2> QED BY <1>2, <2>1 DEF Covered, OneAtATime
  <1>12. ASSUME NEW r \in Reqs, InvalidateSave(r) \/ ResetSave(r) PROVE RevokedInv'
    <2>1. /\ UNCHANGED <<issued, revoked>> /\ req'[r].pc \in {"idle", "invpublish"}
          /\ row'.activeAccessJtis = <<>>
      <3>1. UNCHANGED <<issued, revoked>> /\ row'.activeAccessJtis = <<>>
        BY <1>0, <1>12 DEF InvalidateSave, ResetSave, Row
      <3>2. req'[r] \in {Idle, [Idle EXCEPT !.pc = "invpublish", !.tv = req[r].tv + 1]}
        BY <1>0, <1>12 DEF InvalidateSave, ResetSave, Finish
      <3> QED BY <3>1, <3>2, IdleType DEF Request
    <2>2. Range(row.activeAccessJtis) \subseteq revoked
      BY <1>12 DEF InvalidateSave, ResetSave, RevokedInv, Covered
    <2>3. \A q \in Reqs : Covered(q)'
      BY <2>1 DEF Covered, OneAtATime
    <2> QED BY <1>1, <2>1, <2>2, <2>3 DEF RevokedInv, Range
  <1>13. ASSUME NEW r \in Reqs, InvalidatePublish(r) \/ LogoutRevoke(r) \/ Abort(r) PROVE RevokedInv'
    <2>1. /\ UNCHANGED <<row, issued>> /\ revoked \subseteq revoked' /\ req'[r].pc = "idle"
      BY <1>0, <1>13, IdleType DEF InvalidatePublish, LogoutRevoke, MayRevoke, Abort, Finish
    <2> QED BY <1>2, <2>1 DEF Covered, OneAtATime
  <1>14. ASSUME NEW r \in Reqs, LogoutSave(r) PROVE RevokedInv'
    <2>1. /\ UNCHANGED <<issued, revoked>> /\ row'.activeAccessJtis = row.activeAccessJtis
          /\ req'[r].pc = "logoutrevoke"
      BY <1>0, <1>14, IdleType DEF LogoutSave, Request, Row
    <2> QED BY <1>2, <2>1 DEF Covered, OneAtATime
  <1>15. ASSUME NEW r \in Reqs, ResetRead(r) PROVE RevokedInv'
    <2>1. /\ UNCHANGED <<row, issued, revoked>> /\ req'[r].pc = "pubset"
          /\ req'[r].jtis = row.activeAccessJtis
      BY <1>0, <1>15, IdleType DEF ResetRead, Request
    <2> QED BY <1>2, <2>1 DEF Covered, OneAtATime
  <1>16. ASSUME NEW r \in Reqs, ResetPublishSet(r) PROVE RevokedInv'
    <2>1. /\ UNCHANGED <<row, issued, revoked>> /\ req'[r].pc = "pubget"
          /\ req'[r].jtis = req[r].jtis /\ req[r].pc = "pubset"
      BY <1>0, <1>16 DEF ResetPublishSet, Goto, Request
    <2> QED BY <1>2, <2>1 DEF Covered, OneAtATime, RevokedInv
  <1>17. ASSUME NEW r \in Reqs, ResetPublishGet(r) PROVE RevokedInv'
    <2>1. CASE req' = Finish(r) /\ UNCHANGED revoked
      <3>1. UNCHANGED <<row, issued>> /\ req'[r].pc = "idle"
        BY <1>0, <1>17, <2>1, IdleType DEF ResetPublishGet, Finish
      <3> QED BY <1>2, <2>1, <3>1 DEF Covered, OneAtATime
    <2>2. CASE /\ RevokeAll(req[r].jtis)
               /\ req' = [req EXCEPT ![r].pc = "resetsave", ![r].jtis = <<>>]
      <3>1. /\ UNCHANGED <<row, issued>> /\ req'[r].pc = "resetsave"
            /\ revoked' = revoked \cup Range(req[r].jtis)
        BY <1>0, <1>17, <2>2 DEF ResetPublishGet, RevokeAll, RevocationHolds, Request
      <3>2. req[r].jtis = row.activeAccessJtis
        BY <1>17 DEF ResetPublishGet, RevokedInv, Covered
      <3> QED BY <1>2, <3>1, <3>2 DEF Covered, OneAtATime
    <2> QED BY <1>17, <2>1, <2>2 DEF ResetPublishGet
  <1> QED BY <1>3, <1>4, <1>5, <1>6, <1>7, <1>8, <1>9, <1>10, <1>11, <1>12, <1>13, <1>14,
             <1>15, <1>16, <1>17 DEF Next

\* Revocation alone stops the access tokens of an earlier version
\* (revokeAllTrackedAccessJtis in invalidateAllSessions and resetPassword): when
\* requests do not overlap, every revocation is taken and MAX_JTIS covers the
\* pairs minted, it does so even if Redis misses every version and requests die
\* at any await.
THEOREM RevocationSuffices ==
    OneAtATime /\ RevocationHolds => (Spec => []StaleAccessBlocked)
  <1> SUFFICES ASSUME OneAtATime, RevocationHolds PROVE Spec => []StaleAccessBlocked
    OBVIOUS
  <1>1. Init => RevokedInv
    <2> SUFFICES ASSUME Init PROVE RevokedInv
      OBVIOUS
    <2>1. /\ row.activeAccessJtis = <<>> /\ tokens = <<>> /\ issued = {}
          /\ req = [r \in Reqs |-> Idle]
      BY DEF Init
    <2> QED BY <2>1, IdleType, Constants DEF RevokedInv, Covered
  <1>2. Inv /\ SerialInv /\ RevokedInv /\ [Next]_vars => RevokedInv'
    BY NextRevoked
  <1>3. SerialInv /\ RevokedInv => StaleAccessBlocked
    BY DEF SerialInv, Tracked, RevokedInv, StaleAccessBlocked, TokenVersionStale, GatewayAccepts
  <1> QED BY <1>1, <1>2, <1>3, AlwaysSerial, PTL DEF Spec

------------------------------------------------------------------------------
(* The gateway's second check: the token version in Redis *)

\* Redis takes every version and every request runs to its end
VersionsHold == Faults \cap {"redis", "abort"} = {}

\* the version in Redis, except while a new one is on its way
Ahead(r) == req[r].pc \in {"pubget", "resetsave"}

VersionInv ==
    /\ \A r \in Reqs : Ahead(r) => redisTv = req[r].tv + 1
    /\ (\A r \in Reqs : ~Ahead(r) /\ req[r].pc # "invpublish") =>
           \/ redisTv = row.tokenVersion
           \/ redisTv = NoVersion /\ row.tokenVersion = 0

LEMMA NextVersion ==
    ASSUME OneAtATime, VersionsHold, Inv, SerialInv, VersionInv, [Next]_vars
    PROVE  VersionInv'
  <1>0. row \in Row /\ req \in [Reqs -> Request] /\ row.tokenVersion \in Nat
    BY SerialFacts
  \* a step to a request that is not ahead, from one that was not either
  <1>1. ASSUME NEW r \in Reqs, ~Ahead(r), req[r].pc # "invpublish",
               ~Ahead(r)', row'.tokenVersion = row.tokenVersion, redisTv' = redisTv
        PROVE  VersionInv'
    BY <1>1 DEF VersionInv, OneAtATime
  \* a step that publishes the version of the row
  <1>2. ASSUME NEW r \in Reqs, ~Ahead(r)', redisTv' = row'.tokenVersion
        PROVE  VersionInv'
    <2>1. \A q \in Reqs : ~Ahead(q)'
      BY <1>2, Zenon DEF OneAtATime
    <2>2. \A q \in Reqs : req'[q].pc \notin {"pubget", "resetsave"}
      BY <2>1 DEF Ahead
    <2> QED BY <1>2, <2>2 DEF VersionInv, Ahead
  <1>3. CASE RequestPasswordReset \/ UNCHANGED vars
    <2>1. /\ UNCHANGED <<req, redisTv>> /\ row'.tokenVersion = row.tokenVersion
      BY <1>0, <1>3 DEF RequestPasswordReset, vars, Row
    <2> QED BY <2>1 DEF VersionInv, Ahead
  <1>4. ASSUME NEW r \in Reqs, LoginRead(r) PROVE VersionInv'
    <2>1. UNCHANGED <<row, redisTv>> /\ req[r].pc = "idle"
      BY <1>4 DEF LoginRead
    <2>2. req'[r].pc \in {"rehash", "push"}
      <3>1. CASE row.legacyHash
        <4>1. req'[r] = [Idle EXCEPT !.pc = "rehash", !.tv = row.tokenVersion,
                                     !.pw = row.password, !.rts = row.refreshTokens]
          BY <1>0, <1>4, <3>1 DEF LoginRead
        <4> QED BY <4>1, IdleType DEF Request
      <3>2. CASE ~row.legacyHash
        <4>1. req'[r] = [Idle EXCEPT !.pc = "push", !.new = Len(tokens'), !.tv = row.tokenVersion]
          BY <1>0, <1>4, <3>2 DEF LoginRead
        <4> QED BY <4>1, IdleType DEF Request
      <3> QED BY <3>1, <3>2
    <2> QED BY <1>1, <2>1, <2>2 DEF Ahead
  <1>5. ASSUME NEW r \in Reqs, LoginRehash(r) PROVE VersionInv'
    <2>1. UNCHANGED redisTv /\ row'.tokenVersion = row.tokenVersion /\ req[r].pc = "rehash"
      BY <1>0, <1>5 DEF LoginRehash, Row
    <2>2. PICK tv \in {row.tokenVersion, req[r].tv} :
              req'[r] = [Idle EXCEPT !.pc = "push", !.new = Len(tokens'), !.tv = tv]
      BY <1>0, <1>5 DEF LoginRehash
    <2>3. req'[r].pc = "push"
      BY <2>2, IdleType DEF Request
    <2> QED BY <1>1, <2>1, <2>3 DEF Ahead
  <1>6. ASSUME NEW r \in Reqs, PersistSessionTokens(r) \/ RotateWrite(r) PROVE VersionInv'
    <2>1. /\ UNCHANGED redisTv /\ req[r].pc \in {"push", "rotate"}
          /\ req' = [req EXCEPT ![r].pc = "publish"]
      BY <1>6 DEF PersistSessionTokens, RotateWrite, Goto
    <2>2. row'.tokenVersion = row.tokenVersion
      BY <1>0, <1>6 DEF PersistSessionTokens, RotateWrite, Row
    <2>3. req'[r].pc = "publish"
      BY <1>0, <2>1 DEF Request
    <2> QED BY <1>1, <2>1, <2>2, <2>3 DEF Ahead
  <1>7. ASSUME NEW r \in Reqs, PublishAndRespond(r) \/ InvalidatePublish(r) PROVE VersionInv'
    <2>1. UNCHANGED row /\ req'[r].pc = "idle" /\ req[r].pc \in {"publish", "invpublish"}
          /\ redisTv' = req[r].tv
      BY <1>0, <1>7, IdleType DEF PublishAndRespond, InvalidatePublish, Finish, SetRedisTv, VersionsHold
    <2>2. req[r].tv = row.tokenVersion
      BY <2>1 DEF SerialInv, Current
    <2> QED BY <1>2, <2>1, <2>2 DEF Ahead
  <1>8. ASSUME NEW r \in Reqs, NEW t \in issued, RefreshRead(r, t) \/ LogoutRead(r, t)
        PROVE  VersionInv'
    <2>1. UNCHANGED <<row, redisTv>> /\ req[r].pc = "idle"
      BY <1>8 DEF RefreshRead, LogoutRead
    <2>2. RefreshRead(r, t) => req'[r].pc \in {"invread", "reread"}
      BY <1>0, IdleType DEF RefreshRead, Request
    <2>3. LogoutRead(r, t) => req'[r].pc \in {"logoutsave", "logoutrevoke"}
      BY <1>0, IdleType DEF LogoutRead, Request
    <2> QED BY <1>1, <1>8, <2>1, <2>2, <2>3 DEF Ahead
  <1>9. ASSUME NEW r \in Reqs, RotateRead(r) \/ InvalidateRead(r) \/ LogoutRevoke(r)
        PROVE  VersionInv'
    <2>1. UNCHANGED <<row, redisTv>> /\ req[r].pc \in {"reread", "invread", "logoutrevoke"}
      BY <1>9 DEF RotateRead, InvalidateRead, LogoutRevoke
    <2>2. RotateRead(r) => req'[r].pc \in {"invread", "rotate"}
      BY <1>0, IdleType DEF RotateRead, Goto, Request
    <2>3. InvalidateRead(r) => req'[r].pc = "invsave"
      BY <1>0, IdleType DEF InvalidateRead, Request
    <2>4. LogoutRevoke(r) => req'[r].pc = "idle"
      BY <1>0, IdleType DEF LogoutRevoke, Finish
    <2> QED BY <1>1, <1>9, <2>1, <2>2, <2>3, <2>4 DEF Ahead
  <1>10. ASSUME NEW r \in Reqs, InvalidateSave(r) PROVE VersionInv'
    <2>1. req'[r] = [Idle EXCEPT !.pc = "invpublish", !.tv = req[r].tv + 1]
      BY <1>0, <1>10 DEF InvalidateSave
    <2>2. req'[r].pc = "invpublish"
      BY <2>1, IdleType DEF Request
    <2> QED BY <2>2 DEF VersionInv, Ahead, OneAtATime
  <1>11. ASSUME NEW r \in Reqs, LogoutSave(r) PROVE VersionInv'
    <2>1. UNCHANGED redisTv /\ row'.tokenVersion = row.tokenVersion /\ req[r].pc = "logoutsave"
      BY <1>0, <1>11 DEF LogoutSave, Row
    <2>2. req'[r].pc = "logoutrevoke"
      BY <1>0, <1>11, IdleType DEF LogoutSave, Request
    <2> QED BY <1>1, <2>1, <2>2 DEF Ahead
  <1>12. ASSUME NEW r \in Reqs, ResetRead(r) PROVE VersionInv'
    <2>1. UNCHANGED <<row, redisTv>> /\ req[r].pc = "idle"
      BY <1>12 DEF ResetRead
    <2>2. req'[r].pc = "pubset"
      BY <1>0, <1>12, IdleType DEF ResetRead, Request
    <2> QED BY <1>1, <2>1, <2>2 DEF Ahead
  <1>13. ASSUME NEW r \in Reqs, ResetPublishSet(r) PROVE VersionInv'
    <2>1. req'[r].pc = "pubget" /\ req'[r].tv = req[r].tv /\ redisTv' = req[r].tv + 1
      BY <1>0, <1>13 DEF ResetPublishSet, Goto, SetRedisTv, VersionsHold, Request
    <2> QED BY <2>1 DEF VersionInv, Ahead, OneAtATime
  <1>14. ASSUME NEW r \in Reqs, ResetPublishGet(r) PROVE VersionInv'
    <2>1. redisTv = req[r].tv + 1 /\ UNCHANGED redisTv
      BY <1>14 DEF ResetPublishGet, VersionInv, Ahead
    <2>2. req' = [req EXCEPT ![r].pc = "resetsave", ![r].jtis = <<>>]
      BY <1>14, <2>1 DEF ResetPublishGet, VersionsHold
    <2>3. req'[r].pc = "resetsave" /\ req'[r].tv = req[r].tv
      BY <1>0, <2>2 DEF Request
    <2> QED BY <2>1, <2>3 DEF VersionInv, Ahead, OneAtATime
  <1>15. ASSUME NEW r \in Reqs, ResetSave(r) PROVE VersionInv'
    <2>1. redisTv = req[r].tv + 1 /\ UNCHANGED redisTv /\ req' = Finish(r)
      BY <1>15 DEF ResetSave, VersionInv, Ahead
    <2>2. row'.tokenVersion = req[r].tv + 1
      BY <1>0, <1>15 DEF ResetSave, Row
    <2>3. req'[r].pc = "idle"
      BY <1>0, <2>1, IdleType DEF Finish
    <2> QED BY <1>2, <2>1, <2>2, <2>3 DEF Ahead
  <1>16. ASSUME NEW r \in Reqs PROVE ~Abort(r)
    BY DEF Abort, VersionsHold
  <1> QED BY <1>3, <1>4, <1>5, <1>6, <1>7, <1>8, <1>9, <1>10, <1>11, <1>12, <1>13, <1>14,
             <1>15, <1>16 DEF Next

\* The published version alone stops the access tokens of an earlier one
\* (publishTokenVersion in resetPassword, invalidateAllSessions, login): when
\* requests do not overlap and run to their end, and Redis takes the versions, it
\* does so even if every revocation is lost or the tracked tokens are evicted.
THEOREM VersionSuffices ==
    OneAtATime /\ VersionsHold => (Spec => []StaleAccessBlocked)
  <1> SUFFICES ASSUME OneAtATime, VersionsHold PROVE Spec => []StaleAccessBlocked
    OBVIOUS
  <1>1. Init => VersionInv
    <2> SUFFICES ASSUME Init PROVE VersionInv
      OBVIOUS
    <2>1. /\ row.tokenVersion = 0 /\ redisTv = NoVersion /\ req = [r \in Reqs |-> Idle]
      BY DEF Init
    <2> QED BY <2>1, IdleType DEF VersionInv, Ahead
  <1>2. Inv /\ SerialInv /\ VersionInv /\ [Next]_vars => VersionInv'
    BY NextVersion
  <1>3. Inv /\ SerialInv /\ VersionInv => StaleAccessBlocked
    <2> SUFFICES ASSUME Inv, SerialInv, VersionInv, \A r \in Reqs : req[r].pc = "idle",
                        NEW t \in issued, TokenVersionStale(t, row), GatewayAccepts(t)
                 PROVE  FALSE
      BY DEF StaleAccessBlocked
    <2>1. redisTv = row.tokenVersion \/ (redisTv = NoVersion /\ row.tokenVersion = 0)
      BY DEF VersionInv, Ahead
    <2>2. /\ tokens[t].tv \in Nat /\ tokens[t].tv <= row.tokenVersion /\ row.tokenVersion \in Nat
          /\ tokens[t].tv # row.tokenVersion
      BY SerialFacts DEF SerialInv, HandedOut, Pairs, TokenVersionStale
    <2> QED BY <2>1, <2>2 DEF GatewayAccepts, NoVersion
  <1> QED BY <1>1, <1>2, <1>3, AlwaysSerial, PTL DEF Spec

==============================================================================
