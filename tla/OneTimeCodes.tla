---------------------------- MODULE OneTimeCodes -----------------------------
(***************************************************************************)
(* The opaque codes that stand for secrets: the code in a mailed link and  *)
(* the form token it is redeemed for (src/services/email-link.service.ts), *)
(* the OAuth state and exchange code (oauth-pkce.service.ts,               *)
(* oauth-exchange.service.ts) and the poll token of a registration         *)
(* (verification-poll.service.ts), with the endpoints that use them        *)
(* (src/controllers/auth.controller.ts) and the cache commands             *)
(* (src/config/redis.ts).                                                  *)
(*                                                                         *)
(* A code lives in Redis or, while the connection is down, in a Map of the *)
(* process.  Each Redis command is one step, and may fail without the      *)
(* caller being told; the connection's flag may change between any two.    *)
(* A code is a number: nobody can use one that was not handed out.         *)
(***************************************************************************)
EXTENDS Integers, Sequences, FiniteSets

CONSTANTS
    Slots,        \* requests the service handles at the same time
    Tags,         \* kinds of a link, and PKCE verifiers with their challenges
    Ttl,          \* lifetime of each family of codes
    Production,   \* config.nodeEnv = 'production'
    MaxCodes,     \* bound: codes created
    MaxNow,       \* bound: the clock
    MaxTrouble    \* bound: changes of the connection, failing commands, restarts

Families == {"link", "form", "state", "exchange", "poll"}
Codes    == 1..MaxCodes

ASSUME CodesAssumption ==
    /\ IsFiniteSet(Slots)
    /\ DOMAIN Ttl = Families /\ \A f \in Families : Ttl[f] \in Nat \ {0}
    /\ Production \in BOOLEAN
    /\ {MaxCodes, MaxTrouble} \subseteq Nat /\ MaxNow \in Nat \ {0}

VARIABLES
    issued,    \* the codes: family, tag, the code each was made for, end of life
    redis,     \* the keys in Redis: code -> end of its life, 0 where there is none
    mem,       \* the same for the Maps of the process
    ready,     \* isRedisAvailable()
    req,       \* the requests in progress
    now,
    trouble,   \* what has gone wrong so far
    spent,     \* history: codes that a request has read
    released,  \* history: what was handed over: <<code, state, tag>>
    uses,      \* history: how often each code was honoured
    excused,   \* history: codes that two requests read before either deleted
               \* them, or whose deletion did not take place
    lost       \* history: codes whose SETEX failed, or that a restart forgot

stores == <<redis, mem>>
world  == <<ready, now, trouble>>
past   == <<spent, released, uses, excused, lost>>
vars   == <<issued, stores, req, world, past>>

\* a request has read code c; tag is the kind or verifier the client gave, st the
\* OAuth state, and x the exchange code it presented with it
Idle == [pc |-> "idle", c |-> 0, tag |-> 0, st |-> 0, x |-> 0]

Of(f) == {c \in DOMAIN issued : issued[c].fam = f}

\* a redemption on its way finds room for its form token
Room == Len(issued) + Cardinality({s \in Slots : req[s].c \in Of("link")}) < MaxCodes

Goto(s, upd) == req' = [req EXCEPT ![s] = upd]
Answer(s)    == Goto(s, Idle)

Trouble == trouble < MaxTrouble /\ trouble' = trouble + 1

------------------------------------------------------------------------------
(* The cache commands: a failure is swallowed, and a command that timed out   *)
(* may have been executed                                                     *)

Fails == Trouble
Works == UNCHANGED trouble

\* mutant: the codes that are still good are removed
PruneGood(f) == [c \in Codes |-> IF c \in Of(f) /\ mem[c] > now THEN 0 ELSE mem[c]]

\* pruneMemory on the Map of one family
Pruned(f) == [c \in Codes |-> IF c \in Of(f) /\ mem[c] <= now THEN 0 ELSE mem[c]]

\* where the new code c is kept
Keep(c, f) ==
    LET end == now + Ttl[f] IN
    IF ready
    THEN /\ UNCHANGED mem
         /\ \/ Works /\ redis' = [redis EXCEPT ![c] = end] /\ UNCHANGED lost
            \/ Fails /\ redis' \in {redis, [redis EXCEPT ![c] = end]} /\ lost' = lost \cup {c}
    ELSE mem' = [Pruned(f) EXCEPT ![c] = end] /\ UNCHANGED <<redis, trouble, lost>>

Issue(f, tag, of) ==
    /\ issued' = Append(issued, [fam |-> f, tag |-> tag, of |-> of, end |-> now + Ttl[f]])
    /\ Keep(Len(issued) + 1, f)
    /\ UNCHANGED <<ready, now>>

------------------------------------------------------------------------------
(* createEmailLinkCode, createOAuthState, createOAuthExchangeCode,            *)
(* createVerificationPollToken                                                *)

Create(f, tag, of) ==
    /\ Room
    /\ ready \/ ~Production
    /\ Issue(f, tag, of)
    /\ UNCHANGED <<req, spent, released, uses, excused>>

CreateEmailLink(kind) == Create("link", kind, 0)

PrepareOAuth(challenge) == Create("state", challenge, 0)

\* mutant: the state is not kept with the tokens
HandleOAuthMisplaced(st) == Create("exchange", st, 0)

\* the provider has sent the user back with the state
HandleOAuthSuccess(st) == Create("exchange", 0, st)

CreatePollToken == Create("poll", 0, 0)

------------------------------------------------------------------------------
(* The read and the deletion every consumer begins with *)

\* what a code stands for is handed over
Honour(c, st, tag) ==
    /\ uses' = [uses EXCEPT ![c] = @ + 1]
    /\ released' = released \cup {<<c, st, tag>>}

Others(s, c) == \E t \in Slots \ {s} : req[t].pc = "del" /\ req[t].c = c

\* mutant: a form token is good for every kind
AcceptsAny(c, r) == issued[c].fam = "exchange" => issued[c].of = r.st

\* the checks on what was stored: kind, PKCE challenge, state
Accepts(c, r) == CASE issued[c].fam = "exchange" -> issued[c].of = r.st
                   [] issued[c].fam \in {"form", "state"} -> issued[c].tag = r.tag
                   [] OTHER -> TRUE

\* the request r of slot s has the payload of c and the code is deleted
Proceed(s, c, r) ==
    IF ~Accepts(c, r) THEN Answer(s) /\ UNCHANGED <<uses, released>>
    ELSE CASE issued[c].fam = "link" -> Goto(s, [r EXCEPT !.pc = "form"]) /\ UNCHANGED <<uses, released>>
           [] issued[c].fam = "state" -> /\ Goto(s, [r EXCEPT !.pc = "read", !.c = r.x, !.st = c])
                                         /\ Honour(c, 0, r.tag)
           [] OTHER -> Answer(s) /\ Honour(c, r.st, r.tag)

\* GET
ReadRedis(s, c, r) ==
    /\ ready
    /\ \/ /\ Works /\ redis[c] > now
          /\ Goto(s, [r EXCEPT !.pc = "del", !.c = c])
          /\ spent' = spent \cup {c}
          /\ excused' = IF Others(s, c) THEN excused \cup {c} ELSE excused
       \/ /\ (Works /\ redis[c] <= now) \/ Fails
          /\ Answer(s) /\ UNCHANGED <<spent, excused>>
    /\ UNCHANGED <<issued, stores, ready, now, released, uses, lost>>

\* the Map's get and delete; the form token of a link is made in the same turn
ReadMemory(s, c, r) ==
    LET there == mem[c] # 0 /\ mem[c] >= now IN
    /\ ~ready
    /\ spent' = IF there THEN spent \cup {c} ELSE spent
    /\ IF there /\ issued[c].fam = "link"
       THEN /\ issued' = Append(issued, [issued[c] EXCEPT !.fam = "form", !.of = c,
                                                          !.end = now + Ttl["form"]])
            /\ mem' = [Pruned("form") EXCEPT ![c] = 0, ![Len(issued) + 1] = now + Ttl["form"]]
            /\ Honour(c, 0, issued[c].tag) /\ Answer(s)
       ELSE /\ mem' = [mem EXCEPT ![c] = 0] /\ UNCHANGED issued
            /\ IF there THEN Proceed(s, c, r) ELSE Answer(s) /\ UNCHANGED <<uses, released>>
    /\ UNCHANGED <<redis, world, excused, lost>>

Read(s, c, r) == ReadRedis(s, c, r) \/ ReadMemory(s, c, r)

\* mutant: the key is left to expire
KeepRedis(s) ==
    LET c == req[s].c IN
    /\ req[s].pc = "del"
    /\ Proceed(s, c, req[s])
    /\ UNCHANGED <<issued, stores, world, spent, excused, lost>>

\* DEL, skipped without a connection
DeleteRedis(s) ==
    LET c == req[s].c
        gone == [redis EXCEPT ![c] = 0]
    IN
    /\ req[s].pc = "del"
    /\ \/ ready /\ Works /\ redis' = gone /\ UNCHANGED excused
       \/ ready /\ Fails /\ redis' \in {redis, gone} /\ excused' = excused \cup {c}
       \/ ~ready /\ Works /\ UNCHANGED redis /\ excused' = excused \cup {c}
    /\ Proceed(s, c, req[s])
    /\ UNCHANGED <<issued, mem, ready, now, spent, lost>>

------------------------------------------------------------------------------
(* The endpoints *)

Begins(s) == req[s].pc = "idle"

\* redeemEmailLink; its last step stores the form token, in the process when the
\* connection has just been lost, in production too
RedeemEmailLink(s, c) == Begins(s) /\ Room /\ c \in Of("link") /\ Read(s, c, Idle)

RedeemForm(s) ==
    LET c == req[s].c IN
    /\ req[s].pc = "form"
    /\ Issue("form", issued[c].tag, c)
    /\ Honour(c, 0, issued[c].tag)
    /\ Answer(s)
    /\ UNCHANGED <<spent, excused>>

\* consumeFormToken in verifyEmail, resetPassword, verifyCurrentEmail, verifyNewEmail
ConsumeFormToken(s, c, kind) ==
    Begins(s) /\ c \in Of("form") /\ Read(s, c, [Idle EXCEPT !.tag = kind])

\* exchangeOAuthCode: the state with the verifier, then the code with the state
ExchangeOAuthCode(s, st, x, verifier) ==
    /\ Begins(s) /\ st \in Of("state") /\ x \in Of("exchange")
    /\ Read(s, st, [Idle EXCEPT !.tag = verifier, !.x = x])

ExchangeRead(s) == req[s].pc = "read" /\ Read(s, req[s].c, req[s])

\* postVerificationStatus: the token stays, unless it is found expired in the Map
PollStatus(c) ==
    /\ c \in Of("poll") /\ ~ready
    /\ mem' = IF mem[c] < now THEN [mem EXCEPT ![c] = 0] ELSE mem
    /\ UNCHANGED <<issued, redis, req, world, past>>

------------------------------------------------------------------------------
(* The environment *)

Tick == now < MaxNow /\ now' = now + 1
        /\ UNCHANGED <<issued, stores, req, ready, trouble, past>>

\* wireClientEvents
Flap == /\ Trouble
        /\ ready' = ~ready
        /\ UNCHANGED <<issued, stores, req, now, past>>

Restart ==
    /\ Trouble
    /\ mem' = [c \in Codes |-> 0]
    /\ ready' \in BOOLEAN
    /\ req' = [s \in Slots |-> Idle]
    /\ lost' = lost \cup {c \in Codes : mem[c] # 0}
    /\ excused' = excused \cup {req[s].c : s \in {t \in Slots : req[t].pc = "del"}}
    /\ UNCHANGED <<issued, redis, now, spent, released, uses>>

------------------------------------------------------------------------------
Init ==
    /\ issued = <<>> /\ redis = [c \in Codes |-> 0] /\ mem = redis
    /\ ready \in BOOLEAN /\ req = [s \in Slots |-> Idle]
    /\ now = 1 /\ trouble = 0
    /\ spent = {} /\ released = {} /\ uses = redis /\ excused = {} /\ lost = {}

Next ==
    \/ \E t \in Tags : CreateEmailLink(t) \/ PrepareOAuth(t)
    \/ \E st \in Of("state") : HandleOAuthSuccess(st)
    \/ CreatePollToken
    \/ \E c \in DOMAIN issued : PollStatus(c)
    \/ \E s \in Slots :
        \/ DeleteRedis(s) \/ RedeemForm(s) \/ ExchangeRead(s)
        \/ \E c \in DOMAIN issued :
            \/ RedeemEmailLink(s, c)
            \/ \E t \in Tags : \/ ConsumeFormToken(s, c, t)
                               \/ \E x \in DOMAIN issued : ExchangeOAuthCode(s, c, x, t)
    \/ Tick \/ Flap \/ Restart

Spec == Init /\ [][Next]_vars

------------------------------------------------------------------------------
TypeOK ==
    /\ issued \in Seq([fam: Families, tag: Tags \cup {0}, of: 0..MaxCodes, end: Nat])
    /\ Len(issued) <= MaxCodes
    /\ redis \in [Codes -> Nat] /\ mem \in [Codes -> Nat] /\ ready \in BOOLEAN
    /\ req \in [Slots -> [pc: {"idle", "del", "form", "read"}, c: 0..MaxCodes,
                          tag: Tags \cup {0}, st: 0..MaxCodes, x: 0..MaxCodes]]
    /\ now \in 1..MaxNow /\ trouble \in 0..MaxTrouble

\* (redeemEmailLinkCode, consumeFormToken, consumeOAuthState,
\* consumeOAuthExchangeCode: "one-time".)  A code is honoured at most once,
\* whichever store it lives in, unless two requests read it before either
\* deleted it or the deletion was not carried out.
OneTime == \A c \in Codes : uses[c] > 1 => c \in excused

\* (redeemEmailLinkCode, consumeFormToken, exchangeOAuthCode.)  What is handed
\* over is what the client is entitled to: a form token opens the kind of form its
\* link was mailed for, and an exchange code the tokens of the sign-in whose
\* state was prepared with the client's challenge.
Bound ==
    \A r \in released :
        LET c == r[1] IN
        /\ issued[c].fam = "form" => issued[issued[c].of].tag = r[3]
        /\ issued[c].fam = "exchange" => issued[c].of = r[2] /\ issued[r[2]].tag = r[3]

\* (createEmailLinkCode to resolveVerificationPollToken, pruneMemory.)  Before
\* its end a code that was handed out is in exactly one of the two stores until a
\* request reads it, however the connection came and went; the exceptions are a
\* failed SETEX, and a restart for the codes of the Map.
HeldOnce ==
    \A c \in DOMAIN issued :
        now < issued[c].end /\ c \notin spent \cup lost => (redis[c] # 0) # (mem[c] # 0)

==============================================================================
