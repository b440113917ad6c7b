---------------------------- MODULE IdentityStore ----------------------------
(***************************************************************************)
(* The two tables that say who owns an email address: the user rows        *)
(* (src/db/User.ts) and the inverted identity index                        *)
(* (src/db/UserIdentityIndex.ts, src/services/identity-index.service.ts),  *)
(* with the statements the handlers run on them.                           *)
(*                                                                         *)
(* Only single statements are atomic.  A handler runs from one await to    *)
(* the next as one action, keeps what it has read, and may write it back   *)
(* after other requests, the TTL sweeper or a restart have changed both    *)
(* tables.  The index is kept by a routine of up to nine statements        *)
(* (syncIdentityIndexesFromUser), which the handlers share as the steps    *)
(* SyncSelect, SyncWrite and SyncPrune.                                    *)
(***************************************************************************)
EXTENDS Integers, SequencesExt

CONSTANTS
    Slots,       \* requests the service handles at the same time
    Ops,         \* the endpoints in use
    Emails,      \* addresses, in canonical form (normalizeEmail)
    Providers,   \* OAuth providers
    Seed,        \* the accounts that exist at the start
    TokenTtl,    \* 24 hours: verification and migration links
    GraceTtl,    \* 5 days: migrationExpiry
    Cooldown,    \* 10 days: MIGRATION_COOLDOWN_MS
    ResendGap,   \* 30 seconds between two mails of one migration
    MaxUsers,    \* bound: rows ever inserted
    MaxTokens,   \* bound: link secrets generated
    MaxVersion,  \* bound: token versions of a row
    MaxNow,      \* bound: the clock
    MaxCrashes,  \* bound: restarts of the service
    MaxFaults    \* bound: statements that fail

\* the record or function d with the values of w
w ++ d == [f \in (DOMAIN w) \cup (DOMAIN d) |-> IF f \in DOMAIN w THEN w[f] ELSE d[f]]

Users == 1..MaxUsers
None  == "none"     \* SQL NULL in an address column
Local == <<"local", None>>    \* provider 'local', without a providerId

ASSUME StoreAssumption ==
    /\ Len(Seed) <= MaxUsers
    /\ None \notin Emails
    /\ Providers \cap {"local", "primary", "previous", "pending"} = {}
    /\ {TokenTtl, GraceTtl, Cooldown, ResendGap, MaxNow} \subseteq Nat \ {0}
    /\ {MaxUsers, MaxTokens, MaxVersion, MaxCrashes, MaxFaults} \subseteq Nat

VARIABLES
    users,     \* the table users: id -> row, NoRow where there is none
    nextId,    \* ids below it have been used (crypto.randomUUID never repeats)
    idx,       \* the table user_identity_indexes: key -> entry
    req,       \* the requests in progress: where they are and what they read
    links,     \* link secrets that reached a mailbox and were not used
    gen,       \* link secrets generated
    now,       \* the clock, starting at 1; a deadline of 0 is NULL
    up,        \* whether the service is serving requests
    crashes, faults,
    broken,    \* history: since the last backfill a statement has failed, or an
               \* upsert has missed because the sweeper deleted its key meanwhile
    opened,    \* history: link secrets used, and OAuth sign-ins
    movedAt    \* history: when the address of an account last changed

store  == <<users, nextId, idx>>
post   == <<links, gen, opened>>
health == <<up, crashes, faults, broken>>
vars   == <<store, req, post, now, health, movedAt>>

OAuthIds == Providers \X Emails        \* (provider, providerId) pairs
Keys     == ({"primary", "previous", "pending"} \X Emails) \cup OAuthIds
Ends     == 0..(MaxNow + GraceTtl + TokenTtl)
History  == [to: Emails, status: {"pending", "success"}, cur: BOOLEAN, new: BOOLEAN]

\* The columns the identity of an account depends on.  currentEmailToken and
\* newEmailToken are always written together and are one number here, the
\* secret's generation, as is emailVerificationToken; lastMigrationEmailSent is
\* always written with migrationTokenExpires, TokenTtl before it.
Row == [id: 0..MaxUsers, email: Emails \cup {None}, isEmailVerified: BOOLEAN,
        password: BOOLEAN, provider: OAuthIds \cup {Local},
        emailVerificationToken: 0..(MaxTokens + 1), emailVerificationExpires: Ends,
        previousEmail: Emails \cup {None}, migrationExpiry: Ends,
        newEmailPending: Emails \cup {None}, migrationToken: 0..(MaxTokens + 1),
        migrationTokenExpires: Ends, currentEmailVerified: BOOLEAN,
        newEmailVerified: BOOLEAN, lastMigrationDate: Ends,
        tokenVersion: Nat, migrationHistory: Seq(History), bio: {"old", "new"}]

\* the addresses a row has ever been asked to move to
Tos(r) == {m.to : m \in Range(r.migrationHistory)}

NoRow == [id |-> 0, email |-> None, isEmailVerified |-> FALSE,
          password |-> FALSE, provider |-> Local,
          emailVerificationToken |-> 0, emailVerificationExpires |-> 0,
          previousEmail |-> None, migrationExpiry |-> 0,
          newEmailPending |-> None, migrationToken |-> 0,
          migrationTokenExpires |-> 0, currentEmailVerified |-> FALSE,
          newEmailVerified |-> FALSE, lastMigrationDate |-> 0,
          tokenVersion |-> 0, migrationHistory |-> <<>>, bio |-> "old"]

\* The accounts at the start are ones the service can have made: the addresses,
\* OAuth identities and secrets are unique, and the columns of a row agree.
ASSUME SeedAssumption ==
    /\ Seed \in Seq(Row)
    /\ \A u \in DOMAIN Seed : LET r == Seed[u] IN
        /\ r.id = u /\ r.email \notin {None, r.previousEmail, r.newEmailPending}
        /\ r.previousEmail # None \/ r.newEmailPending # None => r.isEmailVerified
        /\ r.currentEmailVerified \/ r.newEmailVerified \/ r.migrationToken # 0
               => r.newEmailPending # None
        /\ r.isEmailVerified /\ r.provider = Local => r.emailVerificationToken = 0
        /\ {r.emailVerificationToken, r.migrationToken} \subseteq {0, MaxTokens + 1}
        /\ r.lastMigrationDate \in 0..1
        /\ r.newEmailPending # None => r.lastMigrationDate = 0
        /\ r.newEmailPending \in {None} \cup Tos(r)
        /\ r.migrationHistory # <<>> => r.isEmailVerified
    /\ \A u, v \in DOMAIN Seed : u # v =>
        /\ Seed[u].email # Seed[v].email
        /\ Seed[u].provider = Seed[v].provider => Seed[u].provider = Local
        /\ \A f \in {"emailVerificationToken", "migrationToken"} :
              Seed[u][f] = Seed[v][f] => Seed[u][f] = 0

NoEntry == [user |-> 0, exp |-> 0]

Idle == [op |-> "none", pc |-> "idle", e |-> None, link |-> 0, x |-> 0, k |-> 1,
         found |-> FALSE, doc |-> NoRow, sd |-> NoRow, expected |-> {},
         cont |-> "idle", id |-> Local, confirm |-> FALSE, keep |-> NoRow]

Quiet == up /\ \A s \in Slots : req[s].pc = "idle"

------------------------------------------------------------------------------
(* Moving a request along *)

\* what the request keeps is replaced by upd
Goto(s, upd) == req' = [req EXCEPT ![s] = upd ++ @]

\* the handler answers; pc "idle" as a continuation means the same
Answer(s) == req' = [req EXCEPT ![s] = Idle]
GoOn(s, pc, upd) == IF pc = "idle" THEN Answer(s) ELSE Goto(s, [pc |-> pc] ++ upd)

Begin(s, op, upd) ==
    /\ up /\ op \in Ops /\ req[s].pc = "idle"
    /\ req' = [req EXCEPT ![s] = upd ++ [Idle EXCEPT !.op = op]]

At(s, pc) == req[s].pc = pc

\* a statement that only reads
Reads == UNCHANGED <<store, post, now, health, movedAt>>

------------------------------------------------------------------------------
(* Statements on users *)

Live(u) == u # 0 /\ users[u].email # None

\* findById: the password is not among the columns a query selects by default
Load(u) == IF u = 0 THEN NoRow ELSE [users[u] EXCEPT !.password = FALSE]

\* mutant: the table has no UNIQUE constraint
DuplicateNever(r) == FALSE

\* the UNIQUE constraints of the table
Duplicate(r) ==
    \E v \in Users \ {r.id} :
        /\ Live(v)
        /\ \/ users[v].email = r.email
           \/ r.provider # Local /\ users[v].provider = r.provider

\* UPDATE of one row; history: when its address changed
WriteRow(r) ==
    /\ users' = [users EXCEPT ![r.id] = r]
    /\ movedAt' = IF r.email # users[r.id].email
                  THEN [movedAt EXCEPT ![r.id] = now] ELSE movedAt
    /\ UNCHANGED <<nextId, idx, now, health>>

------------------------------------------------------------------------------
(* identity-index.service.ts *)

isActive(entry) == entry.user # 0 /\ (entry.exp = 0 \/ entry.exp > now)

findUserIdByPrimaryEmail(e) ==
    IF isActive(idx[<<"primary", e>>]) THEN idx[<<"primary", e>>].user ELSE 0

findPendingMigrationHolder(e) ==
    IF idx[<<"pending", e>>].exp > now THEN idx[<<"pending", e>>].user ELSE 0

findUserIdByOAuth(id) == idx[id].user

ResolveKinds == <<"primary", "previous", "pending">>

\* resolveEmailIdentity: one read for each kind, the first active entry wins
Resolve(s) ==
    LET entry == idx[<<ResolveKinds[req[s].k], req[s].e>>] IN
    /\ At(s, "resolve")
    /\ IF isActive(entry) THEN Goto(s, [pc |-> req[s].cont, x |-> entry.user])
       ELSE IF req[s].k = 3 THEN Goto(s, [pc |-> req[s].cont, x |-> 0])
       ELSE Goto(s, [k |-> req[s].k + 1])
    /\ Reads

InGrace(d)   == d.previousEmail # None /\ d.migrationExpiry > now
InPending(d) == d.newEmailPending # None /\ d.migrationTokenExpires > now

\* the k-th upsert of the sync: whether it is made, and its key and entry
Wanted(d, k) == \/ k = 1
                \/ k = 2 /\ InGrace(d)
                \/ k = 3 /\ InPending(d)
                \/ k = 4 /\ d.provider # Local
KeyOf(d, k) == CASE k = 1 -> <<"primary", d.email>>
                 [] k = 2 -> <<"previous", d.previousEmail>>
                 [] k = 3 -> <<"pending", d.newEmailPending>>
                 [] k = 4 -> d.provider
EntryOf(d, k) == [user |-> d.id, exp |-> CASE k = 2 -> d.migrationExpiry
                                           [] k = 3 -> d.migrationTokenExpires
                                           [] OTHER -> 0]

expectedKeysForUser(d) == {KeyOf(d, k) : k \in {j \in 1..4 : Wanted(d, j)}}

\* mutant: the prune deletes the stale keys of every user
PruneAll(ix, u, expected) ==
    [key \in Keys |-> IF key \notin expected THEN NoEntry ELSE ix[key]]

\* deleteMany({ userId, key: { $nin: expected } })
Prune(ix, u, expected) ==
    [key \in Keys |-> IF ix[key].user = u /\ key \notin expected THEN NoEntry ELSE ix[key]]

\* a request starts to sync the index with the document d it has just saved
SyncFrom(d, cont) ==
    [pc |-> "sync", k |-> 1, sd |-> d, expected |-> expectedKeysForUser(d), cont |-> cont]

Due(s) == {k \in req[s].k..4 : Wanted(req[s].sd, k)}

\* updateOne looks whether the key exists ...
SyncSelect(s) ==
    /\ At(s, "sync") /\ Due(s) # {}
    /\ LET k == Min(Due(s))
       IN  Goto(s, [pc |-> "upsert", k |-> k, found |-> idx[KeyOf(req[s].sd, k)] # NoEntry])
    /\ Reads

\* ... and then updates or inserts it.  An update of a key that is gone changes
\* no row; an insert of a key that is there, and a user_id without a user, are
\* errors of Postgres that end the handler.
SyncWrite(s) ==
    LET d == req[s].sd
        key == KeyOf(d, req[s].k)
        there == idx[key] # NoEntry
        lost == req[s].found /\ ~there
        error == (~req[s].found /\ there) \/ ~Live(d.id)
    IN
    /\ At(s, "upsert")
    /\ IF ~lost /\ error THEN Answer(s) /\ UNCHANGED idx
       ELSE /\ Goto(s, [pc |-> "sync", k |-> req[s].k + 1])
            /\ idx' = IF lost THEN idx ELSE [idx EXCEPT ![key] = EntryOf(d, req[s].k)]
    /\ broken' = (broken \/ lost)
    /\ UNCHANGED <<users, nextId, post, now, up, crashes, faults, movedAt>>

SyncPrune(s) ==
    /\ At(s, "sync") /\ Due(s) = {}
    /\ idx' = Prune(idx, req[s].sd.id, req[s].expected)
    /\ GoOn(s, req[s].cont, <<>>)
    /\ UNCHANGED <<users, nextId, post, now, health, movedAt>>

------------------------------------------------------------------------------
(* Statements on users that the index follows *)

\* what the UPDATE of the columns w that were modified in the loaded document
\* makes of the row as it is now, and returns
Updated(s, w) == w ++ users[req[s].doc.id]

\* save() of a loaded document.  Nothing happens to a row that is gone.  A
\* duplicate goes to onDup.  then(d) is where the request goes with the document d.
\* (The row is bound, not defined, so that TLC evaluates it once.)
Save(s, w, then(_), onDup) ==
    LET u == req[s].doc.id
    IN  IF ~Live(u)
        THEN Goto(s, then(w ++ req[s].doc)) /\ UNCHANGED <<store, now, health, movedAt>>
        ELSE \E r \in {Updated(s, w)} :
                IF Duplicate(r)
                THEN GoOn(s, onDup, <<>>) /\ UNCHANGED <<store, now, health, movedAt>>
                ELSE Goto(s, then(r)) /\ WriteRow(r)

\* save() and then syncIdentityIndexesFromUser()
SaveAndSync(s, w, cont, onDup) ==
    Save(s, w, LAMBDA d : [doc |-> d] ++ SyncFrom(d, cont), onDup)

\* mutant: the id of the inserted row is not taken over
InsertWithoutId(s, r0, cont) ==
    /\ nextId <= MaxUsers
    /\ users' = [users EXCEPT ![nextId] = r0]
    /\ nextId' = nextId + 1
    /\ Goto(s, SyncFrom(r0, cont))
    /\ UNCHANGED <<idx, movedAt>>

\* new User(...).save(), the sync, and then cont
InsertAndSync(s, r0, cont) ==
    LET r == [r0 EXCEPT !.id = nextId] IN
    /\ nextId <= MaxUsers
    /\ IF Duplicate(r)
       THEN Answer(s) /\ UNCHANGED <<store, movedAt>>
       ELSE /\ users' = [users EXCEPT ![nextId] = r]
            /\ nextId' = nextId + 1
            /\ Goto(s, SyncFrom(r, cont))
            /\ UNCHANGED <<idx, movedAt>>

\* an insert never finds the ids used up
Room == nextId + Cardinality({s \in Slots : req[s].pc # "idle"}) <= MaxUsers

\* releaseUserIdentityIndexes
Release(s, x, pc) ==
    /\ idx' = Prune(idx, x, {})
    /\ GoOn(s, pc, <<>>)
    /\ UNCHANGED <<users, nextId, post, now, health, movedAt>>

\* findByIdAndDelete; the foreign key cascades to the index
Delete(s, x, pc) ==
    /\ users' = [users EXCEPT ![x] = NoRow]
    /\ idx' = Prune(idx, x, {})
    /\ GoOn(s, pc, <<>>)
    /\ UNCHANGED <<nextId, post, now, health, movedAt>>

------------------------------------------------------------------------------
(* Time, failure and restart *)

Tick == /\ now < MaxNow /\ now' = now + 1
        /\ UNCHANGED <<store, req, post, health, movedAt>>

\* startTtlSweeper
Sweep ==
    /\ up /\ \E key \in Keys : idx[key].exp \in 1..(now - 1)
    /\ idx' = [key \in Keys |-> IF idx[key].exp \in 1..(now - 1) THEN NoEntry ELSE idx[key]]
    /\ UNCHANGED <<users, nextId, req, post, now, health, movedAt>>

\* a statement fails: the handler's catch answers 500, what it wrote stays
StatementFails(s) ==
    /\ req[s].pc # "idle" /\ faults < MaxFaults
    /\ faults' = faults + 1 /\ broken' = TRUE
    /\ Answer(s)
    /\ UNCHANGED <<store, post, now, up, crashes, movedAt>>

\* the process dies with the requests it was handling
Crash ==
    /\ up /\ crashes < MaxCrashes
    /\ up' = FALSE /\ crashes' = crashes + 1
    /\ req' = [s \in Slots |-> Idle]
    /\ UNCHANGED <<store, post, now, faults, broken, movedAt>>

\* backfillIdentityIndexes: the first n users are synced in the order of their
\* ids.  A key that several of them want ends up with the last one; the other
\* keys they had are pruned.
Backfill(ix, n) ==
    LET done == {u \in 1..n : Live(u)}
        takers(key) == {u \in done : key \in expectedKeysForUser(users[u])}
        entry(d, key) == EntryOf(d, CHOOSE k \in 1..4 : Wanted(d, k) /\ KeyOf(d, k) = key)
    IN  [key \in Keys |-> IF takers(key) # {} THEN entry(users[Max(takers(key))], key)
                          ELSE IF ix[key].user \in done THEN NoEntry ELSE ix[key]]

\* connectDatabase: the backfill runs before the service listens, and a failure
\* of it is ignored
Boot ==
    /\ ~up /\ up' = TRUE
    /\ \E n \in 0..MaxUsers :
        /\ idx' = Backfill(idx, n)
        /\ broken' = (n < MaxUsers)
        /\ faults' = IF n < MaxUsers THEN faults + 1 ELSE faults
        /\ faults' <= MaxFaults
    /\ UNCHANGED <<users, nextId, req, post, now, crashes, movedAt>>

\* resetPassword and invalidateAllSessions give the row its next version
BumpVersion(u) ==
    /\ Live(u) /\ users[u].tokenVersion < MaxVersion
    /\ users' = [users EXCEPT ![u].tokenVersion = @ + 1]
    /\ UNCHANGED <<nextId, idx, req, post, now, health, movedAt>>

------------------------------------------------------------------------------
\* the service has just been started on the accounts of Seed
Init ==
    /\ users = [u \in Users |-> IF u <= Len(Seed) THEN Seed[u] ELSE NoRow]
    /\ nextId = Len(Seed) + 1
    /\ now = 1 /\ up = TRUE
    /\ idx = Backfill([key \in Keys |-> NoEntry], MaxUsers)
    /\ req = [s \in Slots |-> Idle]
    /\ links = {} /\ gen = 0 /\ crashes = 0 /\ faults = 0 /\ broken = FALSE
    /\ opened = UNION {(IF Seed[u].isEmailVerified
                        THEN {[kind |-> "verify", secret |-> 0, u |-> u, to |-> Seed[u].email]} ELSE {})
                 \cup (IF Seed[u].currentEmailVerified
                       THEN {[kind |-> "current", secret |-> 0, u |-> u, to |-> Seed[u].email]} ELSE {})
                 \cup (IF Seed[u].newEmailVerified
                       THEN {[kind |-> "new", secret |-> 0, u |-> u, to |-> Seed[u].newEmailPending]}
                       ELSE {}) : u \in DOMAIN Seed}
    /\ movedAt = [u \in Users |-> users[u].lastMigrationDate]

Link == [kind: {"verify", "current", "new", "oauth"}, secret: 0..(MaxTokens + 1),
         u: Users, to: Emails]

==============================================================================
