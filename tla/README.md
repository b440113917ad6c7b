# Verification of the UAM backend

TLA+ models of the user account management backend (`src/`, TypeScript on
Express, Postgres and Redis), checked with TLC on small instances, with theorems
checked by TLAPS. Paths below are relative to the repository's `src/` directory.

## 1. Inventory

| Component | State | Operations | What is hard |
|---|---|---|---|
| Redis circuit breaker, `config/redisCircuitBreaker.ts` | state, cooldown, counters, probes, `inflight` | `acquire`, `release`, `tripOpen`, `reset`, `withCircuitBreaker` | calls outlive the state they were admitted in; timer and command race; recovery |
| Rolling window, same file | ring of one-second buckets | `record`, `aggregate`, `reset`, percentiles | slot reuse, edges of the window |
| Sessions, `services/session.service.ts`, `controllers/auth.controller.ts` | `refreshTokens`, `activeAccessJtis`, `tokenVersion` of a row; version in Redis; revocations at the control plane | login, refresh, logout, password reset, invalidate | every handler reads the row, awaits, and writes; three stores; crashes in between |
| User rows, `db/User.ts` | table `users` | `findById`, `save`, `findByIdAndUpdate` | `save` writes back lists as loaded; updates are transactional |
| One-time codes, `services/email-link`, `oauth-pkce`, `oauth-exchange` | Redis keys or process memory | create, redeem | read-then-delete; silent failures; switching stores |
| Verification polls, `services/verification-poll` | same | create, resolve, revoke | same |
| Email migration, `controllers/migration.controller.ts` | migration fields of a row, history | initiate, verify both, finalise, resend | concurrent finalisers, several statements without a transaction |
| Identity index, `services/identity-index`, `db/UserIdentityIndex.ts`, `db/migrations.ts` | `user_identity_indexes` | sync, lookups, TTL sweeper, backfill | select-then-insert, sweeps between statements |
| Registration, `controllers/auth.controller.ts` | row and index | register, resend, verify | overlaps with migrations and OAuth |
| OAuth sign-in, `config/passport.ts` | row and index | find, link or create an account | two first sign-ins at once |
| Rate limiters, `robustRateLimiter.ts`, `middleware/limiter*`, `advancedLimiter.ts` | counters in Redis or memory | check, reset | fallback and return while requests overlap; not used by any route |
| Profile, validation, CSRF, email texts, boot, metrics | none of interest | | stateless or I/O |

Interactions: handlers call the session service, which updates the row through
`db/User.ts`, publishes the token version through `config/redis.ts`, and asks the
control plane to revoke access tokens (`services/revoke.service.ts`). Every Redis
command goes through the one breaker of the process. The API gateway, outside
this repository, reads the version from Redis and the revocations.

What makes each part correct:

* breaker: a slot per unsettled call, no more than the limits; no CLOSED circuit
  above its thresholds; HALF_OPEN bounded in probes and in time; recovery;
* window: exactly the calls of the last seconds are counted;
* sessions: a refresh token works once; a reset ends what came before it; what
  has ended stays ended; the gateway and the database agree;
* one-time codes: redeemed at most once, and not lost;
* migration and index: one owner per email, who has proved it; an index that
  follows the rows; migrations that complete, are spaced, and lose nothing;
* limiter: a bound on what a window admits, and no one-way trip into local mode.

The hazards, each at its line, are in `PROJECT.json`.

## 2. Plan

1. *Done*: `LatencyWindow`, `AgedWindow`, `RollingWindow`; `CircuitBreaker`;
   `Sessions`.
2. *Done*: `IdentityStore`, `Accounts`, `Migration` and what they promise together,
   `EmailOwnership`; `OneTimeCodes`; `RateLimiter`.
3. *Done*: the safety properties of the window (with its refinement of
   `AgedWindow`), the breaker, the sessions, the codes and the limiter are theorems.
4. *Done*: the theorems of the account models, one request at a time: types, the index,
   verified addresses, spacing, the profile, the former address, the reservation of
   the pending address, the history, and the refinement of `EmailOwnership`.
5. *Done*: what of the above is proved of requests that overlap, and under which
   condition on the overlap (`ProvedOverlapping`, `MovesOverlapping`).
6. Theorems to add: the index of requests that overlap. It is right again only after a
   backfill or the next sync of the account, so what it promises in between has to be
   stated first.
7. Models to add: the login limiter of `middleware/advancedLimiter.ts`, once a
   route uses it; token lifetimes in `Sessions`.

## 3. Modules

`LatencyWindow` holds the pure definitions: buckets, rates, percentiles, and the
window *by age*. A latency is the index of its histogram band, which is all that
the code keeps of it; a rate is compared with a percentage without dividing.

`RollingWindow` is `class RollingWindow`: the array of buckets addressed by the
clock modulo its length. `AgedWindow` is what it promises: a function from ages
to counts. `RollingWindow` implements `AgedWindow` (refinement mapping
`AgedStats`), so the breaker is modelled with the window by age, which has no
absolute time and keeps the state space finite.

`CircuitBreaker` is `class CircuitBreaker` and `withCircuitBreaker`. Every
callback runs to completion in JavaScript and is one action:

| Action | Code |
|---|---|
| `Acquire` (`AcquireClosed`, `AcquireOpen`, `AcquireHalfOpen`) | `acquire`, `acquireHalfOpen` |
| `Reply` | the command settles first; `finish`, `release` |
| `TimerFires` | the timer settles first |
| `LateReply` | the command settles after its timer: `settled` is set |
| `Reset` | `reset` (constant `ResetAllowed`; nothing in the service calls it) |
| `Tick` | the clock, and Redis going up or down |

Times are ages that stop where a comparison becomes true, and the streak counters
stop at their thresholds. `probe` on a call is a history flag: it was admitted as
a probe of the HALF_OPEN episode that is still going on. Rejections change only a
metrics counter and are not steps.

`Sessions` is one account. An action is what a request does up to its next await;
what it read stays in `req[r]`. `save()` writes the changed fields and every JSON
list that was loaded, so logout and the rehash of a legacy password write stale
lists; `findByIdAndUpdate` is a transaction on the current row. A token pair is
one number: its refresh token (and the hash the row stores) and the jti of its
access token. Faults are a constant: `"redis"` (a command is not executed),
`"revoke"` (the control plane misses a revocation), `"abort"` (the request dies
at an await, or a best-effort save fails). `ever` and `issued` are history.
`GatewayAccepts` describes the gateway as this code uses it.

`IdentityStore` holds the tables `users` and `user_identity_indexes` and the
statements on them. Only a statement is atomic: a handler is a chain of actions,
one for each await, and what it has read stays in `req[s]`. `Save` writes the
columns that the handler changed and the JSON lists that were loaded, and returns
the row; `SyncSelect`, `SyncWrite` and `SyncPrune` are the statements of
`syncIdentityIndexesFromUser`, shared by all handlers through a continuation.
`Sweep` is the TTL sweeper, `Crash` and `Boot` a restart with its backfill,
`StatementFails` a Postgres error (the handler answers 500 and what it wrote
stays). `UNIQUE` constraints are `Duplicate`. `broken`, `opened` and `movedAt` are
history.

`Accounts` adds the endpoints that make and verify accounts; `Migration` adds the
email migration, the login that finishes one and the cleanup script. The three
modules extend each other and are one state machine:

| Actions | Code |
|---|---|
| `Register...` | `register`: pending holder, lookup, row, save or insert, sync, mail |
| `ResendVerification...`, `VerifyEmail...` | `resendVerification`, `verifyEmail` |
| `OAuth...` | `findUserForOAuth` and the strategies of `config/passport.ts` |
| `UpdateBio...` | `updateBio` |
| `Initiate...`, `MigrationMail`, `Resend...` | `initiateMigration`, `resendMigrationEmails` |
| `VerifyMigration...`, `VerifyNew...`, `VerifyHistory...` | `verifyCurrentEmail`, `verifyNewEmail` |
| `Finalise...`, `Recover...` | `finalizeMigrationInternal`: the merge, the plain move, the repair of the bio, the catch |
| `FinalizeMigration`, `Login...`, `Cleanup...` | the endpoint, `login`, `scripts/cleanup-expired-migrations.ts` |

Addresses are in canonical form. The secrets of a row's links are numbers, the
mails they travel in are the set `links`, from which any mail may be missing; a
used link leaves it. Passwords are present or not. Of the profile only `bio` is
kept, which finalisation repairs separately.

`EmailOwnership` is the abstract specification of the three: accounts with
addresses and proofs. An address has one owner; an account only moves to an
address after the links to its present and to its next address were used; an
account only disappears in favour of such a move. `Ownership` in `Migration` is
the refinement mapping.

`OneTimeCodes` is every opaque code of the service over both of its stores, each
Redis command one step. `Keep` is the store chosen at creation, `ReadRedis`,
`DeleteRedis` and `ReadMemory` the consumption, `Accepts` the comparison with kind,
PKCE challenge or state, which the code makes after the deletion. A failed command
may have been executed or not, and nobody is told. `excused` marks the codes
whose deletion came too late or not at all, `lost` those that no store kept.

`RateLimiter` is `RobustRateLimiter` for one client: its count in Redis, the local
counts of each process, fallback, strict mode, probes and resets. Deadlines are
the ticks left, so behaviours are infinite and outages may recur for ever.

`RollingWindowProofs`, `CircuitBreakerProofs`, `SessionsProofs`, `OneTimeCodesProofs`
and `RateLimiterProofs` hold the theorems about the module they are named after.
`AccountsProofs` has the invariant of the three account modules, the lemmas about the
statements, `Accounts` and restarts, and the kinds of steps; `MigrationProofs` extends
it with the steps of a migration, the history, the reservations and the theorems. `Sums` holds facts about sums and folds over finite sets that
several of them need.

The remaining names of each module and the lines they model are in the `map` of
`PROJECT.json`. Operators marked `mutant` are not part of any specification; each
is a plausible bug that some property must detect.

## 4. Runs

| Run | States | Shows |
|---|---|---|
| `window` | 22,590 | whole-window counting, the aggregate, and the refinement, over slot reuse, empty seconds and resets |
| `breaker` | 997,267 | slots, thresholds, probes, cooldown, hysteresis |
| `breaker_live` | 79,528 | HALF_OPEN resolves, slots come back, the circuit closes once Redis is well; a `reset()` under running calls never leaves phantom slots |
| `sessions_serial` | 1,613,919 | the session guarantees, one request at a time, with faults |
| `sessions_concurrent` | 6,338,260 | what holds under every overlap of the four endpoints |
| `sessions_refresh_race` (violation) | | two overlapping refreshes of one token both succeed |
| `accounts` | 588,260 | the index follows the rows, and verified addresses are proved, over registration, verification, OAuth and profile changes with a failed statement and a restart |
| `migration` | 83,234 | a whole migration and the start of the next, in sequence, with resends, expiry, sweeps, cleanup and a restart: reservation, cooldown, profile, ownership, completion |
| `migration_concurrent` | 693,156 | index, history and ownership when finalisation, login, registration and profile changes overlap |
| `migration_finalise_race` (violation) | | two overlapping finalisations forget the former address |
| `codes` | 1,764,163 | one-time use, binding to kind, challenge and state, and presence in exactly one store |
| `limiter` | 440,924 | what a window admits in Redis and in a process, and the return to Redis |

`CountsWholeWindow` states exactly what `aggregate()` counts: its cutoff keeps
the second that is `windowSecs` old until the current second has a record of its
own, so the window lasts up to one second longer than `windowSecs`.

Together the session runs say: with requests of one account in sequence the
design works even when steps fail; it is their overlap, across an await between a
read and a write, that breaks it. The same holds of the migration. Ownership
and index survive the overlaps of the endpoints that `migration_concurrent` runs,
because they rest on the UNIQUE constraint and on a sync that is repeated; what rests
on a document read earlier does not, and with more endpoints or more migrations at a
time neither do those two (see the observations).

`OneTime` says exactly how far "one-time" goes: a code is honoured twice only if
two requests read it before either deleted it (GET and DEL are two commands), or
if its deletion was lost. `FleetBounded` says how far "never silently weakened"
goes: without strict mode, each process that has lost Redis admits up to
`2 * MaxRequests` in a sliding window of its own, as any fixed window does at its
boundary.

### Observations without a run of their own

Behaviours met while modelling. The models contain them, and the properties
above are stated so as to be true of them:

* a login or refresh that overlaps a password reset stores its session after it
  (`session.service.ts:125`); `ResetEndsOldSessions` is checked in sequence;
* a request publishes the token version it read before its awaits, which may be
  older than the published one (`session.service.ts:127`), and `tokenVersion` is
  itself read, incremented and saved across awaits;
* logout writes back the list it read and may drop or restore another session
  (`session.service.ts:143`);
* a login with a legacy hash writes the old password back over a reset
  (`db/User.ts:508`);
* the daily login counter is changed on the loaded document and never saved
  (`auth.controller.ts:304`), so `maxDailyLogins` is never reached;
* a result that arrives in HALF_OPEN counts as a probe's also when its call was
  admitted before the trip (`redisCircuitBreaker.ts:504`);
* a bio saved while a finalisation is running is overwritten by the preserved one
  (`migration.controller.ts`, verification of the bio); `BioSurvives` is checked
  in sequence;
* the former address may be registered by somebody else during the grace period
  and then resolves to the new account, whatever `migration.controller.ts:379`
  tells the owner;
* an account that appears at the new address after `initiateMigration` asked for
  confirmation is deleted without one;
* when the sync after a finalisation fails, the address an account has left still
  resolves to it, and its new one to nobody, until the next sync or restart
  (`migration.controller.ts`, after the move the answer is 500). Then another account
  that has proved the old address deletes the account that has moved away (`:59`, which
  takes the holder from the index and does not look at its email); and the
  account can itself migrate to the address it already has, which `initiateMigration`
  refuses only by way of the index (`:480`), so that its former address becomes its
  present one. TLC finds both with one refused statement; hence `MaxFaults = 0` in
  the theorems `Owned` and `FormerKept`;
* two accounts that migrate to the same address share one reservation, whose deadline
  the sync of either replaces, and which disappears when the account that holds it is
  merged away: with three accounts, the address of one that is still migrating is then
  free. `PendingReserved` therefore speaks of an address that one account alone
  has asked for (`SoleClaim`);
* two overlapping initiations both pass the check for a pending migration
  (`migration.controller.ts:440`, "Prevent one-to-many migrations"), and the second
  replaces the address, token and history entry of the first. A verification of the first migration's link that has
  looked its row up before the second save then sets the flag of a migration to
  another address, whose own link nobody has used: the one way that TLC found to a
  verified address without a proof (`AUTO_VERIFY_EMAIL` off);
* two migrations that overlap in a chain, one account from a to b and another from b
  to c, can delete an account whose address has just changed: the finalisation of the
  first releases and deletes by the identifier it has looked up before. So
  `OwnershipKept` does not hold of every overlap;
* a profile saved by an OAuth sign-in while a finalisation runs syncs the index from
  the row as it was, and the address that was given up resolves again. So
  `IndexResolves` does not hold of every overlap;
* a crash between the save of a link's flag and that of the history leaves a
  pending entry, which a login that finishes the migration does not settle;
* `clampConfig` warns when a recovery threshold is not below the one for opening, but
  two more relations are needed for a circuit never to close above its thresholds
  (`Hysteresis`): the recovery percentile below the timeout, and a timeout rate for
  opening of more than one percent;
* every request, refused ones included, moves the end of the limiter's key
  (`robustRateLimiter.ts:235`, where the comment says "on first request"), and
  `resetLimit` deletes a key without the limiter's prefix (`:279`).

Bounds. The window runs use fewer buckets than seconds, so every slot is reused,
and several records per second. The breaker runs have three callers (two for
liveness), more than `maxInflight` or `halfOpenProbes`, so that every limit is
met; thresholds are small so that each is crossed both by a streak and by the
statistics; `MaxLoad` bounds the calls in the window. The window of `breaker` (two
seconds) is longer than the shortest cooldown, so that recovery still sees the
calls that tripped the circuit; with a shorter one `ClosesOnlyWhenHealthy` would
say nothing. The session runs have
`MaxRefresh = 2`, so that eviction happens, and four or five pairs, enough for two
generations of rotation in two sessions; two requests are enough for each race
of a read with a write. `MaxJtis` equals the number of pairs in
`sessions_serial`: with fewer, an access token that is no longer tracked is
refused only through Redis, and `StaleAccessBlocked` needs Redis then.
The runs of the account models have two addresses and three rows: an owner, a
second account or placeholder at the other address, and one more that is
inserted while the second is being deleted. `MaxNow = 3` with links and grace
periods of one tick and a cooldown of two lets links expire, grace end, be swept
and cleaned up, and a second migration begin. `migration` and `accounts` have one
request and a restart at every await; `migration_concurrent` starts where both
links have been used, so that two requests meet in the finalisation. There is
one OAuth provider with two identities: a conflict between two providers only ends
the sign-in without a write, and does not arise. `codes` has three codes (state,
exchange code and one more, or two links with one form token), two requests and
two events of trouble; it is run outside production, where every code of
production can be made too. `limiter` has a limit of one request and three
requests at a time, so that the limit is passed in one process and between two.

`CHECK_DEADLOCK FALSE` in the session, account and code runs: they stop when the bounds
are used up, and a service may have nothing to do.

Fairness (`FairSpec` of `CircuitBreaker`): time passes; callers keep coming; a due
timer fires, since Node's event loop runs; while Redis is up it answers. Nothing
is assumed of Redis while it is down. `RecoversWithRedis` has the premise `BusyTraffic`: with
fewer than `recoverySuccesses` requests in `halfOpenMaxMs` the circuit goes back
to OPEN at the deadline each time and never closes. That is a consequence of the
code (probes are the service's own requests) to know when setting the two values.

`FairSpec` of `Migration`: a handler that was started goes on, since Node's event
loop runs and Postgres answers; a service that died is started again; and the
client keeps asking for the finalisation (strong fairness: the request is not
possible while the service is down or busy). The endpoint takes the request also
after the links have expired. Nothing is assumed of users, mails or the sweeper.
`Spec` of `RateLimiter`: time passes, replies and timeouts arrive, and clients
keep sending requests, on which the probes ride. Outages may come at any time;
`Recovers` speaks of the periods in which Redis stays reachable.

## 5. Assumptions

`WindowAssumption`, `ClockAssumption`, `BreakerAssumption` and
`SessionsAssumption` say that sizes, thresholds and limits are positive (what
`clampConfig` enforces), rates are percentages and the set of callers is finite;
`StoreAssumption`, `AccountsAssumption`, `CodesAssumption` and `LimiterAssumption`
that lifetimes, gaps and limits are positive, the seed fits the table, the set of
requests handled at a time is finite, and the name that stands for Redis in the
limiter is not that of a process. `SeedAssumption` says that the accounts at the start
are ones the service can have made: no two share an address, an OAuth identity or a
secret, and the columns of a row agree (a link's flag only in a migration, a migration or
a former address only on a verified account, no verification link left on one; a history
only on an account that was verified, and with an entry for what is pending).
`OwnershipAssumption` says that the two words which stand for an account that does
not exist are no addresses. TLC evaluates them in every run of their modules.

Some theorems have a hypothesis, which is a definition of the module and part of
the theorem's statement. Each is the point of the theorem: it says what a guarantee
of the code depends on.

| Hypothesis | Says | Needed by |
|---|---|---|
| `~ResetAllowed` | nothing calls `reset()`, as at this commit | `SlotsSafe` |
| `Hysteresis` | recovery thresholds below those for opening, a timeout counted above the recovery percentile, and a timeout rate that one timeout in a hundred calls does not reach | `ClosesHealthy` |
| `OneAtATime` (`SessionsProofs`) | requests of one account do not overlap | `SingleUse`, `ResetEnds`, `StaleForGood`, `LogoutIsLocal`, `RevocationSuffices`, `VersionSuffices` |
| `OneAtATime` (`AccountsProofs`) | requests of the account endpoints do not overlap; sweeps, ticks, new token versions, crashes and restarts may come at every await | the theorems of `MigrationProofs` |
| `[]Steady` (`MigrationProofs`) | requests may overlap in any way, but a migration is not replaced by another while its verification or finalisation is under way: which takes two initiations that overlap, or a request that outlasts the cooldown | `ProvedOverlapping`, `MovesOverlapping` |
| `MaxFaults = 0` | Postgres refuses no statement, at boot included; crashes and restarts remain | `FormerKept`, `Owned`, `HistoriesSettled` |
| `MaxCrashes = 0` | and the service does not die between two saves of one request | `HistoriesSettled` |
| `Told(Seed[u])` | the accounts at the start have a history that agrees with their columns | `HistoriesSettled` |
| `~AutoVerifyEmail` | `AUTO_VERIFY_EMAIL` is off: with it, `register` verifies unproved addresses by design | `ProvedVerified`, `AddressesReserved`, `ProvedOverlapping`, `MovesOverlapping` |
| `RevocationHolds` | the control plane misses no revocation, and a row tracks as many access tokens as exist | `RevocationSuffices` |
| `VersionsHold` | Redis executes every command and no request dies half-way | `VersionSuffices` |

`RevocationHolds` and `VersionsHold` are alternatives: the gateway refuses stale access tokens if either
of its two sources of truth is reliable.

## 6. Proofs

Each theorem holds for every value of the constants that the assumptions admit, so for
any number of callers, requests, processes, codes and users, and any thresholds.
The theorems that matter most are listed in `PROJECT.json`.

`Sums`: a sum over a finite set is a fold over its subsets. The library's induction
theorems cannot be used (their parameter is an operator), so `SubsetInduction` takes
a *collection* of subsets: one that contains every subset whose strict subsets it
contains, contains them all, since it would otherwise miss a smallest one
(`WFMin`). From it: existence and uniqueness of the fold, taking out and changing an
element, parts, renaming, and equality of row sums and column sums (`Table`).

`RollingWindowProofs`
* `RingImplementsWindow`: `Spec => AgedSpec`, the ring of slots addressed by the clock
  implements the window by age. The invariant says that a bucket lies at its own
  second's slot and is not of the future; two seconds of the window never share a slot
  (`AgesApart`, a fact on residues).
* `CountsEveryAge`, `AggregateReadsEachAgeOnce` and `WholeWindowCounted`
  (`CountsWholeWindow`): the slots that `aggregate()` reads are a renaming of the
  ages of the window, so the sum of the first is the sum of the second.

`CircuitBreakerProofs`
* `TypeCorrect`: `TypeOK`. Inductive as it stands; the window's part rests on lemmas
  about `Count`, `RecordAged` and `SecondPasses`.
* `FastDetector`: `ClosedBelowThresholds`. A circuit becomes CLOSED by a success, which
  zeroes both counters, or by `reset`; while CLOSED every failure that reaches a
  threshold trips in the same step.
* `SlotsSafe`: `inflight` is the number of running calls, and at most the greater of
  `maxInflight` and `halfOpenProbes`. The bound is guarded through `inflight`, so it
  needs the equality; cardinalities change by one (`AcquireSlots`, `SettleSlots`).
  The bound is `ConcurrencyBounded`, which no run repeats.
* `NeverOvercounts`: `InflightNeverOvercounts`, which also holds with `reset()`: it
  forgets running calls, and their late releases stop at zero.
* `ProbesBounded`: `ProbeBudget`. The strengthening says that there are no probes
  outside HALF_OPEN; without it a new episode, which sets `probesDispatched` to zero,
  could start with probes of the last one.
* `CooldownKept`: `CooldownNotExtended`. The strengthening is `openAge <= cooldown` while
  OPEN; every callback leaves the OPEN state untouched, leaves it, or enters it afresh.
* `ClosesHealthy`: `Hysteresis => (Spec => ClosesOnlyWhenHealthy)`. The invariant
  (`WindowOK`) says of every bucket that its total is the sum of its histogram and that
  its timeouts are in the slow bands; the sums of the window inherit both
  (`AggregateOK`, by exchanging the order of summation). A percentile below the
  recovery threshold then bounds the calls in slow bands, so the timeouts.

`SessionsProofs`
* Whatever overlaps and whatever fails: `TypeCorrect`, `Bounded` (`SessionsBounded`), `TokensStayGone` (`NoResurrection`) and `RotationIsLocal`
  (`RotationSparesOthers`). The invariant: lists, stored or carried by a request, are
  injective, within their limits and of known pairs; a pair that a request has minted
  and not stored is in no list, and differs from every other request's.
* One request at a time, whatever fails: `SingleUse`, `ResetEnds`, `StaleForGood`,
  `LogoutIsLocal`. The invariant adds that what a request carries is what the row
  contains, which is what an overlap breaks.
* `RevocationSuffices` and `VersionSuffices`: `StaleAccessBlocked` from either source.

`OneTimeCodesProofs`, whatever overlaps and whatever fails
* `OneTimeUse` (`OneTime`), `Binding` (`Bound`) and `HeldInOneStore` (`HeldOnce`). The
  invariant says that a code without an excuse has one use left at most (it is in one
  store, or in the hands of one request, or has been used and is in neither);
  and that a request which reads an exchange code has had the state accepted to which
  the exchange code belongs.

`RateLimiterProofs`, for any number of processes
* `FleetBound` (`FleetBounded`). Redis has counted every request it admitted within the
  window, because the key outlives them. A process has admitted the requests of the
  window by its present entry (as many as it counted) or by no more than one entry
  before it; the invariant bounds the two parts of the sum separately. In strict
  mode a process admits none.

`AccountsProofs` and `MigrationProofs`, one request at a time, with a crash, a refused
statement, a sweep, a deadline or a new token version at any await

The properties rest on one another: an address is proved because a link was used, the
link says what the row said when it was mailed, the row is found through the index, and
the index is right because every change of a row is followed by a sync. So none of them
is inductive alone, and `Inv` has a part for each:

* `Rows`: the columns of a row agree (`Consistent`: flags only with the links used,
  dates in order, a verified address proved) and no two rows share an address, an
  identity or a secret (`Apart`);
* `Mails`: a mailed link whose secret a row still has says what that row says (`Tells`);
* `Index`: an entry names an existing account that it fits (`Fits`); and unless a
  statement has failed since the last backfill, an account's permanent entries are
  exactly what its row wants (`Settled`) or the request that changed it is on its way to
  sync it (`Behind`);
* `Knows`, for the request at each await: the document it carries is what the row
  contains (`Documents`), what has been used of its migration (`Migrating`), that an
  address it looked up is held by whom it found (`Lookups`, while no statement is
  refused), which link was used (`Verifying`), and which entries of a sync are written
  (`Syncing`).

A step is `Good` when it keeps `Inv` and does what the action properties allow. There is
one lemma for each action of the three modules, over common ones for steps that read,
mail, write a row, insert one or sync; `Backfilled` shows that the backfill, a fold over
the rows, leaves every account settled, and `NextGood` puts them together. From it:

* `TypeCorrect` (`TypeOK`), `IndexFollows` (`IndexResolves`), `ProvedVerified`
  (`VerifiedIsProved`), `FormerKept` (`FormerAddressKept`);
* `Spaced` (`MigrationsSpaced`) and `BioKept` (`BioSurvives`), of every step;
* `Owned` (`OwnershipKept`): the accounts implement `EmailOwnership`, step by step.

Two properties depend on what `Inv` leaves out, the contents of the history and the
deadlines of entries. They have invariants of their own, on top of `Inv`, and so that
neither has to look at all fifty-five steps again, the end of `AccountsProofs` sorts the
steps by what they do (`Kinds`): a step is `Calm` (it writes neither rows nor
index), an `Edit` of the row of its document, which leaves the migration of that row
`Same`, or `Initiated`, `Flagged`, `Noted` or `Concluded`; it `Inserts` a row without a
migration; it is an `IndexStep`; or it is one of a few that are treated by name. All the
while a request `Recalls`: the history that it carries to write back is the row's.

* `HistoriesSettled` (`HistorySettled`), by `HistInv`: the last entry of a history is that
  of the pending migration with its flags, and every other is shown as a success, but for
  a row one of whose flags has just been saved and not yet been noted
  (`ToldSoon`). A crash or a refused statement at that point is what the hypotheses exclude.
* `AddressesReserved` (`PendingReserved`), by `ResInv`. `Holds`: a pending address that
  one account alone has asked for is held for it until the links expire, or the sync of the
  account is on its way, or a statement has failed since the backfill. It needs
  `Claims` (what is pending is in the history, and whoever has asked for an address has
  been vouched for), `Names` (a verification link names the account that has its
  secret) and `Reserving` (what a running sync has written). Nobody else having
  asked for the address is a statement about the present *and* the past; `Monotone`
  and `SoleBefore` say that no step takes a request for an address back, so a claim
  that is the only one now was so before. The expiry of an entry, the sweeper and the
  backfill then cannot take it away: its deadline is that of the links (`StillReserved`,
  `Filled`).

The hypothesis that requests do not overlap is the one the code does not enforce: what a
request has read may then change before it writes, as `migration_finalise_race`
shows. The last part of `MigrationProofs` is about requests that overlap, any number
of them, with crashes, refused statements and sweeps, AUTO_VERIFY_EMAIL off. `Inv` is of no
use there, for it says that what a request carries is what the row contains.
`Honesty` keeps only what no other request can undo: that a link has been used, that an
address is proved, and of an account that a request has found by an address, that it has
that address still or one that is proved (`Rooted`), since an account only moves to
an address whose link it has used. `Grows` says that of a step, with its counterparts for
secrets (a row keeps its secret, drops it, or takes one that nobody had), and `Lasting`
and `StillInformed` say that what any request has found out (`Informed`) outlives
every step that `Grows`. So a step need only be looked at for the request that takes it.
One thing is not of this kind: a link, or a document, with the flag for a pending
address is as good as that address, which another initiation may replace. `Steady` says
that none does so while the flag, or the finalisation, is being saved.

* `SteadyInSequence`: requests one at a time are `Steady`.
* `ProvedOverlapping`: `Steady` all along, `VerifiedIsProved` holds.
* `MovesOverlapping`: and an account only moves to an address whose link it has used.

So a migration that is replaced under way, as by the overlapping initiations among the
observations of section 4, is the only thing that can verify, or move an account to,
an address nobody proved to have. What else holds of overlapping requests is checked
by `migration_concurrent`, for its endpoints, and not proved.

Every invariant and action property of the passing runs is stated by a theorem. Only
model-checked: liveness (`HalfOpenResolves`, `SlotsAlwaysReleased`,
`RecoversWithRedis`, `VerifiedCompletes`, `Recovers`), which is out of the prover's
reach, and of the account models with overlapping requests, all but `VerifiedIsProved`.

## 7. Not modelled

* Token signatures and lifetimes, hashing, SQL text, email and HTTP formats, log
  lines and metrics, process start-up.
* A Redis command that the breaker gave up on may still be executed later; for
  the token version this is one more way to publish an old value, and is not a
  step of `Sessions`. In `OneTimeCodes` such a command takes effect at once or
  never.
* The breaker is not composed with its users: a rejected command is to them one
  that failed, which is a step of `Sessions` and `OneTimeCodes` at any time.
* The sessions that `verifyEmail` and OAuth open are logins of `Sessions`; the
  version a finalised migration gives the row is written in `Migration` and
  published as in `Sessions`.
* `middleware/limiter.middleware.ts` wraps the stores of a library, and
  `middleware/advancedLimiter.ts` one record per client and address; no route uses
  either, or `RobustRateLimiter`, at this commit.
* Request validation and CSRF protection look at one request and keep no state;
  scripts under `scripts/` other than the cleanup are tests and tools.
