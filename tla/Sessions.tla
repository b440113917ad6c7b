------------------------------- MODULE Sessions ------------------------------
(***************************************************************************)
(* The sessions of one account: login, token refresh, logout and password  *)
(* reset (src/controllers/auth.controller.ts), the session service they    *)
(* call (src/services/session.service.ts), the account's row in Postgres   *)
(* (src/db/User.ts) and the two things the gateway looks at, the token     *)
(* version in Redis and the revoked access tokens.                         *)
(*                                                                         *)
(* A request runs up to its next await as one action.  What it has read    *)
(* from the row before an await it keeps, and may write back after other   *)
(* requests have changed the row: save() writes the fields it was loaded   *)
(* with, whatever the row has become; findByIdAndUpdate changes the row in *)
(* a transaction.                                                          *)
(*                                                                         *)
(* A login or a refresh mints a pair, an access token and a refresh token. *)
(* The pair is one number here: its refresh token, the hash of it that the *)
(* row stores and the jti of its access token.                             *)
(***************************************************************************)
EXTENDS Integers, Sequences, FiniteSets, Functions

CONSTANTS
    Reqs,            \* requests the service handles at the same time
    Kinds,           \* the endpoints in use
    Faults,          \* what may fail
    MaxRefresh,      \* MAX_REFRESH
    MaxJtis,         \* MAX_JTIS
    MaxDailyLogins,  \* rateLimitConfig.login.maxDailyLogins
    LegacyHash,      \* whether the stored password hash predates the pepper
    MaxTokens,       \* bound: pairs minted
    MaxVersion,      \* bound: token versions
    MaxResets        \* bound: password resets requested

AllKinds  == {"login", "refresh", "logout", "reset"}
AllFaults == {"redis",   \* a Redis command is not executed (breaker, outage)
              "revoke",  \* the control plane does not take a revocation
              "abort"}   \* a request dies at an await (exception, restart)

ASSUME SessionsAssumption ==
    /\ Kinds \subseteq AllKinds /\ Faults \subseteq AllFaults
    /\ {MaxRefresh, MaxJtis, MaxDailyLogins} \subseteq Nat \ {0}
    /\ LegacyHash \in BOOLEAN
    /\ {MaxTokens, MaxVersion, MaxResets} \subseteq Nat

VARIABLES
    row,        \* the account's row in users
    req,        \* the requests in progress: where they are and what they read
    redisTv,    \* gateway:user:tv:<user>, NoVersion when absent
    revoked,    \* access tokens the gateway has been told to refuse
    tokens,     \* every pair minted, in order
    issued,     \* pairs that reached the client
    resets,     \* password reset links sent
    ever        \* history: refresh tokens that were ever stored in the row

vars == <<row, req, redisTv, revoked, tokens, issued, resets, ever>>

NoVersion == -1
Ids == 1..Len(tokens)
Stored == Range(row.refreshTokens)

(***************************************************************************)
(* A request: idle, or at an await with the values it carries across it.   *)
(***************************************************************************)
Idle == [pc |-> "idle", tok |-> 0, new |-> 0, tv |-> 0, pw |-> 0, rts |-> <<>>, jtis |-> <<>>]

Pcs == {"idle", "rehash", "push", "reread", "rotate", "publish",
        "invread", "invsave", "invpublish", "logoutsave", "logoutrevoke",
        "pubset", "pubget", "resetsave"}

\* r goes on to pc, keeping tok and new
Goto(r, pc) == [req EXCEPT ![r].pc = pc]
Finish(r)   == [req EXCEPT ![r] = Idle]

Init ==
    /\ row = [refreshTokens |-> <<>>, activeAccessJtis |-> <<>>, tokenVersion |-> 0,
              password |-> 0, legacyHash |-> LegacyHash, resetToken |-> 0,
              loginCount |-> 0, lastLogin |-> "never"]
    /\ req = [r \in Reqs |-> Idle]
    /\ redisTv = NoVersion
    /\ revoked = {} /\ tokens = <<>> /\ issued = {} /\ resets = 0 /\ ever = {}

------------------------------------------------------------------------------
(* applyUpdate() of src/db/User.ts *)

\* mutant: $slice keeps one too many
PushSliceLong(s, x, max) ==
    LET t == Append(s, x)
    IN  IF Len(t) > max + 1 THEN SubSeq(t, Len(t) - max, Len(t)) ELSE t

\* mutant: $slice keeps one too few
PushSliceShort(s, x, max) ==
    LET t == Append(s, x)
    IN  IF Len(t) > max - 1 THEN SubSeq(t, Len(t) - max + 2, Len(t)) ELSE t

\* $push with $each and $slice: -max, the newest max entries stay
PushSlice(s, x, max) ==
    LET t == Append(s, x)
    IN  IF Len(t) > max THEN SubSeq(t, Len(t) - max + 1, Len(t)) ELSE t

\* $pull, and the filter of removeRefreshToken.  A list never holds a token
\* twice (SessionsBounded), so removing one occurrence removes them all.
Pull(s, x) ==
    IF \E i \in DOMAIN s : s[i] = x
    THEN LET i == CHOOSE i \in DOMAIN s : s[i] = x
         IN  [k \in 1..(Len(s) - 1) |-> IF k < i THEN s[k] ELSE s[k + 1]]
    ELSE s

\* $push comes before $pull, whatever their order in the update
PushPull(s, new, old, max) == Pull(PushSlice(s, new, max), old)

------------------------------------------------------------------------------
(* Steps shared by several requests *)

Mint(parent, tv, pw) ==
    /\ Len(tokens) < MaxTokens
    /\ tokens' = Append(tokens, [tv |-> tv, pw |-> pw, parent |-> parent])

\* publishTokenVersion: cacheSet does nothing when Redis does not take it
SetRedisTv(tv) ==
    \/ redisTv' = tv
    \/ "redis" \in Faults /\ UNCHANGED redisTv

\* revokeAllTrackedAccessJtis: best effort, one call per jti
RevokeAll(jtis) ==
    \E lost \in IF "revoke" \in Faults THEN SUBSET Range(jtis) ELSE {{}} :
        revoked' = revoked \cup (Range(jtis) \ lost)

\* the access token that goes with t, if the client sends it along
MayRevoke(t) == revoked' \in {revoked, revoked \cup {t}}

\* a token that enters the row
Remember(t) == ever' = ever \cup {t}

\* authenticate() of this service, on the access token of pair t
TokenVersionStale(t, user) == tokens[t].tv # user.tokenVersion

\* the gateway, outside this repository: it refuses revoked tokens and, when
\* it finds a version in Redis, tokens of another one
GatewayAccepts(t) == t \notin revoked /\ redisTv \in {NoVersion, tokens[t].tv}

------------------------------------------------------------------------------
(* login (and an OAuth sign-in, which only skips the password) *)

DailyLimitReached(u) == u.lastLogin = "today" /\ u.loginCount >= MaxDailyLogins

(***************************************************************************)
(* findById, password check, daily limit, generateTokenPair.  The login    *)
(* counters it updates are never saved.  A legacy hash is written again    *)
(* first: comparePassword calls save().                                    *)
(***************************************************************************)
LoginRead(r) ==
    /\ "login" \in Kinds
    /\ req[r].pc = "idle"
    /\ ~DailyLimitReached(row)
    /\ \/ /\ row.legacyHash
          /\ req' = [req EXCEPT ![r] = [Idle EXCEPT !.pc = "rehash", !.tv = row.tokenVersion,
                                          !.pw = row.password, !.rts = row.refreshTokens]]
          /\ UNCHANGED tokens
       \/ /\ ~row.legacyHash
          /\ Mint(0, row.tokenVersion, row.password)
          /\ req' = [req EXCEPT ![r] = [Idle EXCEPT !.pc = "push", !.new = Len(tokens'),
                                                    !.tv = row.tokenVersion]]
    /\ UNCHANGED <<row, redisTv, revoked, issued, resets, ever>>

\* save() writes the password and the loaded refreshTokens, then reloads the
\* row; when it fails the login goes on with what was read
LoginRehash(r) ==
    /\ req[r].pc = "rehash"
    /\ \E tv \in {row.tokenVersion, req[r].tv} :
        /\ \/ /\ tv = row.tokenVersion
              /\ row' = [row EXCEPT !.password = req[r].pw, !.legacyHash = FALSE,
                                    !.refreshTokens = req[r].rts]
           \/ /\ "abort" \in Faults
              /\ tv = req[r].tv
              /\ UNCHANGED row
        /\ Mint(0, tv, req[r].pw)
        /\ req' = [req EXCEPT ![r] = [Idle EXCEPT !.pc = "push", !.new = Len(tokens'), !.tv = tv]]
    /\ UNCHANGED <<redisTv, revoked, issued, resets, ever>>

\* persistSessionTokens: the update
PersistSessionTokens(r) ==
    /\ req[r].pc = "push"
    /\ row' = [row EXCEPT !.refreshTokens = PushSlice(@, req[r].new, MaxRefresh),
                          !.activeAccessJtis = PushSlice(@, req[r].new, MaxJtis)]
    /\ req' = Goto(r, "publish")
    /\ Remember(req[r].new)
    /\ UNCHANGED <<redisTv, revoked, tokens, issued, resets>>

\* the version read at the start is published, and the pair is returned
PublishAndRespond(r) ==
    /\ req[r].pc = "publish"
    /\ SetRedisTv(req[r].tv)
    /\ issued' = issued \cup {req[r].new}
    /\ req' = Finish(r)
    /\ UNCHANGED <<row, revoked, tokens, resets, ever>>

------------------------------------------------------------------------------
(* refreshAccessToken *)

(***************************************************************************)
(* findById, then the presented token must be stored; one that is not is   *)
(* taken for reuse and ends every session.                                 *)
(***************************************************************************)
RefreshRead(r, t) ==
    /\ "refresh" \in Kinds
    /\ req[r].pc = "idle"
    /\ t \in issued
    /\ \/ /\ t \notin Stored
          /\ req' = [req EXCEPT ![r] = [Idle EXCEPT !.pc = "invread"]]
          /\ UNCHANGED tokens
       \/ /\ t \in Stored
          /\ Mint(t, row.tokenVersion, row.password)
          /\ req' = [req EXCEPT ![r] = [Idle EXCEPT !.pc = "reread", !.tok = t,
                                           !.new = Len(tokens'), !.tv = row.tokenVersion]]
    /\ UNCHANGED <<row, redisTv, revoked, issued, resets, ever>>

\* the prior access token is revoked; rotateSessionTokens looks again
RotateRead(r) ==
    /\ req[r].pc = "reread"
    /\ MayRevoke(req[r].tok)
    /\ req' = IF req[r].tok \in Stored
              THEN Goto(r, "rotate")
              ELSE [req EXCEPT ![r] = [Idle EXCEPT !.pc = "invread"]]
    /\ UNCHANGED <<row, redisTv, tokens, issued, resets, ever>>

\* mutant: the old token is not pulled
RotateWriteNoPull(r) ==
    /\ req[r].pc = "rotate"
    /\ row' = [row EXCEPT !.refreshTokens = PushSlice(@, req[r].new, MaxRefresh),
                          !.activeAccessJtis = PushSlice(@, req[r].new, MaxJtis)]
    /\ req' = Goto(r, "publish")
    /\ Remember(req[r].new)
    /\ UNCHANGED <<redisTv, revoked, tokens, issued, resets>>

\* mutant: the old token is pushed and the new one pulled
RotateWriteSwapped(r) ==
    /\ req[r].pc = "rotate"
    /\ row' = [row EXCEPT
                 !.refreshTokens = PushPull(@, req[r].tok, req[r].new, MaxRefresh),
                 !.activeAccessJtis = PushSlice(@, req[r].new, MaxJtis)]
    /\ req' = Goto(r, "publish")
    /\ Remember(req[r].new)
    /\ UNCHANGED <<redisTv, revoked, tokens, issued, resets>>

\* the update asks for the row by id only: the old token may be gone by now
RotateWrite(r) ==
    /\ req[r].pc = "rotate"
    /\ row' = [row EXCEPT
                 !.refreshTokens = PushPull(@, req[r].new, req[r].tok, MaxRefresh),
                 !.activeAccessJtis = PushSlice(@, req[r].new, MaxJtis)]
    /\ req' = Goto(r, "publish")
    /\ Remember(req[r].new)
    /\ UNCHANGED <<redisTv, revoked, tokens, issued, resets>>

------------------------------------------------------------------------------
(* invalidateAllSessions *)

\* mutant: the tracked access tokens are forgotten, not revoked
InvalidateReadNoRevoke(r) ==
    /\ req[r].pc = "invread"
    /\ row.tokenVersion < MaxVersion
    /\ req' = [req EXCEPT ![r] = [Idle EXCEPT !.pc = "invsave", !.tv = row.tokenVersion]]
    /\ UNCHANGED <<row, redisTv, revoked, tokens, issued, resets, ever>>

\* findById, and the revocation of the access tokens that it returns
InvalidateRead(r) ==
    /\ req[r].pc = "invread"
    /\ row.tokenVersion < MaxVersion
    /\ RevokeAll(row.activeAccessJtis)
    /\ req' = [req EXCEPT ![r] = [Idle EXCEPT !.pc = "invsave", !.tv = row.tokenVersion]]
    /\ UNCHANGED <<row, redisTv, tokens, issued, resets, ever>>

\* mutant: the version moves the wrong way
InvalidateSaveBack(r) ==
    /\ req[r].pc = "invsave"
    /\ row' = [row EXCEPT !.refreshTokens = <<>>, !.activeAccessJtis = <<>>,
                          !.tokenVersion = req[r].tv - 1]
    /\ req' = [req EXCEPT ![r] = [Idle EXCEPT !.pc = "invpublish", !.tv = req[r].tv - 1]]
    /\ UNCHANGED <<redisTv, revoked, tokens, issued, resets, ever>>

\* save(): no session is left, the version is one above the one read
InvalidateSave(r) ==
    /\ req[r].pc = "invsave"
    /\ row' = [row EXCEPT !.refreshTokens = <<>>, !.activeAccessJtis = <<>>,
                          !.tokenVersion = req[r].tv + 1]
    /\ req' = [req EXCEPT ![r] = [Idle EXCEPT !.pc = "invpublish", !.tv = req[r].tv + 1]]
    /\ UNCHANGED <<redisTv, revoked, tokens, issued, resets, ever>>

\* the new version is published, the refresh is answered with 401
InvalidatePublish(r) ==
    /\ req[r].pc = "invpublish"
    /\ SetRedisTv(req[r].tv)
    /\ req' = Finish(r)
    /\ UNCHANGED <<row, revoked, tokens, issued, resets, ever>>

------------------------------------------------------------------------------
(* logout *)

\* removeRefreshToken: a token that is not stored leaves nothing to save
LogoutRead(r, t) ==
    /\ "logout" \in Kinds
    /\ req[r].pc = "idle"
    /\ t \in issued
    /\ req' = [req EXCEPT ![r] = [Idle EXCEPT
                  !.pc = IF t \in Stored THEN "logoutsave" ELSE "logoutrevoke",
                  !.tok = t,
                  !.rts = IF t \in Stored THEN row.refreshTokens ELSE <<>>]]
    /\ UNCHANGED <<row, redisTv, revoked, tokens, issued, resets, ever>>

\* mutant: logout ends every session
LogoutSaveAll(r) ==
    /\ req[r].pc = "logoutsave"
    /\ row' = [row EXCEPT !.refreshTokens = <<>>]
    /\ req' = [req EXCEPT ![r] = [Idle EXCEPT !.pc = "logoutrevoke", !.tok = req[r].tok]]
    /\ UNCHANGED <<redisTv, revoked, tokens, issued, resets, ever>>

\* save() writes the whole list as it was read, without the token
LogoutSave(r) ==
    /\ req[r].pc = "logoutsave"
    /\ row' = [row EXCEPT !.refreshTokens = Pull(req[r].rts, req[r].tok)]
    /\ req' = [req EXCEPT ![r] = [Idle EXCEPT !.pc = "logoutrevoke", !.tok = req[r].tok]]
    /\ UNCHANGED <<redisTv, revoked, tokens, issued, resets, ever>>

LogoutRevoke(r) ==
    /\ req[r].pc = "logoutrevoke"
    /\ MayRevoke(req[r].tok)
    /\ req' = Finish(r)
    /\ UNCHANGED <<row, redisTv, tokens, issued, resets, ever>>

------------------------------------------------------------------------------
(* requestPasswordReset and resetPassword *)

\* only scalar fields are written, none of them read before
RequestPasswordReset ==
    /\ "reset" \in Kinds
    /\ resets < MaxResets
    /\ resets' = resets + 1
    /\ row' = [row EXCEPT !.resetToken = resets + 1]
    /\ UNCHANGED <<req, redisTv, revoked, tokens, issued, ever>>

\* findOne by the reset token
ResetRead(r) ==
    /\ "reset" \in Kinds
    /\ req[r].pc = "idle"
    /\ row.resetToken # 0
    /\ row.tokenVersion < MaxVersion
    /\ req' = [req EXCEPT ![r] = [Idle EXCEPT !.pc = "pubset", !.tv = row.tokenVersion,
                                  !.pw = row.resetToken, !.jtis = row.activeAccessJtis]]
    /\ UNCHANGED <<row, redisTv, revoked, tokens, issued, resets, ever>>

ResetPublishSet(r) ==
    /\ req[r].pc = "pubset"
    /\ SetRedisTv(req[r].tv + 1)
    /\ req' = Goto(r, "pubget")
    /\ UNCHANGED <<row, revoked, tokens, issued, resets, ever>>

\* published only if Redis now holds the new version, and then the access
\* tokens read at the start are revoked; else 503, nothing saved
ResetPublishGet(r) ==
    /\ req[r].pc = "pubget"
    /\ \/ /\ redisTv = req[r].tv + 1
          /\ RevokeAll(req[r].jtis)
          /\ req' = [req EXCEPT ![r].pc = "resetsave", ![r].jtis = <<>>]
       \/ /\ redisTv # req[r].tv + 1 \/ "redis" \in Faults
          /\ req' = Finish(r)
          /\ UNCHANGED revoked
    /\ UNCHANGED <<row, redisTv, tokens, issued, resets, ever>>

\* mutant: the reset leaves the refresh tokens of the old password
ResetSaveKeepsTokens(r) ==
    /\ req[r].pc = "resetsave"
    /\ row' = [row EXCEPT !.password = req[r].pw, !.legacyHash = FALSE, !.resetToken = 0,
                          !.activeAccessJtis = <<>>, !.tokenVersion = req[r].tv + 1]
    /\ req' = Finish(r)
    /\ UNCHANGED <<redisTv, revoked, tokens, issued, resets, ever>>

\* mutant: a reset starts the versions over
ResetSaveVersionZero(r) ==
    /\ req[r].pc = "resetsave"
    /\ row' = [row EXCEPT !.password = req[r].pw, !.legacyHash = FALSE, !.resetToken = 0,
                          !.refreshTokens = <<>>, !.activeAccessJtis = <<>>,
                          !.tokenVersion = 0]
    /\ req' = Finish(r)
    /\ UNCHANGED <<redisTv, revoked, tokens, issued, resets, ever>>

\* save(); the new password is named after the reset that set it
ResetSave(r) ==
    /\ req[r].pc = "resetsave"
    /\ row' = [row EXCEPT !.password = req[r].pw, !.legacyHash = FALSE, !.resetToken = 0,
                          !.refreshTokens = <<>>, !.activeAccessJtis = <<>>,
                          !.tokenVersion = req[r].tv + 1]
    /\ req' = Finish(r)
    /\ UNCHANGED <<redisTv, revoked, tokens, issued, resets, ever>>

------------------------------------------------------------------------------

\* an exception at an await (500), or the process stops
Abort(r) ==
    /\ "abort" \in Faults
    /\ req[r].pc # "idle"
    /\ req' = Finish(r)
    /\ UNCHANGED <<row, redisTv, revoked, tokens, issued, resets, ever>>

Next ==
    \/ RequestPasswordReset
    \/ \E r \in Reqs :
        \/ LoginRead(r) \/ LoginRehash(r) \/ PersistSessionTokens(r) \/ PublishAndRespond(r)
        \/ \E t \in issued : RefreshRead(r, t) \/ LogoutRead(r, t)
        \/ RotateRead(r) \/ RotateWrite(r)
        \/ InvalidateRead(r) \/ InvalidateSave(r) \/ InvalidatePublish(r)
        \/ LogoutSave(r) \/ LogoutRevoke(r)
        \/ ResetRead(r) \/ ResetPublishSet(r) \/ ResetPublishGet(r) \/ ResetSave(r)
        \/ Abort(r)

Spec == Init /\ [][Next]_vars

------------------------------------------------------------------------------
(* Properties *)

Token == [tv : Nat, pw : Nat, parent : Nat]

TypeOK ==
    /\ row \in [refreshTokens : Seq(Nat), activeAccessJtis : Seq(Nat), tokenVersion : Nat,
                password : Nat, legacyHash : BOOLEAN, resetToken : Nat,
                loginCount : Nat, lastLogin : {"never", "today"}]
    /\ req \in [Reqs -> [pc : Pcs, tok : Nat, new : Nat, tv : Nat, pw : Nat,
                         rts : Seq(Nat), jtis : Seq(Nat)]]
    /\ redisTv \in Nat \cup {NoVersion}
    /\ tokens \in Seq(Token)
    /\ resets \in Nat
    /\ revoked \subseteq Nat /\ issued \subseteq Nat /\ ever \subseteq Nat

\* The row never holds more sessions than MAX_REFRESH and never more jtis than
\* MAX_JTIS, and no session twice, whatever stale lists are written back.
SessionsBounded ==
    /\ Len(row.refreshTokens) <= MaxRefresh
    /\ Len(row.activeAccessJtis) <= MaxJtis
    /\ IsInjective(row.refreshTokens)

\* A refresh token is redeemed for at most one new pair: whoever presents it a
\* second time gets nothing ("refresh-token reuse detection").
RefreshTokenSingleUse ==
    \A t, u \in issued :
        tokens[t].parent = tokens[u].parent /\ tokens[t].parent # 0 => t = u

\* Every session that can still be refreshed was opened under the current
\* password: a reset ends all others ("could not invalidate active sessions"
\* is its error), and none comes back.
ResetEndsOldSessions == \A t \in Stored : tokens[t].pw = row.password

\* Between requests, an access token of an earlier version is refused at the
\* gateway by one of its two checks, even when Redis missed the new version or
\* the process stopped in the middle of an invalidation.
StaleAccessBlocked ==
    (\A r \in Reqs : req[r].pc = "idle") =>
        \A t \in issued : TokenVersionStale(t, row) => ~GatewayAccepts(t)

\* An access token that the service refuses because of its version is never
\* accepted again ("Invalidate every session").
StaleAccessStaysStale ==
    [][\A t \in issued : TokenVersionStale(t, row) => TokenVersionStale(t, row')]_vars

\* A refresh token that has left the row, rotated, evicted, logged out or
\* invalidated, is never stored again, by any request but the two that write a
\* whole list back (logout and the rehash of a password): what a login or a
\* rotation stores late, after others ended every session, is always new.
NoResurrection ==
    [][(\A r \in Reqs : req[r].pc \in {"logoutsave", "rehash"} => req'[r] = req[r])
        => \A t \in Range(row'.refreshTokens) : t \in Stored \/ t \notin ever]_vars

\* A logout changes the stored sessions by removing its own, nothing else
\* ("Remove a single refresh token").
LogoutRemovesOneSession ==
    [][\A r \in Reqs : req[r].pc = "logoutsave" /\ req'[r].pc = "logoutrevoke" =>
        Range(row'.refreshTokens) = Stored \ {req[r].tok}]_vars

\* A rotation ends the session it replaces and no other, except that a full
\* list also loses its oldest entry.
RotationSparesOthers ==
    [][\A r \in Reqs : req[r].pc = "rotate" /\ req'[r].pc = "publish" =>
        \A t \in Stored \ Range(row'.refreshTokens) :
            \/ t = req[r].tok
            \/ Len(row.refreshTokens) = MaxRefresh /\ t = Head(row.refreshTokens)]_vars

==============================================================================
