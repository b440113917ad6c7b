------------------------------ MODULE Accounts -------------------------------
(***************************************************************************)
(* How accounts come to be: registration and email verification            *)
(* (src/controllers/auth.controller.ts), OAuth sign-in                     *)
(* (src/config/passport.ts) and the profile endpoint                       *)
(* (src/controllers/profile.controller.ts), on the tables of               *)
(* IdentityStore.                                                          *)
(*                                                                         *)
(* A link mailed to an address carries a secret.  Its opaque code and form *)
(* token are those of OneTimeCodes; here a link that was delivered can be  *)
(* used once.                                                              *)
(***************************************************************************)
EXTENDS IdentityStore

CONSTANT AutoVerifyEmail   \* config.security.autoVerifyEmail

ASSUME AccountsAssumption == AutoVerifyEmail \in BOOLEAN

\* a handler generates the next secret
Fresh == gen + 1
CanGenerate == gen < MaxTokens

\* the mails of a handler: any of them may fail to be sent
Mail(batch) == \E sent \in SUBSET batch : links' = links \cup sent

\* consumeFormToken: the form token, and with it the link, is gone whatever
\* the handler does next
Consume(l) ==
    /\ links' = links \ {l} /\ opened' = opened \cup {l}
    /\ UNCHANGED <<gen, store, now, health, movedAt>>

\* history: an OAuth provider vouched for e, the address of account u
Vouch(u, e) == opened' = opened \cup {[kind |-> "oauth", secret |-> 0, u |-> u, to |-> e]}

------------------------------------------------------------------------------
(* register *)

Register(s, e) ==
    /\ Room /\ CanGenerate
    /\ Begin(s, "register", [pc |-> "holder", e |-> e])
    /\ Reads

RegisterHolder(s) ==
    /\ At(s, "holder")
    /\ IF findPendingMigrationHolder(req[s].e) # 0 THEN Answer(s) ELSE Goto(s, [pc |-> "lookup"])
    /\ Reads

RegisterLookup(s) ==
    /\ At(s, "lookup")
    /\ Goto(s, [pc |-> "taken", x |-> findUserIdByPrimaryEmail(req[s].e)])
    /\ Reads

RegisterTaken(s) ==
    /\ At(s, "taken")
    /\ IF Load(req[s].x).isEmailVerified THEN Answer(s)
       ELSE Goto(s, [pc |-> "create", doc |-> Load(req[s].x)])
    /\ Reads

\* mutant: the account counts as verified although a link is sent
CredentialsVerified ==
    [password |-> TRUE, provider |-> Local, isEmailVerified |-> TRUE,
     emailVerificationToken |-> Fresh, emailVerificationExpires |-> now + TokenTtl]

\* the columns that register fills in
Credentials ==
    [password |-> TRUE, provider |-> Local, isEmailVerified |-> AutoVerifyEmail,
     emailVerificationToken |-> IF AutoVerifyEmail THEN 0 ELSE Fresh,
     emailVerificationExpires |-> IF AutoVerifyEmail THEN 0 ELSE now + TokenTtl]

\* an unverified account is given the new password and secret, or a row is made
RegisterSave(s) ==
    /\ At(s, "create")
    /\ CanGenerate /\ gen' = Fresh
    /\ IF req[s].doc.id # 0
       THEN SaveAndSync(s, Credentials ++ [migrationHistory |-> req[s].doc.migrationHistory],
                        "mailverify", "idle")
       ELSE /\ InsertAndSync(s, Credentials ++ [NoRow EXCEPT !.email = req[s].e], "mailverify")
            /\ UNCHANGED <<now, health>>
    /\ UNCHANGED <<links, opened>>

RegisterMail(s) ==
    LET d == req[s].sd IN
    /\ At(s, "mailverify")
    /\ Mail(IF AutoVerifyEmail THEN {} ELSE
            {[kind |-> "verify", secret |-> d.emailVerificationToken, u |-> d.id, to |-> req[s].e]})
    /\ Answer(s)
    /\ UNCHANGED <<store, gen, opened, now, health, movedAt>>

------------------------------------------------------------------------------
(* resendVerification: a lookup, the row, a new secret; the index is left alone *)

ResendVerification(s, e) ==
    /\ CanGenerate
    /\ Begin(s, "reverify", [pc |-> "reverify", e |-> e, x |-> findUserIdByPrimaryEmail(e)])
    /\ Reads

ResendVerificationFind(s) ==
    LET d == Load(req[s].x) IN
    /\ At(s, "reverify")
    /\ IF d.id = 0 \/ d.isEmailVerified \/ d.provider # Local THEN Answer(s)
       ELSE Goto(s, [pc |-> "reverifysave", doc |-> d])
    /\ Reads

ResendVerificationSave(s) ==
    /\ At(s, "reverifysave")
    /\ CanGenerate /\ gen' = Fresh
    /\ Save(s, [emailVerificationToken |-> Fresh, emailVerificationExpires |-> now + TokenTtl,
                migrationHistory |-> req[s].doc.migrationHistory],
            LAMBDA d : [pc |-> "mailverify", doc |-> d, sd |-> d], "idle")
    /\ UNCHANGED <<links, opened>>

------------------------------------------------------------------------------
(* verifyEmail *)

VerifyEmail(s, l) ==
    /\ l.kind = "verify"
    /\ Begin(s, "verify", [pc |-> "findverify", link |-> l.secret])
    /\ Consume(l)

VerifyEmailFind(s) ==
    LET match == {u \in Users : /\ Live(u) /\ users[u].provider = Local
                                /\ users[u].emailVerificationToken = req[s].link
                                /\ users[u].emailVerificationExpires > now}
    IN
    /\ At(s, "findverify")
    /\ IF match = {} THEN Answer(s)
       ELSE \E u \in match : Goto(s, [pc |-> "saveverify", doc |-> users[u]])
    /\ Reads

VerifyEmailSave(s) ==
    /\ At(s, "saveverify")
    /\ SaveAndSync(s, [password |-> TRUE, isEmailVerified |-> TRUE,
                       emailVerificationToken |-> 0, emailVerificationExpires |-> 0,
                       migrationHistory |-> req[s].doc.migrationHistory], "idle", "idle")
    /\ UNCHANGED post

------------------------------------------------------------------------------
(* findUserForOAuth and the strategies *)

OAuth(s, id) ==
    /\ Room
    /\ Begin(s, "oauth", [pc |-> "oauthid", id |-> id, e |-> id[2], x |-> findUserIdByOAuth(id)])
    /\ Reads

OAuthById(s) ==
    /\ At(s, "oauthid")
    /\ IF Live(req[s].x) THEN Goto(s, [pc |-> "strategy", doc |-> Load(req[s].x)])
       ELSE Goto(s, [pc |-> "resolve", k |-> 1, cont |-> "oauthuser"])
    /\ Reads

\* canOAuthTakeOverLocalAccount, on the columns the query has selected
CanTakeOver(d) == ~d.password \/ ~d.isEmailVerified

\* what happens to the account the address resolves to
TakeOverOrSignIn(d) == IF d.provider # Local THEN "strategy"
                       ELSE IF CanTakeOver(d) THEN "takeover" ELSE "oauthcreate"

OAuthUser(s) ==
    LET d == Load(req[s].x)
        former == d.previousEmail = req[s].e /\ d.email # req[s].e
    IN
    /\ At(s, "oauthuser")
    /\ Goto(s, [doc |-> d,
                pc |-> IF ~Live(req[s].x) THEN "oauthcreate"
                       ELSE IF former /\ d.migrationExpiry > now THEN "strategy"
                       ELSE IF former THEN "oauthprimary"
                       ELSE TakeOverOrSignIn(d)])
    /\ Reads

\* the grace period has just ended: whoever has the address now
OAuthPrimary(s) ==
    /\ At(s, "oauthprimary")
    /\ Goto(s, [pc |-> "oauthprimaryuser", x |-> findUserIdByPrimaryEmail(req[s].e)])
    /\ Reads

OAuthPrimaryUser(s) ==
    LET d == IF Live(req[s].x) THEN Load(req[s].x) ELSE req[s].doc IN
    /\ At(s, "oauthprimaryuser")
    /\ Goto(s, [doc |-> d, pc |-> TakeOverOrSignIn(d)])
    /\ Reads

OAuthTakeOver(s) ==
    /\ At(s, "takeover")
    /\ SaveAndSync(s, [provider |-> req[s].id, isEmailVerified |-> TRUE,
                       migrationHistory |-> req[s].doc.migrationHistory], "strategy", "idle")
    /\ Vouch(req[s].doc.id, req[s].e)
    /\ UNCHANGED <<links, gen>>

\* oauthProviderConflict, then the profile's picture and name, if they changed
OAuthStrategy(s) ==
    LET d == req[s].doc
        conflict == \/ d.provider # Local /\ d.provider[1] # req[s].id[1]
                    \/ d.provider = Local /\ d.isEmailVerified /\ d.password
    IN
    /\ At(s, "strategy")
    /\ \/ Answer(s) /\ UNCHANGED <<store, now, health, movedAt>>
       \/ ~conflict /\ SaveAndSync(s, [migrationHistory |-> d.migrationHistory], "idle", "idle")
    /\ UNCHANGED post

OAuthCreate(s) ==
    /\ At(s, "oauthcreate")
    /\ InsertAndSync(s, [NoRow EXCEPT !.email = req[s].e, !.provider = req[s].id,
                                      !.isEmailVerified = TRUE], "idle")
    /\ IF nextId' # nextId THEN Vouch(nextId, req[s].e) ELSE UNCHANGED opened
    /\ UNCHANGED <<links, gen, now, health>>

------------------------------------------------------------------------------
(* updateBio: the row is looked up by id, address or former address, and the  *)
(* query takes the first match in no particular order                         *)

UpdateBio(s, u) ==
    /\ Live(u)
    /\ Begin(s, "bio", [pc |-> "findbio", doc |-> Load(u)])
    /\ Reads

UpdateBioFind(s) ==
    LET me == req[s].doc
        match == {u \in Users : /\ Live(u)
                                /\ \/ u = me.id
                                   \/ me.email \in {users[u].email, users[u].previousEmail}}
    IN
    /\ At(s, "findbio")
    /\ IF match = {} THEN Answer(s)
       ELSE \E u \in match : Goto(s, [pc |-> "savebio", doc |-> Load(u)])
    /\ Reads

UpdateBioSave(s) ==
    /\ At(s, "savebio")
    /\ \E b \in {"old", "new"} :
         Save(s, [bio |-> b, migrationHistory |-> req[s].doc.migrationHistory],
              LAMBDA d : Idle, "idle")
    /\ UNCHANGED post

------------------------------------------------------------------------------
\* every step of a request that the handlers of this module share or own
AccountStep(s) ==
    \/ Resolve(s) \/ SyncSelect(s) \/ SyncWrite(s) \/ SyncPrune(s)
    \/ RegisterHolder(s) \/ RegisterLookup(s) \/ RegisterTaken(s) \/ RegisterSave(s)
    \/ RegisterMail(s)
    \/ ResendVerificationFind(s) \/ ResendVerificationSave(s)
    \/ VerifyEmailFind(s) \/ VerifyEmailSave(s)
    \/ OAuthById(s) \/ OAuthUser(s) \/ OAuthPrimary(s) \/ OAuthPrimaryUser(s)
    \/ OAuthTakeOver(s) \/ OAuthStrategy(s) \/ OAuthCreate(s)
    \/ UpdateBioFind(s) \/ UpdateBioSave(s)

AccountStart(s) ==
    \/ \E e \in Emails : Register(s, e) \/ ResendVerification(s, e)
    \/ \E l \in links : VerifyEmail(s, l)
    \/ \E id \in OAuthIds : OAuth(s, id)
    \/ \E u \in Users : UpdateBio(s, u)

==============================================================================
