------------------------------ MODULE Migration ------------------------------
(***************************************************************************)
(* Moving an account to another email address                              *)
(* (src/controllers/migration.controller.ts), and the login that may       *)
(* finish such a move (login in src/controllers/auth.controller.ts).       *)
(*                                                                         *)
(* The owner initiates the migration; a link goes to the current and one   *)
(* to the new address; using both finalises the migration: whichever       *)
(* account has the new address is deleted (often a placeholder that        *)
(* verifyNewEmail made) and the row takes the address over.  For a grace   *)
(* period the former address resolves to the account too.                  *)
(***************************************************************************)
EXTENDS Accounts

\* authenticate and requireVerifiedEmail let the owner of row u in
Authentic(u) == Live(u) /\ users[u].isEmailVerified

------------------------------------------------------------------------------
(* The history of migrations kept in the row *)

Pending(e) == [to |-> e, status |-> "pending", cur |-> FALSE, new |-> FALSE]
Success(e) == [to |-> e, status |-> "success", cur |-> TRUE, new |-> TRUE]

\* finalisation: the first pending entry for e becomes a success, or one is added
MarkSuccess(h, e) ==
    LET i == SelectInSeq(h, LAMBDA m : m.status = "pending" /\ m.to = e)
    IN  IF i = 0 THEN Append(h, Success(e)) ELSE [h EXCEPT ![i] = Success(e)]

\* mutant: the flags of the two links are not looked at
DisplayStored(m) == m.status

\* what getMigrationHistory shows
DisplayStatus(m) == IF m.cur /\ m.new THEN "success" ELSE m.status

------------------------------------------------------------------------------
(* initiateMigration *)

\* mutant: no look at the cooldown
MayInitiateAnyTime(d) == d.newEmailPending = None /\ ~InGrace(d)

\* the checks on the user that authenticate has loaded
MayInitiate(d) ==
    /\ d.newEmailPending = None
    /\ ~InGrace(d)
    /\ d.lastMigrationDate = 0 \/ now - d.lastMigrationDate >= Cooldown

InitiateMigration(s, u, e) ==
    /\ Authentic(u) /\ CanGenerate
    /\ MayInitiate(users[u])
    /\ \E yes \in BOOLEAN :
         Begin(s, "initiate", [pc |-> "initlookup", doc |-> Load(u), e |-> e, confirm |-> yes])
    /\ Reads

InitiateLookup(s) ==
    /\ At(s, "initlookup")
    /\ Goto(s, [pc |-> "initexists", x |-> findUserIdByPrimaryEmail(req[s].e)])
    /\ Reads

\* mutant: the user's own address is not refused
InitiateExistsOther(s) ==
    /\ At(s, "initexists")
    /\ IF Live(req[s].x) /\ ~req[s].confirm THEN Answer(s) ELSE Goto(s, [pc |-> "initreload"])
    /\ Reads

\* an account with the new address is only accepted with confirmOverride
InitiateExists(s) ==
    /\ At(s, "initexists")
    /\ IF Live(req[s].x) /\ (req[s].x = req[s].doc.id \/ ~req[s].confirm) THEN Answer(s)
       ELSE Goto(s, [pc |-> "initreload"])
    /\ Reads

\* the password, for a local account, and the document that is going to be saved
InitiateReload(s) ==
    LET u == req[s].doc.id IN
    /\ At(s, "initreload")
    /\ IF Live(u) /\ (users[u].provider = Local => users[u].password)
       THEN Goto(s, [pc |-> "initsave", doc |-> Load(u)]) ELSE Answer(s)
    /\ Reads

InitiateSave(s) ==
    /\ At(s, "initsave")
    /\ CanGenerate /\ gen' = Fresh
    /\ SaveAndSync(s, [newEmailPending |-> req[s].e, migrationToken |-> Fresh,
                       migrationTokenExpires |-> now + TokenTtl,
                       currentEmailVerified |-> FALSE, newEmailVerified |-> FALSE,
                       migrationHistory |-> Append(req[s].doc.migrationHistory, Pending(req[s].e))],
                   "mailmigrate", "idle")
    /\ UNCHANGED <<links, opened>>

\* both links, to the current and to the new address
MigrationMail(s) ==
    LET d == req[s].sd
        To(kind, e) == [kind |-> kind, secret |-> d.migrationToken, u |-> d.id, to |-> e]
    IN
    /\ At(s, "mailmigrate")
    /\ Mail({To("current", d.email), To("new", d.newEmailPending)})
    /\ Answer(s)
    /\ UNCHANGED <<store, gen, opened, now, health, movedAt>>

------------------------------------------------------------------------------
(* resendMigrationEmails *)

\* mutant: the index keeps the old deadline
ResendSaveOnly(s) ==
    /\ At(s, "resendsave")
    /\ CanGenerate /\ gen' = Fresh
    /\ Save(s, [migrationToken |-> Fresh, migrationTokenExpires |-> now + TokenTtl,
                migrationHistory |-> req[s].doc.migrationHistory],
            LAMBDA d : [pc |-> "mailmigrate", doc |-> d, sd |-> d], "idle")
    /\ UNCHANGED <<links, opened>>

ResendMigration(s, u) ==
    LET d == Load(u) IN
    /\ Authentic(u) /\ CanGenerate
    /\ d.newEmailPending # None
    /\ d.migrationTokenExpires >= now
    /\ now - (d.migrationTokenExpires - TokenTtl) >= ResendGap
    /\ Begin(s, "resend", [pc |-> "resendsave", doc |-> d])
    /\ Reads

ResendSave(s) ==
    /\ At(s, "resendsave")
    /\ CanGenerate /\ gen' = Fresh
    /\ SaveAndSync(s, [migrationToken |-> Fresh, migrationTokenExpires |-> now + TokenTtl,
                       migrationHistory |-> req[s].doc.migrationHistory], "mailmigrate", "idle")
    /\ UNCHANGED <<links, opened>>

------------------------------------------------------------------------------
(* verifyCurrentEmail and verifyNewEmail *)

VerifyMigration(s, l) ==
    /\ l.kind \in {"current", "new"}
    /\ l.kind = "new" => Room
    /\ Begin(s, l.kind, [pc |-> "findmigration", link |-> l.secret])
    /\ Consume(l)

VerifyMigrationFind(s) ==
    LET match == {u \in Users : /\ Live(u) /\ users[u].migrationToken = req[s].link
                                /\ users[u].migrationTokenExpires > now
                                /\ req[s].op = "new" => users[u].newEmailPending # None}
    IN
    /\ At(s, "findmigration")
    /\ IF match = {} THEN Answer(s)
       ELSE \E u \in match :
              Goto(s, [doc |-> Load(u), e |-> users[u].newEmailPending,
                       pc |-> IF req[s].op = "new" THEN "newlookup" ELSE "saveverified"])
    /\ Reads

VerifyNewLookup(s) ==
    /\ At(s, "newlookup")
    /\ Goto(s, [pc |-> "newexists", x |-> findUserIdByPrimaryEmail(req[s].e)])
    /\ Reads

VerifyNewExists(s) ==
    /\ At(s, "newexists")
    /\ Goto(s, [pc |-> IF Live(req[s].x) THEN "saveverified" ELSE "placeholder"])
    /\ Reads

\* a minimal row that holds the new address until the migration is finalised
VerifyNewPlaceholder(s) ==
    /\ At(s, "placeholder")
    /\ InsertAndSync(s, [NoRow EXCEPT !.email = req[s].e], "saveverified")
    /\ UNCHANGED <<post, now, health>>

VerifyMigrationSave(s) ==
    LET flag == IF req[s].op = "new" THEN [newEmailVerified |-> TRUE]
                ELSE [currentEmailVerified |-> TRUE]
    IN
    /\ At(s, "saveverified")
    /\ Save(s, flag ++ [migrationHistory |-> req[s].doc.migrationHistory],
            LAMBDA d : [pc |-> "readhistory", doc |-> d], "idle")
    /\ UNCHANGED post

\* the reloaded document's last entry, when it is the pending one of this user
VerifyHistoryRead(s) ==
    LET d == Load(req[s].doc.id)
        h == d.migrationHistory
    IN
    /\ At(s, "readhistory")
    /\ IF h # <<>> /\ Last(h).status = "pending" /\ Last(h).to = req[s].doc.newEmailPending
       THEN Goto(s, [pc |-> "savehistory", keep |-> d])
       ELSE Goto(s, [pc |-> "bothverified"])
    /\ Reads

VerifyHistorySave(s) ==
    LET h == req[s].keep.migrationHistory
        m == IF req[s].op = "new" THEN [Last(h) EXCEPT !.new = TRUE]
             ELSE [Last(h) EXCEPT !.cur = TRUE]
    IN
    /\ At(s, "savehistory")
    /\ Save(s, [migrationHistory |-> [h EXCEPT ![Len(h)] = m]],
            LAMBDA d : [pc |-> "bothverified"], "idle")
    /\ UNCHANGED post

BothVerified(d) == d.currentEmailVerified /\ d.newEmailVerified /\ d.newEmailPending # None

\* the reload that decides whether to finalise
VerifyFinalise(s) ==
    LET d == Load(req[s].doc.id) IN
    /\ At(s, "bothverified")
    /\ IF BothVerified(d) THEN Goto(s, [pc |-> "finalise", doc |-> d]) ELSE Answer(s)
    /\ Reads

------------------------------------------------------------------------------
(* finalizeMigration: the endpoint.  It looks at the flags, not at            *)
(* migrationTokenExpires.                                                     *)

\* mutant: the endpoint does not look at the flags
FinalizeUnverified(s, u) ==
    /\ Authentic(u) /\ users[u].newEmailPending # None
    /\ Begin(s, "finalise", [pc |-> "finalise", doc |-> Load(u)])
    /\ Reads

FinalizeMigration(s, u) ==
    /\ Authentic(u) /\ BothVerified(users[u])
    /\ Begin(s, "finalise", [pc |-> "finalise", doc |-> Load(u)])
    /\ Reads

------------------------------------------------------------------------------
(* finalizeMigrationInternal.  doc is the user it was called with, then the   *)
(* current one; keep is the document whose profile is preserved.              *)

\* the columns every variant of the finalisation writes for document d
Moved(d, e) ==
    [previousEmail |-> d.email, email |-> e, migrationExpiry |-> now + GraceTtl,
     lastMigrationDate |-> now, isEmailVerified |-> TRUE, newEmailPending |-> None,
     migrationToken |-> 0, currentEmailVerified |-> FALSE, newEmailVerified |-> FALSE]

\* mutant: the profile is not the one of the account that moves
PreservedDefault(d) == [bio |-> NoRow.bio, provider |-> d.provider]

\* applyUserData
Preserved(d) == [bio |-> d.bio, provider |-> d.provider]

\* mutant: an expired migration is not finalised
FinaliseReadUnexpired(s) ==
    LET d == Load(req[s].doc.id) IN
    /\ At(s, "finalise")
    /\ IF \/ d.id = 0 \/ d.tokenVersion # req[s].doc.tokenVersion
          \/ d.newEmailPending = None \/ d.migrationTokenExpires < now
       THEN Answer(s)
       ELSE Goto(s, [pc |-> "finlookup", doc |-> d, keep |-> d, e |-> d.newEmailPending])
    /\ Reads

FinaliseRead(s) ==
    LET d == Load(req[s].doc.id) IN
    /\ At(s, "finalise")
    /\ IF d.id = 0 \/ d.tokenVersion # req[s].doc.tokenVersion \/ d.newEmailPending = None
       THEN Answer(s)
       ELSE Goto(s, [pc |-> "finlookup", doc |-> d, keep |-> d, e |-> d.newEmailPending])
    /\ Reads

FinaliseLookup(s) ==
    /\ At(s, "finlookup")
    /\ Goto(s, [pc |-> "finexists", x |-> findUserIdByPrimaryEmail(req[s].e)])
    /\ Reads

FinaliseExists(s) ==
    /\ At(s, "finexists")
    /\ Goto(s, [pc |-> IF ~Live(req[s].x) THEN "finreload"
                       ELSE IF req[s].x # req[s].doc.id THEN "finrelease" ELSE "finupdate"])
    /\ Reads

FinaliseRelease(s) == At(s, "finrelease") /\ Release(s, req[s].x, "findelete")

FinaliseDelete(s) == At(s, "findelete") /\ Delete(s, req[s].x, "finupdate")

\* findOneAndUpdate with the version; the answer is 409 when it has changed
FinaliseUpdate(s) ==
    LET d == req[s].doc
        r == (Moved(d, req[s].e) ++ [migrationTokenExpires |-> 0,
                                     tokenVersion |-> d.tokenVersion + 1]) ++ users[d.id]
    IN
    /\ At(s, "finupdate")
    /\ IF ~Live(d.id) \/ users[d.id].tokenVersion # d.tokenVersion
       THEN Answer(s) /\ UNCHANGED <<store, now, health, movedAt>>
       ELSE IF Duplicate(r)
       THEN Goto(s, [pc |-> "duplicate"]) /\ UNCHANGED <<store, now, health, movedAt>>
       ELSE Goto(s, [pc |-> "finprofile", doc |-> r]) /\ WriteRow(r)
    /\ UNCHANGED post

\* the history, and the preserved profile unless the row had the address already
FinaliseProfile(s) ==
    LET h == [migrationHistory |-> MarkSuccess(req[s].doc.migrationHistory, req[s].e)]
        same == req[s].x = req[s].doc.id
    IN
    /\ At(s, "finprofile")
    /\ SaveAndSync(s, IF same THEN h ELSE h ++ Preserved(req[s].keep),
                   IF same THEN "idle" ELSE "checkbio", "duplicate")
    /\ UNCHANGED post

\* nobody has the new address: the row is loaded again, without the version
FinaliseReload(s) ==
    LET d == Load(req[s].doc.id) IN
    /\ At(s, "finreload")
    /\ IF d.id = 0 THEN Answer(s)
       ELSE Goto(s, [pc |-> "finsave", doc |-> d, keep |-> d])
    /\ Reads

FinaliseSave(s) ==
    LET d == req[s].doc IN
    /\ At(s, "finsave")
    /\ SaveAndSync(s, Moved(d, req[s].e) ++ Preserved(d) ++
                      [migrationTokenExpires |-> 0,
                       migrationHistory |-> MarkSuccess(d.migrationHistory, req[s].e)],
                   "checkbio", "duplicate")
    /\ UNCHANGED post

\* the row is read back, and the preserved bio saved again if it has another
FinaliseCheckBio(s) ==
    LET d == Load(req[s].doc.id) IN
    /\ At(s, "checkbio")
    /\ IF d.id = 0 \/ d.bio = req[s].keep.bio THEN Answer(s)
       ELSE Goto(s, [pc |-> "savebio2", doc |-> d])
    /\ Reads

FinaliseSaveBio(s) ==
    /\ At(s, "savebio2")
    /\ Save(s, [bio |-> req[s].keep.bio, migrationHistory |-> req[s].doc.migrationHistory],
            LAMBDA d : Idle, "idle")
    /\ UNCHANGED post

\* the catch: a duplicate address, the account that has it is deleted
RecoverLookup(s) ==
    /\ At(s, "duplicate")
    /\ Goto(s, [pc |-> "recover", x |-> findUserIdByPrimaryEmail(req[s].e)])
    /\ Reads

RecoverFind(s) ==
    /\ At(s, "recover")
    /\ IF Live(req[s].x) /\ req[s].x # req[s].doc.id
       THEN Goto(s, [pc |-> "recrelease"]) ELSE Answer(s)
    /\ Reads

RecoverRelease(s) == At(s, "recrelease") /\ Release(s, req[s].x, "recdelete")

RecoverDelete(s) == At(s, "recdelete") /\ Delete(s, req[s].x, "idle")

------------------------------------------------------------------------------
(* login, as far as it looks the address up and finishes a migration; the     *)
(* session it opens is the business of Sessions                               *)

Login(s, e) ==
    /\ Begin(s, "login", [pc |-> "resolve", k |-> 1, cont |-> "loginuser", e |-> e])
    /\ Reads

\* before the password is looked at, both flags finish the migration
LoginUser(s) ==
    LET d == Load(req[s].x) IN
    /\ At(s, "loginuser")
    /\ IF d.newEmailPending = req[s].e /\ BothVerified(d)
       THEN Goto(s, [pc |-> "loginsave", doc |-> d]) ELSE Answer(s)
    /\ Reads

\* mutant: the index is not told
LoginSaveOnly(s) ==
    LET d == req[s].doc IN
    /\ At(s, "loginsave")
    /\ Save(s, Moved(d, d.newEmailPending) ++ [migrationHistory |-> d.migrationHistory],
            LAMBDA r : Idle, "idle")
    /\ UNCHANGED post

LoginSave(s) ==
    LET d == req[s].doc IN
    /\ At(s, "loginsave")
    /\ SaveAndSync(s, Moved(d, d.newEmailPending) ++ [migrationHistory |-> d.migrationHistory],
                   "idle", "idle")
    /\ UNCHANGED post

------------------------------------------------------------------------------
(* cleanup-expired-migrations, a script that is run daily *)

CleanupExpired(s, u) ==
    /\ Live(u) /\ users[u].previousEmail # None
    /\ users[u].migrationExpiry \in 1..(now - 1)
    /\ Begin(s, "cleanup", [pc |-> "cleanup", doc |-> Load(u)])
    /\ Reads

CleanupSave(s) ==
    /\ At(s, "cleanup")
    /\ Save(s, [previousEmail |-> None, migrationExpiry |-> 0,
                migrationHistory |-> req[s].doc.migrationHistory], LAMBDA d : Idle, "idle")
    /\ UNCHANGED post

------------------------------------------------------------------------------
MigrationStep(s) ==
    \/ InitiateLookup(s) \/ InitiateExists(s) \/ InitiateReload(s) \/ InitiateSave(s)
    \/ MigrationMail(s) \/ ResendSave(s)
    \/ VerifyMigrationFind(s) \/ VerifyNewLookup(s) \/ VerifyNewExists(s)
    \/ VerifyNewPlaceholder(s) \/ VerifyMigrationSave(s) \/ VerifyHistoryRead(s)
    \/ VerifyHistorySave(s) \/ VerifyFinalise(s)
    \/ FinaliseRead(s) \/ FinaliseLookup(s) \/ FinaliseExists(s) \/ FinaliseRelease(s)
    \/ FinaliseDelete(s) \/ FinaliseUpdate(s) \/ FinaliseProfile(s) \/ FinaliseReload(s)
    \/ FinaliseSave(s) \/ FinaliseCheckBio(s) \/ FinaliseSaveBio(s)
    \/ RecoverLookup(s) \/ RecoverFind(s) \/ RecoverRelease(s) \/ RecoverDelete(s)
    \/ LoginUser(s) \/ LoginSave(s) \/ CleanupSave(s)

MigrationStart(s) ==
    \/ \E u \in Users, e \in Emails : InitiateMigration(s, u, e)
    \/ \E l \in links : VerifyMigration(s, l)
    \/ \E u \in Users : \/ ResendMigration(s, u) \/ FinalizeMigration(s, u)
                        \/ CleanupExpired(s, u)
    \/ \E e \in Emails : Login(s, e)

Next ==
    \/ \E s \in Slots : \/ AccountStart(s) \/ AccountStep(s)
                        \/ MigrationStart(s) \/ MigrationStep(s) \/ StatementFails(s)
    \/ \E u \in Users : BumpVersion(u)
    \/ Tick \/ Sweep \/ Crash \/ Boot

Spec == Init /\ [][Next]_vars

\* A request that was started goes on, a service that died is started again,
\* and the client keeps asking for the finalisation: getMigrationStatus tells it
\* so (needsFinalization) until the links expire, the endpoint takes it later too.
FairSpec == /\ Spec
            /\ WF_vars(Boot)
            /\ \A s \in Slots : WF_vars(AccountStep(s) \/ MigrationStep(s))
            /\ \A s \in Slots, u \in Users : SF_vars(FinalizeMigration(s, u))

------------------------------------------------------------------------------
TypeOK ==
    /\ users \in [Users -> Row] /\ \A u \in Users : Live(u) => users[u].id = u
    /\ nextId \in 1..(MaxUsers + 1)
    /\ idx \in [Keys -> [user: 0..MaxUsers, exp: Ends]]
    /\ \A s \in Slots : /\ DOMAIN req[s] = DOMAIN Idle
                        /\ req[s].doc \in Row /\ req[s].sd \in Row /\ req[s].keep \in Row
                        /\ req[s].x \in 0..MaxUsers
    /\ links \subseteq Link /\ opened \subseteq Link
    /\ gen \in 0..(MaxTokens + 1) /\ now \in 1..MaxNow
    /\ crashes \in 0..MaxCrashes /\ faults \in 0..MaxFaults

\* (syncIdentityIndexesFromUser, finalizeMigrationInternal.)  When no request
\* is running and no statement has failed since the last boot, the address of
\* every account resolves to it, and to nobody else, and so does its identity at
\* an OAuth provider, whatever overlaps, failures and crashes came before.
IndexResolves ==
    Quiet /\ ~broken =>
        /\ \A e \in Emails :
            findUserIdByPrimaryEmail(e) =
                IF \E u \in Users : users[u].email = e
                THEN CHOOSE u \in Users : users[u].email = e ELSE 0
        /\ \A u \in Users : Live(u) /\ users[u].provider # Local =>
                findUserIdByOAuth(users[u].provider) = u

\* somebody has shown to have an address of account v
Vouched(v) == \E l \in opened : l.u = v

\* Nobody but u has ever asked to move to e: no account that is there, and none that
\* is gone was more than a placeholder or an unverified registration.
SoleClaim(u, e) ==
    \A v \in Users \ {u} : v < nextId =>
        IF Live(v) THEN e \notin Tos(users[v]) ELSE ~Vouched(v)

\* (register, syncIdentityIndexesFromUser, resendMigrationEmails.)  While the
\* migration of u to e can still be verified, e is held for u in the index, so that
\* register turns it away.  The key has room for one account only: when several
\* have asked for e, the sync of one replaces the entry of the other, and takes it
\* along when the account is merged away.
PendingReserved ==
    Quiet /\ ~broken =>
        \A u \in Users :
            Live(u) /\ InPending(users[u]) /\ SoleClaim(u, users[u].newEmailPending) =>
                findPendingMigrationHolder(users[u].newEmailPending) = u

\* (verifyEmail, finalizeMigrationInternal, findUserForOAuth.)  An account is
\* only marked verified when a link mailed to its address was used, or an OAuth
\* provider vouched for the address.
VerifiedIsProved ==
    \A u \in Users : Live(u) /\ users[u].isEmailVerified =>
        \E l \in opened : l.to = users[u].email

\* (initiateMigration, finalizeMigrationInternal, login.)  The address of an
\* account does not change twice within the cooldown.
MigrationsSpaced ==
    [][\A u \in Users : movedAt'[u] # movedAt[u] /\ movedAt[u] # 0 =>
            movedAt'[u] - movedAt[u] >= Cooldown]_movedAt

\* no address is one of the two marks for accounts without one
ASSUME OwnershipAssumption == {"gone", "unborn"} \cap Emails = {}

\* (register, verifyNewEmail, finalizeMigrationInternal, its recovery, login.)
\* Accounts come, move and go as EmailOwnership allows.
Ownership == INSTANCE EmailOwnership WITH
    Accounts  <- Users,
    Addresses <- Emails,
    owner     <- [u \in Users |-> IF Live(u) THEN users[u].email
                                  ELSE IF u < nextId THEN "gone" ELSE "unborn"],
    proved    <- {<<l.u, l.kind, l.to>> : l \in {k \in opened : k.kind \in {"current", "new"}}}

OwnershipKept == Ownership!Spec

\* (getMigrationStatus, finalizeMigration.)  A migration both of whose links
\* were used is completed, however often a crash or a new token version
\* interrupts its finalisation, as long as the client asks again.
VerifiedCompletes ==
    \A u \in Users : BothVerified(users[u]) ~> ~BothVerified(users[u])

\* (applyUserData, verifyBio in finalizeMigrationInternal.)  No migration
\* changes the profile: the bio only changes in a request to change it.
BioSurvives ==
    [][\A u \in Users : Live(u) /\ users[u].bio # users'[u].bio =>
            \/ users'[u] = NoRow
            \/ \E s \in Slots : At(s, "savebio")]_users

\* (finalizeMigrationInternal: "Use atomic update with version check to prevent
\* race conditions".)  A migration is finalised once: a second finalisation would
\* record the new address as the former one, and the former would be forgotten.
FormerAddressKept ==
    \A u \in Users : Live(u) => users[u].previousEmail # users[u].email

\* (getMigrationHistory, finalizeMigrationInternal, login.)  Once no migration
\* is pending, the history shows every migration as a success, also the ones that
\* a login finished without touching the history.
HistorySettled ==
    Quiet => \A u \in Users : Live(u) /\ users[u].newEmailPending = None =>
        \A i \in DOMAIN users[u].migrationHistory :
            DisplayStatus(users[u].migrationHistory[i]) = "success"

==============================================================================
